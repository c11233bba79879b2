------------------------ MODULE FanoutBuffers_proofs ------------------------
(***************************************************************************)
(* Proofs about FanoutBuffers, for any design, any limits and any number   *)
(* of buffers.  The types hold for any of them.  The rest is proved for    *)
(* designs in which no input gets a dff_ctrl_net name: such an input would *)
(* be taken for the output of a buffer, and the validation does not count  *)
(* it (Netlist.cpp:154).  IInv below is the invariant: what is put back by *)
(* a rollback is good, and as long as no net has two drivers, what has     *)
(* been done so far is good as well (HalfWay).                             *)
(***************************************************************************)
EXTENDS FanoutBuffers, FiniteSetTheorems, TLAPS

NetShape(nl) ==
  /\ nl \in [on : [1..NPins + Len(nl.out) -> 1..nl.size], out : Seq(1..nl.size), size : Nat,
             named : [CtrlNames -> 0..nl.size], root : [1..nl.size -> DesignNets]]
  /\ NNets <= nl.size /\ nl.size <= NNets + Len(nl.out) /\ Len(nl.out) <= MaxBuffers

Calls(nl) ==
  [serving : {TRUE}, wanted : SUBSET (1..nl.size), limit : Nat, ctrl : BOOLEAN,
   targets : SUBSET (1..nl.size),
   todo : UNION {[T -> SUBSET DOMAIN nl.on] : T \in SUBSET (1..nl.size)},
   source : 0..nl.size, rest : SUBSET DOMAIN nl.on, made : SUBSET (1..nl.size),
   counter : 0..Len(nl.out)]

CallShape ==
  call # Idle =>
    /\ call \in Calls(net)
    /\ call.rest # {} => call.source # 0
    /\ call.limit < 2 => DOMAIN call.todo = {} /\ call.rest = {}

Shapes ==
  /\ home \in [Pins -> DesignNets]
  /\ NetShape(net) /\ NetShape(saved) /\ CallShape
  /\ ~call.serving => saved = net
  /\ call.serving => reply = NoReply
  /\ reply.kind \in {"none", "done", "rolled back"}

(* A dff_ctrl name is the user's, or that of the output of some buffer.    *)
NamesAccounted(nl) ==
  \A k \in CtrlNames : nl.named[k] # 0 =>
    nl.named[k] \in Takers \/ \E b \in DOMAIN nl.out : nl.out[b] = nl.named[k]

(* No net has two drivers that the validation would see.                   *)
OneDriver(nl) ==
  /\ \A b, c \in DOMAIN nl.out : b # c => nl.out[b] # nl.out[c]
  /\ \A b \in DOMAIN nl.out : nl.out[b] \notin DesignNets \ Inputs

SignalsKept(nl) ==
  /\ \A p \in Pins : nl.root[nl.on[p]] = home[p]
  /\ \A b \in DOMAIN nl.out : nl.root[nl.out[b]] = nl.root[nl.on[BufferPin(b)]]

NoCircle(on, out) ==
  \A B \in (SUBSET DOMAIN out) \ {{}} :
    \E b \in B : \A c \in B : on[BufferPin(b)] # out[c]

Good(nl) == OneDriver(nl) /\ SignalsKept(nl) /\ NoCircle(nl.on, nl.out)

(* The pins that are still to be moved, put where the chain has got to.    *)
Advanced ==
  [p \in DOMAIN net.on |-> IF p \in call.rest THEN call.source ELSE net.on[p]]

Portion(n) == IF n \in Ports THEN 1 ELSE 0

(* The loads of n that will stay on it.                                    *)
Staying(n) == Cardinality(Sinks(net, n) \ call.rest) + Portion(n)

(* Half way through a command: no signal has changed, the pins of a net    *)
(* not reached yet are where they were, the end of the chain has a place   *)
(* left for the next buffer, and what is behind it keeps the limit.        *)
HalfWay ==
  /\ SignalsKept(net)
  /\ \A p \in call.rest : net.root[net.on[p]] = net.root[call.source]
  /\ \A n \in DOMAIN call.todo :
       call.todo[n] = Sinks(net, n) /\ call.todo[n] \cap call.rest = {}
  /\ call.rest # {} =>
       /\ call.source \notin DOMAIN call.todo
       /\ Staying(call.source) <= call.limit - 1
  /\ call.limit >= 2 =>
       \A n \in (call.wanted \cup call.made) \ DOMAIN call.todo : Staying(n) <= call.limit
  /\ NoCircle(Advanced, net.out)

(* The loads n will have: the end of the chain gets one buffer more.       *)
Settled(n) == Staying(n) + (IF call.rest # {} /\ n = call.source THEN 1 ELSE 0)

(* Nets of new buffers that will not be full.                              *)
Slack == {n \in call.made : Settled(n) < call.limit}

(* Half way through a command nothing has been wasted either: what is      *)
(* still to be done is too much for one net, and there is at most one net  *)
(* with a place left for each target that is done with.                    *)
Exactly ==
  /\ DOMAIN call.todo \subseteq call.targets
  /\ \A n \in DOMAIN call.todo : Load(net, n) > call.limit
  /\ \A n \in call.targets \ DOMAIN call.todo : Settled(n) = call.limit
  /\ \A n \in call.made : Settled(n) >= 2
  /\ call.rest # {} => Settled(call.source) = call.limit /\ Cardinality(call.rest) >= 2
  /\ Cardinality(Slack) + Cardinality(DOMAIN call.todo) + (IF call.rest # {} THEN 1 ELSE 0)
       <= Cardinality(call.targets)

IInv ==
  /\ Shapes /\ NamesAccounted(net) /\ NamesAccounted(saved)
  /\ Good(saved)
  /\ call.serving /\ OneDriver(net) => HalfWay /\ Exactly
  /\ LimitMet /\ NoSlack

-----------------------------------------------------------------------------
(* Shapes.                                                                 *)

LEMMA BoundsFacts ==
  /\ NPins \in Nat /\ NNets \in Nat /\ MaxLimit \in Nat /\ MaxBuffers \in Nat
  /\ Inputs \subseteq DesignNets /\ Ports \subseteq DesignNets /\ Takers \subseteq DesignNets
  /\ \A W \in Buses : W \subseteq DesignNets
BY FanoutAssumption

LEMMA IdleFacts == Idle.serving = FALSE /\ Idle # NoReply /\ NoReply.kind = "none"
BY DEF Idle, NoReply

LEMMA NetFacts ==
  ASSUME NEW nl, NetShape(nl)
  PROVE  /\ nl.size \in Nat /\ NNets <= nl.size /\ nl.size <= NNets + Len(nl.out)
         /\ nl.out \in Seq(1..nl.size) /\ Len(nl.out) \in Nat /\ Len(nl.out) <= MaxBuffers
         /\ DOMAIN nl.out = 1..Len(nl.out) /\ \A b \in 1..Len(nl.out) : nl.out[b] \in 1..nl.size
         /\ nl.on \in [1..NPins + Len(nl.out) -> 1..nl.size]
         /\ nl.named \in [CtrlNames -> 0..nl.size]
         /\ nl.root \in [1..nl.size -> DesignNets]
BY DEF NetShape

LEMMA ServingFacts ==
  ASSUME Shapes
  PROVE  (call.serving = TRUE /\ call # Idle) \/ (call.serving = FALSE /\ call = Idle)
<1>1. CASE call = Idle
  BY <1>1, IdleFacts
<1>2. CASE call # Idle
  <2>1. call \in Calls(net)
    BY <1>2 DEF Shapes, CallShape
  <2>2. call.serving = TRUE
    BY <2>1 DEF Calls
  <2> QED
    BY <1>2, <2>2
<1> QED
  BY <1>1, <1>2

LEMMA CallFacts ==
  ASSUME Shapes, call.serving
  PROVE  /\ call.wanted \in SUBSET (1..net.size) /\ call.limit \in Nat
         /\ call.ctrl \in BOOLEAN /\ call.targets \in SUBSET (1..net.size)
         /\ DOMAIN call.todo \in SUBSET (1..net.size)
         /\ \A n \in DOMAIN call.todo : call.todo[n] \in SUBSET DOMAIN net.on
         /\ call.todo = [n \in DOMAIN call.todo |-> call.todo[n]]
         /\ call.source \in 0..net.size /\ call.rest \in SUBSET DOMAIN net.on
         /\ call.made \in SUBSET (1..net.size) /\ call.counter \in 0..Len(net.out)
         /\ call.rest # {} => call.source # 0
         /\ call.limit < 2 => DOMAIN call.todo = {} /\ call.rest = {}
<1>1. call # Idle
  BY IdleFacts
<1>2. PICK T \in SUBSET (1..net.size) : call.todo \in [T -> SUBSET DOMAIN net.on]
  BY <1>1 DEF Shapes, CallShape, Calls
<1>3. /\ DOMAIN call.todo \in SUBSET (1..net.size)
      /\ \A n \in DOMAIN call.todo : call.todo[n] \in SUBSET DOMAIN net.on
      /\ call.todo = [n \in DOMAIN call.todo |-> call.todo[n]]
  BY <1>2
<1>4. /\ call.wanted \in SUBSET (1..net.size) /\ call.limit \in Nat
      /\ call.ctrl \in BOOLEAN /\ call.targets \in SUBSET (1..net.size)
      /\ call.source \in 0..net.size /\ call.rest \in SUBSET DOMAIN net.on
      /\ call.made \in SUBSET (1..net.size) /\ call.counter \in 0..Len(net.out)
      /\ call.rest # {} => call.source # 0
      /\ call.limit < 2 => DOMAIN call.todo = {} /\ call.rest = {}
  BY <1>1 DEF Shapes, CallShape, Calls
<1> QED
  BY <1>3, <1>4

LEMMA InitShapes == Init => Shapes
<1> SUFFICES ASSUME Init PROVE Shapes
  OBVIOUS
<1>1. home \in [1..NPins -> 1..NNets]
  BY FanoutAssumption DEF Init, Pins, DesignNets
<1>2. /\ net.on = home /\ net.out = <<>> /\ net.size = NNets
      /\ net.named = [k \in CtrlNames |-> 0] /\ net.root = [n \in 1..NNets |-> n]
      /\ net = [on |-> home, out |-> <<>>, size |-> NNets,
                named |-> [k \in CtrlNames |-> 0], root |-> [n \in 1..NNets |-> n]]
  BY DEF Init, DesignNets
<1>3. Len(net.out) = 0 /\ net.out \in Seq(1..net.size)
  BY <1>2
<1>4. net.named \in [CtrlNames -> 0..net.size]
  BY <1>2, BoundsFacts
<1>5. NetShape(net)
  BY <1>1, <1>2, <1>3, <1>4, BoundsFacts DEF NetShape, DesignNets
<1>6. CallShape
  BY DEF Init, CallShape
<1> QED
  BY <1>1, <1>5, <1>6, IdleFacts DEF Shapes, Init, Pins, DesignNets

(* NetFor names a net there is, or the next one.                           *)
LEMMA NetForFacts ==
  ASSUME Shapes, call.serving, Len(net.out) + 1 <= MaxBuffers
  PROVE  /\ NetFor(call.ctrl, call.counter) \in 1..net.size + 1
         /\ NetFor(call.ctrl, call.counter) # net.size + 1 =>
              /\ call.ctrl /\ call.counter \in CtrlNames
              /\ net.named[call.counter] = NetFor(call.ctrl, call.counter)
<1>1. call.counter \in 0..Len(net.out)
  BY CallFacts
<1>2. /\ net.named \in [CtrlNames -> 0..net.size] /\ net.size \in Nat
      /\ Len(net.out) \in Nat
  BY NetFacts DEF Shapes
<1>3. call.counter \in CtrlNames
  BY <1>1, <1>2, BoundsFacts DEF CtrlNames
<1> QED
  BY <1>2, <1>3 DEF NetFor

(* The commands ask for nets there are.                                    *)
LEMMA RoleNetsFacts ==
  ASSUME Shapes, NEW roles
  PROVE  RoleNets(roles) \in SUBSET (1..net.size)
<1>1. ClockPins \cup ResetPins \subseteq DOMAIN net.on
  <2>1. net.on \in [1..NPins + Len(net.out) -> 1..net.size] /\ Len(net.out) \in Nat
    BY NetFacts DEF Shapes
  <2>2. ClockPins \cup ResetPins \subseteq 1..NPins
    BY FanoutAssumption DEF Pins
  <2> QED
    BY <2>1, <2>2, BoundsFacts
<1>2. \A p \in DOMAIN net.on : net.on[p] \in 1..net.size
  BY NetFacts DEF Shapes
<1> QED
  BY <1>1, <1>2 DEF RoleNets

LEMMA DesignNetsThere ==
  ASSUME Shapes
  PROVE  DesignNets \in SUBSET (1..net.size)
<1>1. net.size \in Nat /\ NNets <= net.size
  BY NetFacts DEF Shapes
<1> QED
  BY <1>1, BoundsFacts DEF DesignNets

LEMMA BeginShapes ==
  ASSUME Shapes, NEW W \in SUBSET (1..net.size), NEW limit \in Nat, NEW ctrl \in BOOLEAN,
         Begin(W, limit, ctrl)
  PROVE  Shapes'
<1> DEFINE targets == IF limit >= 2 THEN Overloaded(W, limit) ELSE {}
           todo    == [n \in targets |-> Sinks(net, n)]
<1>1. /\ call' = [serving |-> TRUE, wanted |-> W, limit |-> limit, ctrl |-> ctrl,
                  targets |-> targets, todo |-> todo, source |-> 0, rest |-> {}, made |-> {},
                  counter |-> 0]
      /\ reply' = NoReply /\ UNCHANGED <<net, home, saved>> /\ ~call.serving
  BY DEF Begin
<1>2. targets \in SUBSET (1..net.size)
  BY DEF Overloaded
<1>3. todo \in [targets -> SUBSET DOMAIN net.on]
  BY DEF Sinks
<1>4. net.size \in Nat /\ Len(net.out) \in Nat
  BY NetFacts DEF Shapes
<1>5. limit < 2 => targets = {}
  OBVIOUS
<1> HIDE DEF targets, todo
<1>6. call'.serving = TRUE /\ call'.rest = {} /\ DOMAIN call'.todo = targets /\ call'.limit = limit
  BY <1>1, <1>3
<1>7. call' \in Calls(net)
  <2>1. todo \in UNION {[T -> SUBSET DOMAIN net.on] : T \in SUBSET (1..net.size)}
    BY <1>2, <1>3
  <2>2. 0 \in 0..net.size /\ 0 \in 0..Len(net.out)
    BY <1>4
  <2> QED
    BY <1>1, <1>2, <2>1, <2>2 DEF Calls
<1>8. CallShape'
  BY <1>1, <1>5, <1>6, <1>7 DEF CallShape
<1> QED
  BY <1>1, <1>6, <1>8, IdleFacts DEF Shapes, NetShape

LEMMA StartTargetEffect ==
  ASSUME Shapes, NEW n, StartTarget(n)
  PROVE  /\ call.serving /\ call.rest = {} /\ n \in DOMAIN call.todo
         /\ UNCHANGED <<net, home, saved, reply>>
         /\ call.limit >= 2
         /\ call'.serving = TRUE /\ call' # Idle
         /\ call'.wanted = call.wanted /\ call'.limit = call.limit /\ call'.made = call.made
         /\ call'.source = n
         /\ DOMAIN call'.todo = DOMAIN call.todo \ {n}
         /\ \A m \in DOMAIN call'.todo : call'.todo[m] = call.todo[m]
         /\ \E stay \in First(call.todo[n], Kept(call.limit, n)) :
              call'.rest = call.todo[n] \ stay
         /\ CallShape'
<1> USE DEF StartTarget
<1>1. PICK stay \in First(call.todo[n], Kept(call.limit, n)) :
        call' = [call EXCEPT !.rest = call.todo[n] \ stay, !.source = n,
                             !.todo = [m \in DOMAIN call.todo \ {n} |-> call.todo[m]]]
  OBVIOUS
<1>2. /\ call.serving /\ call.rest = {} /\ n \in DOMAIN call.todo
      /\ UNCHANGED <<net, home, saved, reply>> /\ call # Idle
  BY IdleFacts
<1>3. call.limit >= 2
  BY <1>2, CallFacts
<1> DEFINE todo == [m \in DOMAIN call.todo \ {n} |-> call.todo[m]]
<1>4. call \in Calls(net)
  BY <1>2 DEF Shapes, CallShape
<1>5. /\ DOMAIN call.todo \in SUBSET (1..net.size) /\ call.todo[n] \in SUBSET DOMAIN net.on
      /\ todo \in [DOMAIN call.todo \ {n} -> SUBSET DOMAIN net.on]
  BY <1>2, CallFacts
<1>6. todo \in UNION {[T -> SUBSET DOMAIN net.on] : T \in SUBSET (1..net.size)}
  BY <1>5
<1>7. n \in 0..net.size /\ n # 0 /\ call.todo[n] \ stay \in SUBSET DOMAIN net.on
  BY <1>2, <1>5
<1> HIDE DEF todo
<1>8. call' \in Calls(net)
  BY <1>1, <1>4, <1>6, <1>7 DEF todo, Calls
<1>9. /\ call'.serving = TRUE /\ call'.wanted = call.wanted /\ call'.limit = call.limit
      /\ call'.made = call.made /\ call'.source = n /\ call'.todo = todo
      /\ call'.rest = call.todo[n] \ stay
  BY <1>1, <1>4 DEF todo, Calls
<1>10. CallShape'
  <2>1. call'.source # 0 /\ ~(call'.limit < 2)
    BY <1>3, <1>7, <1>9, <1>4 DEF Calls
  <2>2. Calls(net)' = Calls(net)
    BY <1>2 DEF Calls
  <2> QED
    BY <1>8, <2>1, <2>2 DEF CallShape
<1>11. /\ DOMAIN call'.todo = DOMAIN call.todo \ {n}
       /\ \A m \in DOMAIN call'.todo : call'.todo[m] = call.todo[m]
  BY <1>9 DEF todo
<1> QED
  BY <1>1, <1>2, <1>3, <1>9, <1>10, <1>11, IdleFacts

(* One buffer, and the sinks it takes over.                                *)
NewBuffer == Len(net.out) + 1
NewNet == NetFor(call.ctrl, call.counter)

Inserts(moved) ==
  /\ moved \in SUBSET call.rest
  /\ net'.on = [p \in DOMAIN net.on \cup {BufferPin(NewBuffer)} |->
                  IF p \in moved THEN NewNet
                  ELSE IF p = BufferPin(NewBuffer) THEN call.source ELSE net.on[p]]
  /\ net'.out = Append(net.out, NewNet)
  /\ net'.size = IF NewNet > net.size THEN NewNet ELSE net.size
  /\ net'.named = IF call.ctrl THEN [net.named EXCEPT ![call.counter] = NewNet] ELSE net.named
  /\ net'.root = [n \in DOMAIN net.root \cup {NewNet} |->
                    IF n = NewNet THEN net.root[call.source] ELSE net.root[n]]
  /\ net' = [on |-> net'.on, out |-> net'.out, size |-> net'.size, named |-> net'.named,
             root |-> net'.root]
  /\ call' = [call EXCEPT !.rest = @ \ moved, !.source = NewNet, !.made = @ \cup {NewNet},
                          !.counter = IF call.ctrl THEN @ + 1 ELSE @]

LEMMA InsertBufferEffect ==
  ASSUME InsertBuffer
  PROVE  /\ call.serving /\ call.rest # {} /\ NewBuffer <= MaxBuffers
         /\ UNCHANGED <<home, saved, reply>>
         /\ \E moved \in First(call.rest, Taken(call.limit, Cardinality(call.rest))) :
              Inserts(moved)
<1>1. /\ call.serving /\ call.rest # {} /\ NewBuffer <= MaxBuffers
      /\ UNCHANGED <<home, saved, reply>>
  BY DEF InsertBuffer, NewBuffer
<1>2. PICK moved \in First(call.rest, Taken(call.limit, Cardinality(call.rest))) :
        /\ net' = [on |-> [p \in DOMAIN net.on \cup {BufferPin(NewBuffer)} |->
                             IF p \in moved THEN NewNet
                             ELSE IF p = BufferPin(NewBuffer) THEN call.source ELSE net.on[p]],
                   out |-> Append(net.out, NewNet),
                   size |-> IF NewNet > net.size THEN NewNet ELSE net.size,
                   named |-> IF call.ctrl THEN [net.named EXCEPT ![call.counter] = NewNet]
                                          ELSE net.named,
                   root |-> [n \in DOMAIN net.root \cup {NewNet} |->
                               IF n = NewNet THEN net.root[call.source] ELSE net.root[n]]]
        /\ call' = [call EXCEPT !.rest = @ \ moved, !.source = NewNet, !.made = @ \cup {NewNet},
                                !.counter = IF call.ctrl THEN @ + 1 ELSE @]
  BY DEF InsertBuffer, NewBuffer, NewNet
<1>3. moved \in SUBSET call.rest
  BY DEF First
<1>4. Inserts(moved)
  BY <1>2, <1>3 DEF Inserts
<1> QED
  BY <1>1, <1>4

(* What an insertion does to the netlist, pin by pin and net by net.       *)
LEMMA InsertedNet ==
  ASSUME Shapes, call.serving, call.rest # {}, NewBuffer <= MaxBuffers, NEW moved, Inserts(moved)
  PROVE  /\ NewBuffer \in Nat /\ NewBuffer \notin DOMAIN net.out
         /\ BufferPin(NewBuffer) \notin DOMAIN net.on
         /\ call.source \in 1..net.size
         /\ NewNet \in 1..net.size + 1
         /\ DOMAIN net'.on = DOMAIN net.on \cup {BufferPin(NewBuffer)}
         /\ \A p \in DOMAIN net.on : net'.on[p] = IF p \in moved THEN NewNet ELSE net.on[p]
         /\ net'.on[BufferPin(NewBuffer)] = call.source
         /\ DOMAIN net'.out = DOMAIN net.out \cup {NewBuffer}
         /\ \A c \in DOMAIN net.out : net'.out[c] = net.out[c]
         /\ net'.out[NewBuffer] = NewNet
         /\ net'.root[NewNet] = net.root[call.source]
         /\ \A n \in 1..net.size : n # NewNet => net'.root[n] = net.root[n]
         /\ NetShape(net)'
<1>1. /\ net.size \in Nat /\ NNets <= net.size /\ net.size <= NNets + Len(net.out)
      /\ net.out \in Seq(1..net.size) /\ Len(net.out) \in Nat
      /\ DOMAIN net.out = 1..Len(net.out) /\ \A b \in 1..Len(net.out) : net.out[b] \in 1..net.size
      /\ net.on \in [1..NPins + Len(net.out) -> 1..net.size]
      /\ net.named \in [CtrlNames -> 0..net.size]
      /\ net.root \in [1..net.size -> DesignNets]
  BY NetFacts DEF Shapes
<1>2. call.source \in 1..net.size
  BY CallFacts, <1>1
<1>3. NewNet \in 1..net.size + 1
  BY NetForFacts DEF NewNet, NewBuffer
<1>4. NewBuffer \in Nat /\ NewBuffer \notin DOMAIN net.out
  BY <1>1 DEF NewBuffer
<1>5. BufferPin(NewBuffer) = NPins + Len(net.out) + 1
  BY <1>1, BoundsFacts DEF BufferPin, NewBuffer
<1>6. BufferPin(NewBuffer) \notin DOMAIN net.on
  BY <1>1, <1>5, BoundsFacts
<1>7. moved \in SUBSET DOMAIN net.on
  BY CallFacts DEF Inserts
<1>8. DOMAIN net'.on = DOMAIN net.on \cup {BufferPin(NewBuffer)}
  BY DEF Inserts
<1>9. \A p \in DOMAIN net.on : net'.on[p] = IF p \in moved THEN NewNet ELSE net.on[p]
  BY <1>6 DEF Inserts
<1>10. net'.on[BufferPin(NewBuffer)] = call.source
  BY <1>6, <1>7 DEF Inserts
<1>11. /\ DOMAIN net'.out = DOMAIN net.out \cup {NewBuffer}
       /\ \A c \in DOMAIN net.out : net'.out[c] = net.out[c]
       /\ net'.out[NewBuffer] = NewNet
       /\ Len(net'.out) = NewBuffer
  <2>1. net'.out = Append(net.out, NewNet)
    BY DEF Inserts
  <2>2. net.out \in Seq(Nat) /\ NewNet \in Nat
    BY <1>1, <1>3
  <2>3. Len(net'.out) = NewBuffer /\ DOMAIN net'.out = 1..NewBuffer
    BY <2>1, <2>2 DEF NewBuffer
  <2>4. 1..NewBuffer = (1..Len(net.out)) \cup {NewBuffer}
    BY <1>1 DEF NewBuffer
  <2>5. net'.out[NewBuffer] = NewNet /\ \A c \in 1..Len(net.out) : net'.out[c] = net.out[c]
    BY <2>1, <2>2 DEF NewBuffer
  <2> QED
    BY <1>1, <2>3, <2>4, <2>5
<1>12. /\ net'.root[NewNet] = net.root[call.source]
       /\ \A n \in 1..net.size : n # NewNet => net'.root[n] = net.root[n]
  BY <1>1 DEF Inserts
<1>13. /\ net'.size \in Nat /\ net.size <= net'.size /\ net'.size <= net.size + 1
       /\ NewNet \in 1..net'.size /\ 1..net'.size = (1..net.size) \cup {NewNet}
  <2>1. net'.size = IF NewNet > net.size THEN NewNet ELSE net.size
    BY DEF Inserts
  <2>2. CASE NewNet = net.size + 1
    BY <1>1, <2>1, <2>2
  <2>3. CASE NewNet \in 1..net.size
    BY <1>1, <2>1, <2>3
  <2> QED
    BY <1>1, <1>3, <2>2, <2>3
<1>14. net'.on \in [1..NPins + Len(net'.out) -> 1..net'.size]
  <2>1. DOMAIN net'.on = 1..NPins + Len(net'.out)
    <3>1. 1..NPins + (Len(net.out) + 1) = (1..NPins + Len(net.out)) \cup {NPins + Len(net.out) + 1}
      <4>1. \A k \in Nat : 1..k + 1 = (1..k) \cup {k + 1}
        OBVIOUS
      <4>2. NPins + Len(net.out) \in Nat /\ NPins + (Len(net.out) + 1) = NPins + Len(net.out) + 1
        BY <1>1, BoundsFacts
      <4> QED
        BY <4>1, <4>2
    <3> QED
      BY <1>1, <1>5, <1>8, <1>11, <3>1 DEF NewBuffer
  <2>2. \A p \in DOMAIN net.on : net'.on[p] \in 1..net'.size
    BY <1>1, <1>9, <1>13
  <2>3. net'.on[BufferPin(NewBuffer)] \in 1..net'.size
    BY <1>2, <1>10, <1>13
  <2>4. net'.on = [p \in DOMAIN net'.on |-> net'.on[p]]
    BY DEF Inserts
  <2> QED
    BY <1>8, <2>1, <2>2, <2>3, <2>4
<1>15. net'.out \in Seq(1..net'.size)
  <2>1. net.out \in Seq(1..net'.size)
    BY <1>1, <1>13
  <2> QED
    BY <1>13, <2>1 DEF Inserts
<1>16. net'.named \in [CtrlNames -> 0..net'.size]
  <2>1. net.named \in [CtrlNames -> 0..net'.size]
    BY <1>1, <1>13
  <2>2. CASE call.ctrl
    <3>1. net'.named = [net.named EXCEPT ![call.counter] = NewNet]
      BY <2>2 DEF Inserts
    <3>2. NewNet \in 0..net'.size
      BY <1>13
    <3> HIDE DEF Inserts
    <3> QED
      BY <2>1, <3>1, <3>2
  <2>3. CASE ~call.ctrl
    BY <2>1, <2>3 DEF Inserts
  <2> QED
    BY <2>2, <2>3
<1>17. net'.root \in [1..net'.size -> DesignNets]
  <2>1. DOMAIN net'.root = 1..net'.size
    BY <1>1, <1>13 DEF Inserts
  <2>2. \A n \in 1..net'.size : net'.root[n] \in DesignNets
    <3>1. 1..net'.size = (1..net.size) \cup {NewNet}
      BY <1>13
    <3>2. \A n \in 1..net.size : net.root[n] \in DesignNets
      BY <1>1
    <3>3. net'.root[NewNet] \in DesignNets
      BY <1>2, <1>12, <3>2
    <3> QED
      BY <1>12, <3>1, <3>2, <3>3
  <2>3. net'.root = [n \in DOMAIN net'.root |-> net'.root[n]]
    BY DEF Inserts
  <2> QED
    BY <2>1, <2>2, <2>3
<1>18. NetShape(net)'
  <2>1. NNets <= net'.size /\ net'.size <= NNets + Len(net'.out) /\ Len(net'.out) <= MaxBuffers
    BY <1>1, <1>11, <1>13, BoundsFacts DEF NewBuffer
  <2>2. net' = [on |-> net'.on, out |-> net'.out, size |-> net'.size, named |-> net'.named,
                root |-> net'.root]
    BY DEF Inserts
  <2>3. net'.size \in Nat
    BY <1>13
  <2>4. net' \in [on : [1..NPins + Len(net'.out) -> 1..net'.size], out : Seq(1..net'.size),
                  size : Nat, named : [CtrlNames -> 0..net'.size],
                  root : [1..net'.size -> DesignNets]]
    BY <1>14, <1>15, <1>16, <1>17, <2>2, <2>3
  <2> QED
    BY <2>1, <2>4 DEF NetShape
<1> QED
  BY <1>2, <1>3, <1>4, <1>6, <1>8, <1>9, <1>10, <1>11, <1>12, <1>18

LEMMA InsertedCall ==
  ASSUME Shapes, call.serving, call.rest # {}, NewBuffer <= MaxBuffers, NEW moved, Inserts(moved)
  PROVE  /\ call'.serving = TRUE /\ call'.rest = call.rest \ moved /\ call'.source = NewNet
         /\ call'.made = call.made \cup {NewNet} /\ call'.todo = call.todo
         /\ call'.wanted = call.wanted /\ call'.limit = call.limit
         /\ call.limit >= 2
         /\ CallShape'
<1>1. call # Idle
  BY IdleFacts
<1>2. call \in Calls(net)
  BY <1>1 DEF Shapes, CallShape
<1>3. /\ call.limit \in Nat /\ call.rest \in SUBSET DOMAIN net.on
      /\ call.counter \in 0..Len(net.out) /\ call.made \in SUBSET (1..net.size)
      /\ call.limit < 2 => DOMAIN call.todo = {} /\ call.rest = {}
  BY CallFacts
<1>4. call.limit >= 2
  BY <1>3
<1>5. /\ DOMAIN net'.on = DOMAIN net.on \cup {BufferPin(NewBuffer)}
      /\ NewNet \in 1..net.size + 1
      /\ net'.size = (IF NewNet > net.size THEN NewNet ELSE net.size)
      /\ net'.out = Append(net.out, NewNet) /\ net.out \in Seq(1..net.size)
      /\ net.size \in Nat /\ Len(net.out) \in Nat
  BY InsertedNet, NetFacts DEF Inserts, Shapes
<1>6. Len(net'.out) = Len(net.out) + 1
  BY <1>5
<1>7. /\ 1..net.size \subseteq 1..net'.size /\ 0..net.size \subseteq 0..net'.size
      /\ NewNet \in 1..net'.size /\ NewNet # 0
  BY <1>5
<1>8. call' = [call EXCEPT !.rest = call.rest \ moved, !.source = NewNet,
                           !.made = call.made \cup {NewNet},
                           !.counter = IF call.ctrl THEN call.counter + 1 ELSE call.counter]
  BY DEF Inserts
<1>9. /\ call'.serving = TRUE /\ call'.rest = call.rest \ moved /\ call'.source = NewNet
      /\ call'.made = call.made \cup {NewNet} /\ call'.todo = call.todo
      /\ call'.wanted = call.wanted /\ call'.limit = call.limit
      /\ call'.ctrl = call.ctrl /\ call'.targets = call.targets
      /\ call'.counter = (IF call.ctrl THEN call.counter + 1 ELSE call.counter)
  BY <1>2, <1>8 DEF Calls
<1>10. call' \in Calls(net)'
  <2>1. PICK T \in SUBSET (1..net.size) : call.todo \in [T -> SUBSET DOMAIN net.on]
    BY <1>2 DEF Calls
  <2>2. T \in SUBSET (1..net'.size) /\ call.todo \in [T -> SUBSET DOMAIN net'.on]
    BY <1>5, <1>7, <2>1
  <2>3. call.todo \in UNION {[U -> SUBSET DOMAIN net'.on] : U \in SUBSET (1..net'.size)}
    BY <2>2
  <2>4. call'.counter \in 0..Len(net'.out)
    BY <1>3, <1>5, <1>6, <1>9
  <2>5. call'.rest \in SUBSET DOMAIN net'.on /\ call'.made \in SUBSET (1..net'.size)
        /\ call'.source \in 0..net'.size
    BY <1>3, <1>5, <1>7, <1>9
  <2>6. call.wanted \in SUBSET (1..net'.size) /\ call.targets \in SUBSET (1..net'.size)
        /\ call.ctrl \in BOOLEAN
    BY <1>7, CallFacts
  <2>7. call' = [serving |-> TRUE, wanted |-> call.wanted, limit |-> call.limit,
                 ctrl |-> call.ctrl, targets |-> call.targets, todo |-> call.todo,
                 source |-> call'.source, rest |-> call'.rest, made |-> call'.made,
                 counter |-> call'.counter]
    BY <1>2, <1>8 DEF Calls
  <2> DEFINE N == SUBSET (1..net'.size)
             P == SUBSET DOMAIN net'.on
             D == UNION {[U -> SUBSET DOMAIN net'.on] : U \in SUBSET (1..net'.size)}
             S == 0..net'.size
             C == 0..Len(net'.out)
  <2>8. /\ call.wanted \in N /\ call.targets \in N /\ call'.made \in N /\ call.todo \in D
        /\ call'.source \in S /\ call'.rest \in P /\ call'.counter \in C
        /\ call.limit \in Nat /\ call.ctrl \in BOOLEAN
    BY <1>3, <2>3, <2>4, <2>5, <2>6
  <2> HIDE DEF N, P, D, S, C
  <2>9. \A w, t, m \in N, l \in Nat, c \in BOOLEAN, d \in D, s \in S, r \in P, k \in C :
          [serving |-> TRUE, wanted |-> w, limit |-> l, ctrl |-> c, targets |-> t, todo |-> d,
           source |-> s, rest |-> r, made |-> m, counter |-> k]
             \in [serving : {TRUE}, wanted : N, limit : Nat, ctrl : BOOLEAN, targets : N,
                  todo : D, source : S, rest : P, made : N, counter : C]
    OBVIOUS
  <2>10. call' \in [serving : {TRUE}, wanted : N, limit : Nat, ctrl : BOOLEAN, targets : N,
                    todo : D, source : S, rest : P, made : N, counter : C]
    <3>1. [serving |-> TRUE, wanted |-> call.wanted, limit |-> call.limit,
           ctrl |-> call.ctrl, targets |-> call.targets, todo |-> call.todo,
           source |-> call'.source, rest |-> call'.rest, made |-> call'.made,
           counter |-> call'.counter]
             \in [serving : {TRUE}, wanted : N, limit : Nat, ctrl : BOOLEAN, targets : N,
                  todo : D, source : S, rest : P, made : N, counter : C]
      BY <2>8, <2>9, Zenon
    <3> QED
      BY <2>7, <3>1, Zenon
  <2> QED
    BY <2>10 DEF Calls, N, P, D, S, C
<1>11. CallShape'
  BY <1>4, <1>7, <1>9, <1>10, <1>3 DEF CallShape
<1> QED
  BY <1>4, <1>9, <1>11

LEMMA InsertBufferShapes ==
  ASSUME Shapes, InsertBuffer
  PROVE  Shapes'
<1>1. /\ call.serving /\ call.rest # {} /\ NewBuffer <= MaxBuffers
      /\ UNCHANGED <<home, saved, reply>>
  BY InsertBufferEffect
<1>2. PICK moved : Inserts(moved)
  BY InsertBufferEffect
<1>3. NetShape(net)'
  BY <1>1, <1>2, InsertedNet
<1>4. CallShape' /\ call'.serving = TRUE
  BY <1>1, <1>2, InsertedCall
<1> QED
  BY <1>1, <1>3, <1>4 DEF Shapes, NetShape

LEMMA StartTargetShapes ==
  ASSUME Shapes, NEW n, StartTarget(n)
  PROVE  Shapes'
<1>1. /\ call.serving /\ UNCHANGED <<net, home, saved, reply>> /\ call'.serving = TRUE
      /\ CallShape'
  BY StartTargetEffect
<1> QED
  BY <1>1 DEF Shapes, NetShape

LEMMA FinishShapes ==
  ASSUME Shapes, Finish
  PROVE  Shapes'
<1>1. /\ net' = saved \/ net' = net
      /\ saved' = net' /\ call' = Idle /\ home' = home
  BY DEF Finish
<1>2. reply'.kind \in {"none", "done", "rolled back"}
  BY DEF Finish
<1>3. NetShape(net)' /\ NetShape(saved)'
  BY <1>1 DEF Shapes, NetShape
<1> QED
  BY <1>1, <1>2, <1>3, IdleFacts DEF Shapes, CallShape

(* The two renamings only touch the name table.                            *)
Renames ==
  /\ ~call.serving /\ UNCHANGED <<home, call>> /\ reply' = NoReply /\ saved' = net'
  /\ net'.on = net.on /\ net'.out = net.out /\ net'.size = net.size /\ net'.root = net.root
  /\ \A k \in CtrlNames : net'.named[k] \in {0, net.named[k]} \cup Takers
  /\ NetShape(net)'

LEMMA RenameEffect ==
  ASSUME Shapes, NEW k \in CtrlNames,
         RenameAway(k) \/ \E n \in Takers : RenameOnto(n, k)
  PROVE  Renames
<1>1. net \in [on : [1..NPins + Len(net.out) -> 1..net.size], out : Seq(1..net.size), size : Nat,
               named : [CtrlNames -> 0..net.size], root : [1..net.size -> DesignNets]]
  BY DEF Shapes, NetShape
<1>2. CASE RenameAway(k)
  <2>1. /\ ~call.serving /\ net' = [net EXCEPT !.named = [net.named EXCEPT ![k] = 0]]
        /\ reply' = NoReply /\ saved' = net' /\ UNCHANGED <<home, call>>
    BY <1>2 DEF RenameAway
  <2>2. [net.named EXCEPT ![k] = 0] \in [CtrlNames -> 0..net.size]
    BY <1>1
  <2>3. /\ net'.on = net.on /\ net'.out = net.out /\ net'.size = net.size /\ net'.root = net.root
        /\ net'.named = [net.named EXCEPT ![k] = 0]
    BY <1>1, <2>1
  <2>4. NetShape(net)'
    <3>1. net' \in [on : [1..NPins + Len(net.out) -> 1..net.size], out : Seq(1..net.size), size : Nat,
                    named : [CtrlNames -> 0..net.size], root : [1..net.size -> DesignNets]]
      BY <1>1, <2>1, <2>2
    <3> QED
      BY <2>3, <3>1 DEF Shapes, NetShape
  <2>5. \A j \in CtrlNames : net'.named[j] \in {0, net.named[j]} \cup Takers
    BY <1>1, <2>3
  <2> QED
    BY <2>1, <2>3, <2>4, <2>5 DEF Renames
<1>3. ASSUME NEW n \in Takers, RenameOnto(n, k) PROVE Renames
  <2> DEFINE named == [j \in CtrlNames |-> IF j = k THEN n
                                           ELSE IF net.named[j] = n THEN 0 ELSE net.named[j]]
  <2>1. /\ ~call.serving /\ net' = [net EXCEPT !.named = named]
        /\ reply' = NoReply /\ saved' = net' /\ UNCHANGED <<home, call>>
    BY <1>3 DEF RenameOnto
  <2>2. n \in 0..net.size
    BY DesignNetsThere, FanoutAssumption
  <2>3. \A j \in CtrlNames : net.named[j] \in 0..net.size
    BY <1>1
  <2>4. 0 \in 0..net.size
    BY <1>1
  <2>5. named \in [CtrlNames -> 0..net.size]
    BY <2>2, <2>3, <2>4
  <2>6. \A j \in CtrlNames : named[j] \in {0, net.named[j]} \cup Takers
    OBVIOUS
  <2> HIDE DEF named
  <2>7. /\ net'.on = net.on /\ net'.out = net.out /\ net'.size = net.size /\ net'.root = net.root
        /\ net'.named = named
    BY <1>1, <2>1
  <2>8. NetShape(net)'
    <3>1. net' \in [on : [1..NPins + Len(net.out) -> 1..net.size], out : Seq(1..net.size), size : Nat,
                    named : [CtrlNames -> 0..net.size], root : [1..net.size -> DesignNets]]
      BY <1>1, <2>1, <2>5
    <3> QED
      BY <2>7, <3>1 DEF Shapes, NetShape
  <2> QED
    BY <2>1, <2>6, <2>7, <2>8 DEF Renames
<1> QED
  BY <1>2, <1>3

LEMMA RenamesShapes ==
  ASSUME Shapes, Renames
  PROVE  Shapes'
<1>1. call = Idle
  BY ServingFacts DEF Renames
<1>2. /\ UNCHANGED <<home, call>> /\ reply' = NoReply /\ saved' = net' /\ NetShape(net)'
  BY DEF Renames
<1>3. NetShape(saved)'
  BY <1>2 DEF NetShape
<1> QED
  BY <1>1, <1>2, <1>3, IdleFacts DEF Shapes, CallShape

(* A command that is accepted asks for a set of nets there are.             *)
Begins ==
  \E W \in SUBSET (1..net.size), limit \in Nat : Begin(W, limit, TRUE) \/ Begin(W, limit, FALSE)

LEMMA StepCases ==
  ASSUME Shapes, Next
  PROVE  \/ Begins
         \/ \E n \in 1..net.size : StartTarget(n)
         \/ InsertBuffer
         \/ Finish
         \/ Renames
<1>1. 1..net.size \in SUBSET (1..net.size)
  OBVIOUS
<1>2. ASSUME NEW limit \in 0..MaxLimit, InsertBuffersForFanout(limit)
      PROVE  Begins
  <2>1. Begin(1..net.size, limit, FALSE)
    BY <1>2, Zenon DEF InsertBuffersForFanout
  <2>0. limit \in Nat
    BY BoundsFacts
  <2> QED
    BY <1>1, <2>0, <2>1 DEF Begins
<1>3. ASSUME NEW limit \in 0..MaxLimit, NEW W \in Buses \cup {{n} : n \in 1..net.size},
             InsertBuffersForSpecificNet(W, limit)
      PROVE  Begins
  <2>1. Begin(W, limit, FALSE)
    BY <1>3, Zenon DEF InsertBuffersForSpecificNet
  <2>0. limit \in Nat
    BY BoundsFacts
  <2>2. W \in SUBSET (1..net.size)
    BY DesignNetsThere, FanoutAssumption
  <2> QED
    BY <2>0, <2>1, <2>2 DEF Begins
<1>4. ASSUME NEW limit \in 0..MaxLimit, NEW roles, InsertBuffersForDffControl(roles, limit)
      PROVE  Begins
  <2>1. Begin(RoleNets(roles), limit, TRUE)
    BY <1>4, Zenon DEF InsertBuffersForDffControl
  <2>0. limit \in Nat
    BY BoundsFacts
  <2>2. RoleNets(roles) \in SUBSET (1..net.size)
    BY RoleNetsFacts
  <2> QED
    BY <2>0, <2>1, <2>2 DEF Begins
<1>5. ASSUME NEW k \in CtrlNames, RenameAway(k) \/ \E n \in Takers : RenameOnto(n, k)
      PROVE  Renames
  BY <1>5, RenameEffect
<1>6. \/ \E limit \in 0..MaxLimit :
           \/ InsertBuffersForFanout(limit)
           \/ \E W \in Buses \cup {{n} : n \in 1..net.size} :
                InsertBuffersForSpecificNet(W, limit)
           \/ \E roles \in SUBSET Roles : InsertBuffersForDffControl(roles, limit)
      \/ InsertBuffer \/ Finish \/ \E n \in 1..net.size : StartTarget(n)
      \/ \E k \in CtrlNames : RenameAway(k) \/ \E n \in Takers : RenameOnto(n, k)
  BY Zenon DEF Next, Serve
<1> QED
  BY <1>2, <1>3, <1>4, <1>5, <1>6, Zenon

LEMMA BeginsShapes ==
  ASSUME Shapes, Begins
  PROVE  Shapes'
<1>1. PICK W \in SUBSET (1..net.size), limit \in Nat :
        Begin(W, limit, TRUE) \/ Begin(W, limit, FALSE)
  BY DEF Begins
<1> QED
  BY <1>1, BeginShapes

LEMMA ShapesStep == Shapes /\ [Next]_vars => Shapes'
<1> SUFFICES ASSUME Shapes, [Next]_vars PROVE Shapes'
  OBVIOUS
<1>1. CASE UNCHANGED vars
  <2>1. UNCHANGED <<net, home, call, saved, reply>>
    BY <1>1 DEF vars
  <2>2. NetShape(net)' = NetShape(net) /\ NetShape(saved)' = NetShape(saved)
    BY <2>1 DEF NetShape
  <2>3. CallShape' = CallShape
    BY <2>1 DEF CallShape, Calls
  <2> QED
    BY <2>1, <2>2, <2>3 DEF Shapes
<1>2. CASE Next
  BY <1>2, StepCases, BeginsShapes, StartTargetShapes, InsertBufferShapes, FinishShapes,
     RenamesShapes
<1> QED
  BY <1>1, <1>2

THEOREM ShapesAlways == Spec => []Shapes
<1>1. Init => Shapes
  BY InitShapes
<1>2. Shapes /\ [Next]_vars => Shapes'
  BY ShapesStep
<1> QED
  BY <1>1, <1>2, PTL DEF Spec

LEMMA ShapesType == Shapes => TypeOK
<1> SUFFICES ASSUME Shapes PROVE TypeOK
  OBVIOUS
<1>1. ASSUME NEW nl, NetShape(nl) PROVE WellFormed(nl)
  <2>1. /\ nl.size \in Nat /\ Len(nl.out) \in Nat /\ DOMAIN nl.out = 1..Len(nl.out)
        /\ \A b \in 1..Len(nl.out) : nl.out[b] \in 1..nl.size
        /\ nl.on \in [1..NPins + Len(nl.out) -> 1..nl.size]
        /\ nl.named \in [CtrlNames -> 0..nl.size]
        /\ nl.root \in [1..nl.size -> DesignNets]
    BY <1>1, NetFacts
  <2> QED
    BY <2>1 DEF WellFormed
<1>2. net.size \in NNets..NNets + MaxBuffers /\ Len(net.out) <= MaxBuffers
  <2>1. /\ net.size \in Nat /\ NNets <= net.size /\ net.size <= NNets + Len(net.out)
        /\ Len(net.out) \in Nat /\ Len(net.out) <= MaxBuffers
    BY NetFacts DEF Shapes
  <2> QED
    BY <2>1, BoundsFacts
<1>3. call.serving => /\ call.source \in 0..net.size
                      /\ call.rest \subseteq DOMAIN net.on
                      /\ call.made \subseteq 1..net.size
  BY CallFacts
<1> QED
  BY <1>1, <1>2, <1>3 DEF Shapes, TypeOK

(* The types, and that the netlist is well formed at every step: a         *)
(* rollback leaves no name, pin or gate on a net it took away.             *)
THEOREM Typed == Spec => []TypeOK
BY ShapesAlways, ShapesType, PTL

-----------------------------------------------------------------------------
(* Drivers: what the validation counts, and where a name leads.            *)

LEMMA DriversCounted ==
  ASSUME NEW nl, NetShape(nl)
  PROVE  NotDrivers(nl) \in Nat /\ (NotDrivers(nl) = 0 <=> OneDriver(nl))
<1> DEFINE A == {b \in DOMAIN nl.out : \E c \in DOMAIN nl.out : c > b /\ nl.out[c] = nl.out[b]}
           D == {n \in DesignNets \ Inputs : \E b \in DOMAIN nl.out : nl.out[b] = n}
<1>1. DOMAIN nl.out = 1..Len(nl.out) /\ Len(nl.out) \in Nat
  BY NetFacts
<1>2. IsFiniteSet(DOMAIN nl.out) /\ IsFiniteSet(DesignNets)
  BY <1>1, BoundsFacts, FS_Interval DEF DesignNets
<1>3. A \subseteq DOMAIN nl.out /\ D \subseteq DesignNets
  OBVIOUS
<1>4. IsFiniteSet(A) /\ IsFiniteSet(D)
  BY <1>2, <1>3, FS_Subset
<1>5. Cardinality(A) \in Nat /\ Cardinality(D) \in Nat
  BY <1>4, FS_CardinalityType
<1>6. (Cardinality(A) = 0 <=> A = {}) /\ (Cardinality(D) = 0 <=> D = {})
  BY <1>4, FS_EmptySet
<1>7. A = {} <=> \A b, c \in DOMAIN nl.out : b # c => nl.out[b] # nl.out[c]
  <2>1. \A b, c \in DOMAIN nl.out : b # c => b > c \/ c > b
    BY <1>1
  <2> QED
    BY <1>1, <2>1
<1>8. D = {} <=> \A b \in DOMAIN nl.out : nl.out[b] \notin DesignNets \ Inputs
  OBVIOUS
<1>9. NotDrivers(nl) = Cardinality(A) + Cardinality(D)
  BY DEF NotDrivers
<1> HIDE DEF A, D
<1> QED
  BY <1>5, <1>6, <1>7, <1>8, <1>9 DEF OneDriver

(* The rollback is taken exactly when a net has got a second driver.       *)
LEMMA RegressesIff ==
  ASSUME Shapes, OneDriver(saved)
  PROVE  Regresses <=> ~OneDriver(net)
<1>1. NotDrivers(saved) = 0
  BY DriversCounted DEF Shapes
<1>2. NotDrivers(net) \in Nat /\ (NotDrivers(net) = 0 <=> OneDriver(net))
  BY DriversCounted DEF Shapes
<1> QED
  BY <1>1, <1>2 DEF Regresses

(* A net with one driver after the insertion is a new net: a name that was *)
(* taken leads to a net the design drives, or to one a buffer drives.      *)
LEMMA NewNetIsNew ==
  ASSUME Takers \cap Inputs = {}, Shapes, NamesAccounted(net), call.serving, call.rest # {},
         NewBuffer <= MaxBuffers, NEW moved, Inserts(moved), OneDriver(net)'
  PROVE  NewNet = net.size + 1 /\ OneDriver(net)
<1>1. /\ DOMAIN net'.out = DOMAIN net.out \cup {NewBuffer} /\ NewBuffer \notin DOMAIN net.out
      /\ \A c \in DOMAIN net.out : net'.out[c] = net.out[c]
      /\ net'.out[NewBuffer] = NewNet
  BY InsertedNet
<1>2. /\ \A b, c \in DOMAIN net'.out : b # c => net'.out[b] # net'.out[c]
      /\ \A b \in DOMAIN net'.out : net'.out[b] \notin DesignNets \ Inputs
  BY DEF OneDriver
<1>3. OneDriver(net)
  BY <1>1, <1>2 DEF OneDriver
<1>4. ASSUME NewNet # net.size + 1 PROVE FALSE
  <2>1. call.counter \in CtrlNames /\ net.named[call.counter] = NewNet /\ NewNet \in 1..net.size + 1
    BY <1>4, NetForFacts DEF NewNet, NewBuffer
  <2>2. NewNet # 0
    <3>1. net.size \in Nat
      BY NetFacts DEF Shapes
    <3> QED
      BY <2>1, <3>1
  <2>3. NewNet \in Takers \/ \E c \in DOMAIN net.out : net.out[c] = NewNet
    BY <2>1, <2>2 DEF NamesAccounted
  <2>4. NewNet \notin Takers
    <3>1. NewNet \notin DesignNets \ Inputs
      BY <1>1, <1>2
    <3>2. Takers \subseteq DesignNets \ Inputs
      BY BoundsFacts
    <3> QED
      BY <3>1, <3>2
  <2>5. \A c \in DOMAIN net.out : net.out[c] # NewNet
    BY <1>1, <1>2
  <2> QED
    BY <2>3, <2>4, <2>5
<1> QED
  BY <1>3, <1>4

LEMMA NamesInsert ==
  ASSUME Shapes, NamesAccounted(net), call.serving, call.rest # {}, NewBuffer <= MaxBuffers,
         NEW moved, Inserts(moved)
  PROVE  NamesAccounted(net)'
<1>1. /\ DOMAIN net'.out = DOMAIN net.out \cup {NewBuffer}
      /\ \A c \in DOMAIN net.out : net'.out[c] = net.out[c]
      /\ net'.out[NewBuffer] = NewNet
  BY InsertedNet
<1>2. net.named \in [CtrlNames -> 0..net.size]
  BY NetFacts DEF Shapes
<1>3. net'.named = IF call.ctrl THEN [net.named EXCEPT ![call.counter] = NewNet] ELSE net.named
  BY DEF Inserts
<1>4. ASSUME NEW k \in CtrlNames PROVE net'.named[k] = net.named[k] \/ net'.named[k] = NewNet
  BY <1>2, <1>3
<1> SUFFICES ASSUME NEW k \in CtrlNames, net'.named[k] # 0
             PROVE  net'.named[k] \in Takers \/ \E b \in DOMAIN net'.out : net'.out[b] = net'.named[k]
  BY DEF NamesAccounted
<1>5. CASE net'.named[k] = NewNet
  BY <1>1, <1>5
<1>6. CASE net'.named[k] = net.named[k]
  BY <1>1, <1>6 DEF NamesAccounted
<1> QED
  BY <1>4, <1>5, <1>6

LEMMA NamesRename ==
  ASSUME NamesAccounted(net), Renames
  PROVE  NamesAccounted(net)' /\ NamesAccounted(saved)'
<1>1. /\ net'.out = net.out /\ saved' = net'
      /\ \A k \in CtrlNames : net'.named[k] \in {0, net.named[k]} \cup Takers
  BY DEF Renames
<1>2. NamesAccounted(net)'
  BY <1>1 DEF NamesAccounted
<1> QED
  BY <1>1, <1>2 DEF NamesAccounted

LEMMA GoodRename ==
  ASSUME Shapes, Good(saved), Renames
  PROVE  Good(saved)'
<1>1. /\ net'.on = net.on /\ net'.out = net.out /\ net'.root = net.root /\ saved' = net'
      /\ home' = home /\ saved = net
  BY DEF Renames, Shapes
<1>2. OneDriver(saved)'
  BY <1>1 DEF Good, OneDriver
<1>3. SignalsKept(saved)'
  BY <1>1 DEF Good, SignalsKept
<1>4. NoCircle(saved'.on, saved'.out)
  BY <1>1 DEF Good
<1> QED
  BY <1>2, <1>3, <1>4 DEF Good

-----------------------------------------------------------------------------
(* Half way through a command.                                             *)

LEMMA SinksFinite ==
  ASSUME NEW nl, NetShape(nl)
  PROVE  /\ IsFiniteSet(DOMAIN nl.on)
         /\ \A n : Sinks(nl, n) \subseteq DOMAIN nl.on /\ IsFiniteSet(Sinks(nl, n))
         /\ \A S : S \subseteq DOMAIN nl.on => IsFiniteSet(S) /\ Cardinality(S) \in Nat
<1>1. DOMAIN nl.on = 1..NPins + Len(nl.out) /\ NPins + Len(nl.out) \in Nat
  BY NetFacts, BoundsFacts
<1>2. IsFiniteSet(DOMAIN nl.on)
  BY <1>1, FS_Interval
<1>3. \A S : S \subseteq DOMAIN nl.on => IsFiniteSet(S)
  BY <1>2, FS_Subset
<1>4. \A S : S \subseteq DOMAIN nl.on => Cardinality(S) \in Nat
  BY <1>3, FS_CardinalityType
<1>5. \A n : Sinks(nl, n) \subseteq DOMAIN nl.on
  BY DEF Sinks
<1> QED
  BY <1>2, <1>3, <1>4, <1>5

LEMMA AdvancedAtRest ==
  ASSUME Shapes, call.rest = {}
  PROVE  Advanced = net.on
<1>1. net.on = [p \in DOMAIN net.on |-> net.on[p]]
  BY NetFacts DEF Shapes
<1> QED
  BY <1>1 DEF Advanced

(* At the start nothing has moved yet.                                     *)
LEMMA BeginHalfWay ==
  ASSUME Shapes, Good(saved), NEW W \in SUBSET (1..net.size), NEW limit \in Nat,
         NEW ctrl \in BOOLEAN, Begin(W, limit, ctrl)
  PROVE  HalfWay'
<1> DEFINE targets == IF limit >= 2 THEN Overloaded(W, limit) ELSE {}
           todo    == [n \in targets |-> Sinks(net, n)]
<1>1. /\ call' = [serving |-> TRUE, wanted |-> W, limit |-> limit, ctrl |-> ctrl,
                  targets |-> targets, todo |-> todo, source |-> 0, rest |-> {}, made |-> {},
                  counter |-> 0]
      /\ UNCHANGED <<net, home, saved>> /\ ~call.serving
  BY DEF Begin
<1>2. /\ call'.wanted = W /\ call'.limit = limit /\ call'.todo = todo /\ call'.rest = {}
      /\ call'.made = {}
  BY <1>1
<1>3. Good(net)
  BY <1>1 DEF Shapes
<1>4. SignalsKept(net)'
  BY <1>1, <1>3 DEF Good, SignalsKept
<1>5. \A n \in DOMAIN todo : todo[n] = Sinks(net, n)
  OBVIOUS
<1>6. limit >= 2 => \A n \in (W \cup {}) \ DOMAIN todo : Staying(n)' <= limit
  <2> SUFFICES ASSUME limit >= 2, NEW n \in W \ DOMAIN todo PROVE Staying(n)' <= limit
    OBVIOUS
  <2>1. Staying(n)' = Load(net, n)
    <3>1. Sinks(net', n) \ call'.rest = Sinks(net, n)
      BY <1>1, <1>2
    <3> QED
      BY <3>1 DEF Staying, Load, Portion
  <2>2. ~(Load(net, n) > limit)
    BY DEF Overloaded
  <2>3. Load(net, n) \in Nat
    <3>1. Cardinality(Sinks(net, n)) \in Nat
      BY SinksFinite DEF Shapes
    <3> QED
      BY <3>1 DEF Load
  <2> QED
    BY <2>1, <2>2, <2>3
<1>7. NoCircle(Advanced', net'.out)
  <2>1. Advanced' = net.on
    BY <1>1, <1>2, NetFacts DEF Advanced, Shapes
  <2> QED
    BY <1>1, <1>3, <2>1 DEF Good
<1> HIDE DEF targets, todo
<1>8. \A n \in DOMAIN call'.todo :
        call'.todo[n] = Sinks(net', n) /\ call'.todo[n] \cap call'.rest = {}
  BY <1>1, <1>2, <1>5
<1>9. call'.limit >= 2 =>
        \A n \in (call'.wanted \cup call'.made) \ DOMAIN call'.todo : Staying(n)' <= call'.limit
  BY <1>2, <1>6
<1> QED
  BY <1>2, <1>4, <1>7, <1>8, <1>9 DEF HalfWay

(* The first of k sinks are k, and no others.                              *)
LEMMA FirstFacts ==
  ASSUME NEW S, NEW k, NEW T \in First(S, k)
  PROVE  T \subseteq S /\ Cardinality(T) = k
BY DEF First

(* The sinks that stay leave a place free; the others are where they were. *)
LEMMA StartTargetHalfWay ==
  ASSUME Shapes, HalfWay, NEW n \in 1..net.size, StartTarget(n)
  PROVE  HalfWay'
<1>1. /\ call.serving /\ call.rest = {} /\ n \in DOMAIN call.todo
      /\ UNCHANGED <<net, home, saved, reply>>
      /\ call.limit >= 2
      /\ call'.wanted = call.wanted /\ call'.limit = call.limit /\ call'.made = call.made
      /\ call'.source = n
      /\ DOMAIN call'.todo = DOMAIN call.todo \ {n}
      /\ \A m \in DOMAIN call'.todo : call'.todo[m] = call.todo[m]
  BY StartTargetEffect
<1>2. PICK stay \in First(call.todo[n], Kept(call.limit, n)) : call'.rest = call.todo[n] \ stay
  BY StartTargetEffect
<1>3. \A m \in DOMAIN call.todo : call.todo[m] = Sinks(net, m)
  BY DEF HalfWay
<1>4. /\ stay \subseteq Sinks(net, n) /\ Cardinality(stay) = Kept(call.limit, n)
      /\ call'.rest = Sinks(net, n) \ stay
  BY <1>1, <1>2, <1>3, FirstFacts
<1>5. call.limit \in Nat
  BY <1>1, CallFacts
<1>6. SignalsKept(net)'
  BY <1>1 DEF HalfWay, SignalsKept
<1>7. \A p \in call'.rest : net.on[p] = n
  BY <1>4 DEF Sinks
<1>8. \A m \in DOMAIN call'.todo :
        call'.todo[m] = Sinks(net', m) /\ call'.todo[m] \cap call'.rest = {}
  <2> SUFFICES ASSUME NEW m \in DOMAIN call'.todo
               PROVE  call'.todo[m] = Sinks(net', m) /\ call'.todo[m] \cap call'.rest = {}
    OBVIOUS
  <2>1. m \in DOMAIN call.todo /\ m # n /\ call'.todo[m] = Sinks(net, m)
    BY <1>1, <1>3
  <2>2. \A p \in Sinks(net, m) : net.on[p] # n
    BY <2>1 DEF Sinks
  <2> QED
    BY <1>1, <1>7, <2>1, <2>2
<1>9. Staying(n)' <= call.limit - 1
  <2>1. Sinks(net', n) \ call'.rest = stay
    BY <1>1, <1>4
  <2>2. Staying(n)' = Kept(call.limit, n) + Portion(n)
    BY <1>4, <2>1 DEF Staying, Portion
  <2> QED
    BY <1>5, <2>2 DEF Kept, Portion
<1>10. \A m \in (call'.wanted \cup call'.made) \ DOMAIN call'.todo : Staying(m)' <= call.limit
  <2> SUFFICES ASSUME NEW m \in (call.wanted \cup call.made) \ DOMAIN call'.todo
               PROVE  Staying(m)' <= call.limit
    BY <1>1
  <2>1. CASE m = n
    <3>1. Staying(n)' \in Int
      <4>1. Staying(n)' = Cardinality(stay) + Portion(n)
        BY <1>1, <1>4 DEF Staying, Portion
      <4> QED
        BY <1>4, <1>5, <4>1 DEF Kept, Portion
    <3> QED
      BY <1>5, <1>9, <2>1, <3>1
  <2>2. CASE m # n
    <3>1. m \in (call.wanted \cup call.made) \ DOMAIN call.todo
      BY <1>1, <2>2
    <3>2. Sinks(net', m) \ call'.rest = Sinks(net, m) \ call.rest
      <4>1. \A p \in Sinks(net, m) : net.on[p] # n
        BY <2>2 DEF Sinks
      <4> QED
        BY <1>1, <1>7, <4>1
    <3>3. Staying(m)' = Staying(m)
      BY <3>2 DEF Staying, Portion
    <3> QED
      BY <1>1, <3>1, <3>3 DEF HalfWay
  <2> QED
    BY <2>1, <2>2
<1>11. NoCircle(Advanced', net'.out)
  <2>1. Advanced = net.on
    BY <1>1, AdvancedAtRest
  <2>2. Advanced' = net.on
    <3>1. net.on = [p \in DOMAIN net.on |-> net.on[p]]
      BY NetFacts DEF Shapes
    <3> QED
      BY <1>1, <1>7, <3>1 DEF Advanced
  <2> QED
    BY <1>1, <2>1, <2>2 DEF HalfWay
<1>12. \A p \in call'.rest : net'.root[net'.on[p]] = net'.root[call'.source]
  BY <1>1, <1>7
<1>13. /\ call'.source \notin DOMAIN call'.todo
       /\ Staying(call.source)' <= call'.limit - 1
  <2>1. Staying(call.source)' = Staying(n)'
    BY <1>1 DEF Staying
  <2> QED
    BY <1>1, <1>9, <2>1
<1>14. call'.limit >= 2 =>
         \A m \in (call'.wanted \cup call'.made) \ DOMAIN call'.todo : Staying(m)' <= call'.limit
  BY <1>1, <1>10
<1> QED
  BY <1>6, <1>8, <1>11, <1>12, <1>13, <1>14 DEF HalfWay

(* A buffer whose net is new takes over some of the sinks to be moved.     *)
Extends(moved) ==
  /\ Shapes /\ HalfWay /\ call.serving /\ call.rest # {} /\ NewBuffer <= MaxBuffers
  /\ moved \in First(call.rest, Taken(call.limit, Cardinality(call.rest)))
  /\ Inserts(moved)
  /\ NewNet = net.size + 1

LEMMA ExtendsFacts ==
  ASSUME NEW moved, Extends(moved)
  PROVE  /\ NetShape(net) /\ NetShape(net)'
         /\ moved \subseteq call.rest /\ call.rest \subseteq DOMAIN net.on
         /\ Cardinality(moved) = Taken(call.limit, Cardinality(call.rest))
         /\ BufferPin(NewBuffer) \notin DOMAIN net.on /\ NewBuffer \notin DOMAIN net.out
         /\ DOMAIN net'.on = DOMAIN net.on \cup {BufferPin(NewBuffer)}
         /\ \A p \in DOMAIN net.on : net'.on[p] = IF p \in moved THEN NewNet ELSE net.on[p]
         /\ net'.on[BufferPin(NewBuffer)] = call.source
         /\ DOMAIN net'.out = DOMAIN net.out \cup {NewBuffer}
         /\ \A c \in DOMAIN net.out : net'.out[c] = net.out[c] /\ net.out[c] \in 1..net.size
         /\ net'.out[NewBuffer] = NewNet
         /\ net'.root[NewNet] = net.root[call.source]
         /\ \A n \in 1..net.size : n # NewNet /\ net'.root[n] = net.root[n]
         /\ \A p \in DOMAIN net.on : net.on[p] \in 1..net.size
         /\ call.source \in 1..net.size /\ NewNet \notin 1..net.size /\ NewNet \notin Ports
<1> USE DEF Extends
<1>1. net.size \in Nat /\ \A p \in DOMAIN net.on : net.on[p] \in 1..net.size
  BY NetFacts DEF Shapes
<1>2. \A c \in DOMAIN net.out : net.out[c] \in 1..net.size
  BY NetFacts DEF Shapes
<1>3. NewNet \notin 1..net.size /\ \A n \in 1..net.size : n # NewNet
  BY <1>1
<1>4. NewNet \notin Ports
  BY <1>3, DesignNetsThere, BoundsFacts
<1>5. /\ moved \subseteq call.rest
      /\ Cardinality(moved) = Taken(call.limit, Cardinality(call.rest))
  BY FirstFacts
<1>6. call.rest \subseteq DOMAIN net.on
  BY CallFacts
<1>7. /\ BufferPin(NewBuffer) \notin DOMAIN net.on /\ NewBuffer \notin DOMAIN net.out
      /\ DOMAIN net'.on = DOMAIN net.on \cup {BufferPin(NewBuffer)}
      /\ \A p \in DOMAIN net.on : net'.on[p] = IF p \in moved THEN NewNet ELSE net.on[p]
      /\ net'.on[BufferPin(NewBuffer)] = call.source
      /\ DOMAIN net'.out = DOMAIN net.out \cup {NewBuffer}
      /\ \A c \in DOMAIN net.out : net'.out[c] = net.out[c]
      /\ net'.out[NewBuffer] = NewNet
      /\ net'.root[NewNet] = net.root[call.source]
      /\ \A n \in 1..net.size : n # NewNet => net'.root[n] = net.root[n]
      /\ call.source \in 1..net.size
      /\ NetShape(net)'
  BY InsertedNet
<1>8. NetShape(net)
  BY DEF Shapes
<1> HIDE DEF Extends
<1> QED
  BY <1>1, <1>2, <1>3, <1>4, <1>5, <1>6, <1>7, <1>8

(* The new net carries what the source carries, so no pin sees a change.   *)
LEMMA ExtendsSignals ==
  ASSUME NEW moved, Extends(moved), home' = home
  PROVE  /\ SignalsKept(net)'
         /\ \A p \in call.rest \ moved : net'.root[net'.on[p]] = net'.root[NewNet]
<1>1. /\ \A p \in Pins : net.root[net.on[p]] = home[p]
      /\ \A c \in DOMAIN net.out : net.root[net.out[c]] = net.root[net.on[BufferPin(c)]]
      /\ \A p \in call.rest : net.root[net.on[p]] = net.root[call.source]
  BY DEF Extends, HalfWay, SignalsKept
<1>2. \A p \in DOMAIN net.on : net'.root[net'.on[p]] = net.root[net.on[p]]
  <2> SUFFICES ASSUME NEW p \in DOMAIN net.on PROVE net'.root[net'.on[p]] = net.root[net.on[p]]
    OBVIOUS
  <2>1. CASE p \in moved
    <3>1. net'.on[p] = NewNet /\ p \in call.rest
      BY <2>1, ExtendsFacts
    <3> QED
      BY <1>1, <3>1, ExtendsFacts
  <2>2. CASE p \notin moved
    <3>1. net'.on[p] = net.on[p] /\ net.on[p] \in 1..net.size
      BY <2>2, ExtendsFacts
    <3> QED
      BY <3>1, ExtendsFacts
  <2> QED
    BY <2>1, <2>2
<1>3. /\ DOMAIN net.on = 1..NPins + Len(net.out) /\ Len(net.out) \in Nat
      /\ DOMAIN net.out = 1..Len(net.out)
  BY ExtendsFacts, NetFacts
<1>4. Pins \subseteq DOMAIN net.on /\ \A c \in DOMAIN net.out : BufferPin(c) \in DOMAIN net.on
  BY <1>3, BoundsFacts DEF Pins, BufferPin
<1>5. \A p \in Pins : net'.root[net'.on[p]] = home'[p]
  BY <1>1, <1>2, <1>4
<1>6. \A c \in DOMAIN net'.out : net'.root[net'.out[c]] = net'.root[net'.on[BufferPin(c)]]
  <2> SUFFICES ASSUME NEW c \in DOMAIN net'.out
               PROVE  net'.root[net'.out[c]] = net'.root[net'.on[BufferPin(c)]]
    OBVIOUS
  <2>1. CASE c \in DOMAIN net.out
    <3>1. net'.root[net'.out[c]] = net.root[net.out[c]]
      BY <2>1, ExtendsFacts
    <3> QED
      BY <1>1, <1>2, <1>4, <2>1, <3>1
  <2>2. CASE c = NewBuffer
    <3>1. net'.root[net'.out[c]] = net.root[call.source]
      BY <2>2, ExtendsFacts
    <3>2. net'.root[net'.on[BufferPin(c)]] = net.root[call.source]
      BY <2>2, ExtendsFacts
    <3> QED
      BY <3>1, <3>2
  <2> QED
    BY <2>1, <2>2, ExtendsFacts
<1>7. ASSUME NEW p \in call.rest \ moved
      PROVE  net'.root[net'.on[p]] = net'.root[NewNet]
  <2>1. p \in DOMAIN net.on
    BY ExtendsFacts
  <2> QED
    BY <1>1, <1>2, <2>1, ExtendsFacts
<1> QED
  BY <1>5, <1>6, <1>7 DEF SignalsKept

(* The sinks after the insertion.                                          *)
LEMMA ExtendsSinks ==
  ASSUME NEW moved, Extends(moved)
  PROVE  /\ Sinks(net', NewNet) = moved
         /\ Sinks(net', call.source) =
              (Sinks(net, call.source) \ moved) \cup {BufferPin(NewBuffer)}
         /\ \A n : n # NewNet /\ n # call.source => Sinks(net', n) = Sinks(net, n) \ moved
<1>1. ASSUME NEW p, NEW n
      PROVE  p \in Sinks(net', n) <=>
               \/ p \in moved /\ n = NewNet
               \/ p \in DOMAIN net.on \ moved /\ net.on[p] = n
               \/ p = BufferPin(NewBuffer) /\ n = call.source
  <2>1. CASE p \in DOMAIN net.on
    <3>1. p # BufferPin(NewBuffer) /\ p \in DOMAIN net'.on
      BY <2>1, ExtendsFacts
    <3>2. p \in Sinks(net', n) <=> net'.on[p] = n
      BY <3>1 DEF Sinks
    <3>3. net'.on[p] = IF p \in moved THEN NewNet ELSE net.on[p]
      BY <2>1, ExtendsFacts
    <3> QED
      BY <2>1, <3>1, <3>2, <3>3
  <2>2. CASE p = BufferPin(NewBuffer)
    <3>1. p \notin DOMAIN net.on /\ p \notin moved /\ p \in DOMAIN net'.on
      BY <2>2, ExtendsFacts
    <3>2. net'.on[p] = call.source
      BY <2>2, ExtendsFacts
    <3> QED
      BY <2>2, <3>1, <3>2 DEF Sinks
  <2>3. CASE p \notin DOMAIN net.on /\ p # BufferPin(NewBuffer)
    <3>1. p \notin DOMAIN net'.on /\ p \notin moved
      BY <2>3, ExtendsFacts
    <3> QED
      BY <2>3, <3>1 DEF Sinks
  <2> QED
    BY <2>1, <2>2, <2>3
<1>2. \A p \in DOMAIN net.on : net.on[p] # NewNet
  BY ExtendsFacts
<1>3. NewNet # call.source
  BY ExtendsFacts
<1>4. \A p, n : p \in Sinks(net, n) <=> p \in DOMAIN net.on /\ net.on[p] = n
  BY DEF Sinks
<1>5. Sinks(net', NewNet) = moved
  BY <1>1, <1>2, <1>3
<1>6. Sinks(net', call.source) =
        (Sinks(net, call.source) \ moved) \cup {BufferPin(NewBuffer)}
  <2> SUFFICES ASSUME NEW p
               PROVE  p \in Sinks(net', call.source)
                        <=> p \in (Sinks(net, call.source) \ moved) \cup {BufferPin(NewBuffer)}
    OBVIOUS
  <2>1. p \in Sinks(net', call.source) <=>
          \/ p \in DOMAIN net.on \ moved /\ net.on[p] = call.source
          \/ p = BufferPin(NewBuffer)
    BY <1>1, <1>3
  <2>2. p \in Sinks(net, call.source) <=> p \in DOMAIN net.on /\ net.on[p] = call.source
    BY <1>4
  <2> QED
    BY <2>1, <2>2
<1>7. ASSUME NEW n, n # NewNet, n # call.source PROVE Sinks(net', n) = Sinks(net, n) \ moved
  <2>1. \A p : p \in Sinks(net', n) <=> p \in DOMAIN net.on \ moved /\ net.on[p] = n
    BY <1>1, <1>7
  <2> QED
    BY <1>4, <2>1
<1> QED
  BY <1>5, <1>6, <1>7

(* All but the last buffer of a chain keep a place for the next one.       *)
LEMMA MovedFacts ==
  ASSUME NEW moved, Extends(moved)
  PROVE  /\ Cardinality(moved) \in Nat /\ call.limit \in Nat /\ call.limit >= 2
         /\ Cardinality(moved) <= call.limit
         /\ call.rest \ moved # {} => Cardinality(moved) = call.limit - 1
<1>1. /\ moved \subseteq call.rest /\ call.rest \subseteq DOMAIN net.on /\ NetShape(net)
      /\ Cardinality(moved) = Taken(call.limit, Cardinality(call.rest))
  BY ExtendsFacts
<1>2. IsFiniteSet(call.rest) /\ Cardinality(call.rest) \in Nat /\ Cardinality(moved) \in Nat
  BY <1>1, SinksFinite
<1>3. call.limit \in Nat /\ call.limit >= 2
  BY CallFacts DEF Extends
<1>4. CASE Cardinality(call.rest) <= call.limit
  <2>1. Cardinality(moved) = Cardinality(call.rest)
    BY <1>1, <1>4 DEF Taken
  <2>2. moved = call.rest
    BY <1>1, <1>2, <2>1, FS_Subset
  <2> QED
    BY <1>2, <1>3, <1>4, <2>2
<1>5. CASE ~(Cardinality(call.rest) <= call.limit)
  <2>1. Cardinality(moved) = call.limit - 1
    BY <1>1, <1>5 DEF Taken
  <2> QED
    BY <1>2, <1>3, <2>1
<1> QED
  BY <1>4, <1>5

StayingAfter(n) == Cardinality(Sinks(net', n) \ call'.rest) + Portion(n)

(* The source of the chain gets the input of the buffer on the place kept  *)
(* for it, the new net the moved sinks; the other nets keep what they had. *)
LEMMA ExtendsStaying ==
  ASSUME NEW moved, Extends(moved), call'.rest = call.rest \ moved
  PROVE  /\ StayingAfter(NewNet) = Cardinality(moved)
         /\ Staying(call.source) \in Nat
         /\ StayingAfter(call.source) = Staying(call.source) + 1
         /\ \A n : n # NewNet /\ n # call.source => StayingAfter(n) = Staying(n)
<1>1. /\ Sinks(net', NewNet) = moved
      /\ Sinks(net', call.source) = (Sinks(net, call.source) \ moved) \cup {BufferPin(NewBuffer)}
      /\ \A n : n # NewNet /\ n # call.source => Sinks(net', n) = Sinks(net, n) \ moved
  BY ExtendsSinks
<1>2. /\ moved \subseteq call.rest /\ BufferPin(NewBuffer) \notin DOMAIN net.on
      /\ NewNet \notin Ports /\ NetShape(net) /\ call.rest \subseteq DOMAIN net.on
  BY ExtendsFacts
<1>3. Cardinality(Sinks(net', NewNet) \ call'.rest) + Portion(NewNet) = Cardinality(moved)
  <2>1. Sinks(net', NewNet) \ call'.rest = moved
    BY <1>1
  <2>2. Portion(NewNet) = 0
    BY <1>2 DEF Portion
  <2> QED
    BY <2>1, <2>2, MovedFacts
<1>4. Cardinality(Sinks(net', call.source) \ call'.rest) + Portion(call.source) = Staying(call.source) + 1
      /\ Staying(call.source) \in Nat
  <2> DEFINE S == Sinks(net, call.source) \ call.rest
  <2>1. Sinks(net', call.source) \ call'.rest = S \cup {BufferPin(NewBuffer)}
    BY <1>1, <1>2
  <2>2. S \subseteq DOMAIN net.on
    BY DEF Sinks
  <2>3. IsFiniteSet(S) /\ Cardinality(S) \in Nat
    BY <1>2, <2>2, SinksFinite
  <2>4. BufferPin(NewBuffer) \notin S
    BY <1>2, <2>2
  <2>5. Cardinality(S \cup {BufferPin(NewBuffer)}) = Cardinality(S) + 1
    BY <2>3, <2>4, FS_AddElement
  <2>6. Staying(call.source) = Cardinality(S) + Portion(call.source)
    BY DEF Staying
  <2>7. Portion(call.source) \in Nat
    BY DEF Portion
  <2> HIDE DEF S
  <2>8. Cardinality(Sinks(net', call.source) \ call'.rest) = Cardinality(S) + 1
    BY <2>1, <2>5
  <2> QED
    BY <2>3, <2>6, <2>7, <2>8
<1>5. ASSUME NEW n, n # NewNet, n # call.source
      PROVE  Cardinality(Sinks(net', n) \ call'.rest) + Portion(n) = Staying(n)
  <2>1. Sinks(net', n) = Sinks(net, n) \ moved
    BY <1>1, <1>5
  <2>2. Sinks(net', n) \ call'.rest = Sinks(net, n) \ call.rest
    BY <1>2, <2>1
  <2> QED
    BY <2>2 DEF Staying
<1> QED
  BY <1>3, <1>4, <1>5 DEF StayingAfter

LEMMA ExtendsTodo ==
  ASSUME NEW moved, Extends(moved), call'.rest = call.rest \ moved, NEW n \in DOMAIN call.todo
  PROVE  /\ n # NewNet /\ n # call.source
         /\ call.todo[n] = Sinks(net', n) /\ call.todo[n] \cap call'.rest = {}
<1>1. /\ call.todo[n] = Sinks(net, n) /\ call.todo[n] \cap call.rest = {}
      /\ n # call.source
  BY DEF Extends, HalfWay
<1>2. n # NewNet
  <2>1. n \in 1..net.size
    BY CallFacts DEF Extends
  <2> QED
    BY <2>1, ExtendsFacts
<1>3. Sinks(net', n) = Sinks(net, n) \ moved
  BY <1>1, <1>2, ExtendsSinks
<1>4. moved \subseteq call.rest
  BY ExtendsFacts
<1> QED
  BY <1>1, <1>2, <1>3, <1>4

(* A circle through the new buffer would have been one through its source. *)
LEMMA ExtendsCircle ==
  ASSUME NEW moved, Extends(moved), call'.rest = call.rest \ moved, call'.source = NewNet
  PROVE  NoCircle(Advanced', net'.out)
<1> DEFINE b == NewBuffer
           out == net'.out
<1>1. /\ DOMAIN out = DOMAIN net.out \cup {b} /\ b \notin DOMAIN net.out /\ out[b] = NewNet
      /\ \A c \in DOMAIN net.out : out[c] = net.out[c] /\ out[c] # NewNet
  BY ExtendsFacts
<1>2. /\ NewNet # call.source
      /\ \A p \in DOMAIN net.on : net.on[p] # NewNet
  BY ExtendsFacts
<1>3. Advanced'[BufferPin(b)] = call.source
  <2>1. /\ BufferPin(b) \in DOMAIN net'.on /\ BufferPin(b) \notin call'.rest
        /\ net'.on[BufferPin(b)] = call.source
    BY ExtendsFacts
  <2> QED
    BY <2>1 DEF Advanced
<1>4. \A p \in call.rest : Advanced'[p] = NewNet
  <2> SUFFICES ASSUME NEW p \in call.rest PROVE Advanced'[p] = NewNet
    OBVIOUS
  <2>1. p \in DOMAIN net.on /\ p \in DOMAIN net'.on
    BY ExtendsFacts
  <2>2. CASE p \in moved
    <3>1. net'.on[p] = NewNet /\ p \notin call'.rest
      BY <2>1, <2>2, ExtendsFacts
    <3> QED
      BY <2>1, <3>1 DEF Advanced
  <2>3. CASE p \notin moved
    <3>1. p \in call'.rest
      BY <2>3
    <3> QED
      BY <2>1, <3>1 DEF Advanced
  <2> QED
    BY <2>2, <2>3
<1>5. \A p \in DOMAIN net.on \ call.rest : Advanced'[p] = net.on[p]
  <2> SUFFICES ASSUME NEW p \in DOMAIN net.on \ call.rest PROVE Advanced'[p] = net.on[p]
    OBVIOUS
  <2>1. p \in DOMAIN net'.on /\ p \notin moved /\ p \notin call'.rest
    BY ExtendsFacts
  <2>2. net'.on[p] = net.on[p]
    BY <2>1, ExtendsFacts
  <2> QED
    BY <2>1, <2>2 DEF Advanced
<1>6. \A p \in DOMAIN net.on : Advanced[p] = IF p \in call.rest THEN call.source ELSE net.on[p]
  BY DEF Advanced
<1>7. \A c \in DOMAIN net.out : BufferPin(c) \in DOMAIN net.on
  <2>1. /\ DOMAIN net.on = 1..NPins + Len(net.out) /\ Len(net.out) \in Nat
        /\ DOMAIN net.out = 1..Len(net.out)
    BY ExtendsFacts, NetFacts
  <2> QED
    BY <2>1, BoundsFacts DEF BufferPin
<1> HIDE DEF b, out
<1> SUFFICES ASSUME NEW B \in (SUBSET DOMAIN out) \ {{}}
             PROVE  \E d \in B : \A c \in B : Advanced'[BufferPin(d)] # out[c]
  BY DEF NoCircle, out
<1>8. CASE B = {b}
  BY <1>1, <1>2, <1>3, <1>8
<1>9. CASE B # {b}
  <2>1. B \ {b} \in (SUBSET DOMAIN net.out) \ {{}}
    BY <1>1, <1>9
  <2>2. PICK d \in B \ {b} : \A c \in B \ {b} : Advanced[BufferPin(d)] # net.out[c]
    BY <2>1 DEF Extends, HalfWay, NoCircle
  <2>3. d \in DOMAIN net.out /\ BufferPin(d) \in DOMAIN net.on
    BY <1>7, <2>1
  <2>4. \A c \in B \ {b} : c \in DOMAIN net.out /\ out[c] = net.out[c] /\ out[c] # NewNet
    BY <1>1, <2>1
  <2>5. CASE BufferPin(d) \in call.rest
    <3>1. \A c \in B \ {b} : call.source # out[c]
      BY <1>6, <2>2, <2>3, <2>4, <2>5
    <3>2. CASE b \in B
      <4>1. \A c \in B : Advanced'[BufferPin(b)] # out[c]
        BY <1>1, <1>2, <1>3, <3>1
      <4> QED
        BY <3>2, <4>1
    <3>3. CASE b \notin B
      <4>1. \A c \in B : Advanced'[BufferPin(d)] # out[c]
        BY <1>4, <2>4, <2>5, <3>3
      <4> QED
        BY <4>1
    <3> QED
      BY <3>2, <3>3
  <2>6. CASE BufferPin(d) \notin call.rest
    <3>1. Advanced'[BufferPin(d)] = net.on[BufferPin(d)]
      BY <1>5, <2>3, <2>6
    <3>2. \A c \in B \ {b} : net.on[BufferPin(d)] # out[c]
      BY <1>6, <2>2, <2>3, <2>4, <2>6
    <3>3. net.on[BufferPin(d)] # out[b]
      BY <1>1, <1>2, <2>3
    <3> QED
      BY <3>1, <3>2, <3>3
  <2> QED
    BY <2>5, <2>6
<1> QED
  BY <1>8, <1>9

LEMMA InsertBufferHalfWay ==
  ASSUME NEW moved, Extends(moved), home' = home
  PROVE  HalfWay'
<1>1. /\ call'.rest = call.rest \ moved /\ call'.source = NewNet
      /\ call'.made = call.made \cup {NewNet} /\ call'.todo = call.todo
      /\ call'.wanted = call.wanted /\ call'.limit = call.limit /\ call.limit >= 2
  BY InsertedCall DEF Extends
<1>2. SignalsKept(net)'
  BY ExtendsSignals
<1>3. \A p \in call'.rest : net'.root[net'.on[p]] = net'.root[call'.source]
  BY <1>1, ExtendsSignals
<1>4. \A n \in DOMAIN call'.todo :
        call'.todo[n] = Sinks(net', n) /\ call'.todo[n] \cap call'.rest = {}
  BY <1>1, ExtendsTodo
<1>5. call.limit \in Nat /\ Cardinality(moved) \in Nat /\ Cardinality(moved) <= call.limit
  BY MovedFacts
<1>6. call'.rest # {} =>
        /\ call'.source \notin DOMAIN call'.todo
        /\ StayingAfter(call'.source) <= call'.limit - 1
  <2> SUFFICES ASSUME call'.rest # {}
               PROVE  /\ call'.source \notin DOMAIN call'.todo
                      /\ StayingAfter(call'.source) <= call'.limit - 1
    OBVIOUS
  <2>1. NewNet \notin DOMAIN call.todo
    BY <1>1, ExtendsTodo
  <2>2. Cardinality(moved) = call.limit - 1
    BY <1>1, MovedFacts
  <2>3. StayingAfter(NewNet) = Cardinality(moved)
    BY <1>1, ExtendsStaying
  <2> QED
    BY <1>1, <1>5, <2>1, <2>2, <2>3
<1>7. ASSUME NEW n \in (call'.wanted \cup call'.made) \ DOMAIN call'.todo
      PROVE  StayingAfter(n) <= call'.limit
  <2>1. CASE n = NewNet
    BY <1>1, <1>5, <2>1, ExtendsStaying
  <2>2. CASE n = call.source
    <3>1. Staying(call.source) <= call.limit - 1
      BY DEF Extends, HalfWay
    <3>2. StayingAfter(n) = Staying(call.source) + 1 /\ Staying(call.source) \in Nat
      BY <1>1, <2>2, ExtendsStaying
    <3> QED
      BY <1>1, <1>5, <3>1, <3>2
  <2>3. CASE n # NewNet /\ n # call.source
    <3>1. n \in (call.wanted \cup call.made) \ DOMAIN call.todo
      BY <1>1, <2>3
    <3>2. Staying(n) <= call.limit
      BY <1>1, <3>1 DEF Extends, HalfWay
    <3>3. StayingAfter(n) = Staying(n)
      BY <1>1, <2>3, ExtendsStaying
    <3> QED
      BY <1>1, <3>2, <3>3
  <2> QED
    BY <2>1, <2>2, <2>3
<1>8. NoCircle(Advanced', net'.out)
  BY <1>1, ExtendsCircle
<1>9. (call'.rest # {}) =>
        /\ call'.source \notin DOMAIN call'.todo
        /\ Staying(call.source)' <= call'.limit - 1
  BY <1>6 DEF Staying, StayingAfter, Portion
<1>10. call'.limit >= 2 =>
         \A n \in (call'.wanted \cup call'.made) \ DOMAIN call'.todo : Staying(n)' <= call'.limit
  BY <1>7 DEF Staying, StayingAfter, Portion
<1> QED
  BY <1>2, <1>3, <1>4, <1>8, <1>9, <1>10 DEF HalfWay

-----------------------------------------------------------------------------
(* No buffer is wasted.                                                    *)

LEMMA CallSetsFinite ==
  ASSUME Shapes, call.serving
  PROVE  /\ IsFiniteSet(call.targets) /\ IsFiniteSet(DOMAIN call.todo) /\ IsFiniteSet(Slack)
         /\ Cardinality(call.targets) \in Nat /\ Cardinality(DOMAIN call.todo) \in Nat
         /\ Cardinality(Slack) \in Nat
<1>1. /\ call.targets \subseteq 1..net.size /\ DOMAIN call.todo \subseteq 1..net.size
      /\ Slack \subseteq 1..net.size
  BY CallFacts DEF Slack
<1>2. IsFiniteSet(1..net.size)
  <2>1. net.size \in Nat
    BY NetFacts DEF Shapes
  <2> QED
    BY <2>1, FS_Interval
<1>3. IsFiniteSet(call.targets) /\ IsFiniteSet(DOMAIN call.todo) /\ IsFiniteSet(Slack)
  BY <1>1, <1>2, FS_Subset
<1> QED
  BY <1>3, FS_CardinalityType

LEMMA StayingIsNat ==
  ASSUME Shapes, NEW n
  PROVE  Staying(n) \in Nat
<1>1. Sinks(net, n) \ call.rest \subseteq DOMAIN net.on
  BY DEF Sinks
<1>2. Cardinality(Sinks(net, n) \ call.rest) \in Nat
  BY <1>1, SinksFinite DEF Shapes
<1> QED
  BY <1>2 DEF Staying, Portion

LEMMA BeginExactly ==
  ASSUME Shapes, NEW W \in SUBSET (1..net.size), NEW limit \in Nat,
         NEW ctrl \in BOOLEAN, Begin(W, limit, ctrl)
  PROVE  Exactly'
<1> DEFINE targets == IF limit >= 2 THEN Overloaded(W, limit) ELSE {}
           todo    == [n \in targets |-> Sinks(net, n)]
<1>1. /\ call' = [serving |-> TRUE, wanted |-> W, limit |-> limit, ctrl |-> ctrl,
                  targets |-> targets, todo |-> todo, source |-> 0, rest |-> {}, made |-> {},
                  counter |-> 0]
      /\ net' = net
  BY DEF Begin
<1>2. /\ call'.limit = limit /\ call'.targets = targets /\ DOMAIN call'.todo = targets
      /\ call'.rest = {} /\ call'.made = {}
  BY <1>1
<1>3. targets \subseteq 1..net.size /\ \A n \in targets : Load(net, n) > limit
  BY DEF Overloaded
<1>4. Cardinality(targets) \in Nat
  <2>1. IsFiniteSet(1..net.size)
    <3>1. net.size \in Nat
      BY NetFacts DEF Shapes
    <3> QED
      BY <3>1, FS_Interval
  <2>2. IsFiniteSet(targets)
    BY <1>3, <2>1, FS_Subset
  <2> QED
    BY <2>2, FS_CardinalityType
<1> HIDE DEF targets, todo
<1>5. Cardinality(Slack') = 0
  <2>1. Slack' = {}
    BY <1>2 DEF Slack
  <2> QED
    BY <2>1, FS_EmptySet
<1>6. \A n \in DOMAIN call'.todo : Load(net', n) > call'.limit
  BY <1>1, <1>2, <1>3
<1>7. Cardinality(Slack') + Cardinality(DOMAIN call'.todo) + (IF call'.rest # {} THEN 1 ELSE 0)
        <= Cardinality(call'.targets)
  BY <1>2, <1>4, <1>5
<1> QED
  BY <1>2, <1>6, <1>7 DEF Exactly, Load

(* The sinks that stay fill the target but for one place, and more than    *)
(* one sink is left.                                                       *)
LEMMA StartTargetExactly ==
  ASSUME Shapes, HalfWay, Exactly, NEW n \in 1..net.size, StartTarget(n)
  PROVE  Exactly'
<1>1. /\ call.serving /\ call.rest = {} /\ n \in DOMAIN call.todo
      /\ UNCHANGED <<net, home, saved, reply>>
      /\ call.limit >= 2
      /\ call'.limit = call.limit /\ call'.made = call.made
      /\ call'.source = n
      /\ DOMAIN call'.todo = DOMAIN call.todo \ {n}
  BY StartTargetEffect
<1>2. call'.targets = call.targets
  <2>1. call \in Calls(net)
    BY <1>1, IdleFacts DEF Shapes, CallShape
  <2> QED
    BY <2>1 DEF StartTarget, Calls
<1>3. PICK stay \in First(call.todo[n], Kept(call.limit, n)) : call'.rest = call.todo[n] \ stay
  BY StartTargetEffect
<1>4. call.todo[n] = Sinks(net, n)
  BY <1>1 DEF HalfWay
<1>5. /\ stay \subseteq Sinks(net, n) /\ Cardinality(stay) = Kept(call.limit, n)
      /\ call'.rest = Sinks(net, n) \ stay
  BY <1>1, <1>3, <1>4, FirstFacts
<1>6. call.limit \in Nat
  BY <1>1, CallFacts
<1>7. Cardinality(call'.rest) >= 2 /\ call'.rest # {}
  <2>1. IsFiniteSet(Sinks(net, n)) /\ Cardinality(Sinks(net, n)) \in Nat
    BY SinksFinite DEF Shapes
  <2>2. Cardinality(call'.rest) = Cardinality(Sinks(net, n)) - Cardinality(stay)
    <3>1. Sinks(net, n) \cap stay = stay
      BY <1>5
    <3>2. Cardinality(Sinks(net, n) \ stay) =
            Cardinality(Sinks(net, n)) - Cardinality(Sinks(net, n) \cap stay)
      BY <2>1, FS_Difference
    <3> QED
      BY <1>5, <3>1, <3>2
  <2>3. Cardinality(Sinks(net, n)) + Portion(n) > call.limit
    BY <1>1 DEF Exactly, Load, Portion
  <2>4. Cardinality(stay) + Portion(n) = call.limit - 1
    BY <1>1, <1>5, <1>6 DEF Kept, Portion
  <2>5. Portion(n) \in {0, 1} /\ Cardinality(stay) \in Int
    BY <1>5, <1>6 DEF Kept, Portion
  <2>6. Cardinality(call'.rest) >= 2
    BY <1>6, <2>1, <2>2, <2>3, <2>4, <2>5
  <2> QED
    BY <2>6, FS_EmptySet
<1>8. Settled(n)' = call.limit
  <2>1. Sinks(net', n) \ call'.rest = stay
    BY <1>1, <1>5
  <2>2. Settled(n)' = Kept(call.limit, n) + Portion(n) + 1
    BY <1>1, <1>5, <1>7, <2>1 DEF Settled, Staying, Portion
  <2> QED
    BY <1>6, <2>2 DEF Kept, Portion
<1>9. ASSUME NEW m, m # n PROVE Settled(m)' = Settled(m)
  <2>1. Sinks(net', m) \ call'.rest = Sinks(net, m) \ call.rest
    BY <1>1, <1>5, <1>9 DEF Sinks
  <2> QED
    BY <1>1, <1>9, <2>1 DEF Settled, Staying, Portion
<1>10. DOMAIN call'.todo \subseteq call'.targets
  BY <1>1, <1>2 DEF Exactly
<1>11. \A m \in DOMAIN call'.todo : Load(net', m) > call'.limit
  BY <1>1 DEF Exactly
<1>12. \A m \in call'.targets \ DOMAIN call'.todo : Settled(m)' = call'.limit
  BY <1>1, <1>2, <1>8, <1>9 DEF Exactly
<1>13. \A m \in call'.made : Settled(m)' >= 2
  BY <1>1, <1>8, <1>9 DEF Exactly
<1>14. Slack' \subseteq Slack
  <2> SUFFICES ASSUME NEW m \in Slack' PROVE m \in Slack
    OBVIOUS
  <2>1. m \in call.made /\ Settled(m)' < call.limit
    BY <1>1 DEF Slack
  <2>2. m # n
    BY <1>6, <1>8, <2>1
  <2> QED
    BY <1>9, <2>1, <2>2 DEF Slack
<1>15. Cardinality(Slack') + Cardinality(DOMAIN call'.todo) + 1 <= Cardinality(call'.targets)
  <2>1. /\ IsFiniteSet(Slack) /\ IsFiniteSet(DOMAIN call.todo)
        /\ Cardinality(call.targets) \in Nat /\ Cardinality(DOMAIN call.todo) \in Nat
        /\ Cardinality(Slack) \in Nat
    BY <1>1, CallSetsFinite
  <2>2. IsFiniteSet(Slack') /\ Cardinality(Slack') <= Cardinality(Slack)
    BY <1>14, <2>1, FS_Subset
  <2>3. Cardinality(Slack') \in Nat
    BY <2>2, FS_CardinalityType
  <2>4. Cardinality(DOMAIN call'.todo) = Cardinality(DOMAIN call.todo) - 1
    <3>1. Cardinality((DOMAIN call.todo) \ {n}) = Cardinality(DOMAIN call.todo) - 1
      BY <1>1, <2>1, FS_RemoveElement
    <3> QED
      BY <1>1, <3>1
  <2>5. Cardinality(Slack) + Cardinality(DOMAIN call.todo) <= Cardinality(call.targets)
    BY <1>1, <2>1 DEF Exactly
  <2> QED
    BY <1>2, <2>1, <2>2, <2>3, <2>4, <2>5
<1>16. Settled(call.source)' = call'.limit
  BY <1>1, <1>8 DEF Settled, Staying
<1>17. Cardinality(Slack') + Cardinality(DOMAIN call'.todo) + (IF call'.rest # {} THEN 1 ELSE 0)
         <= Cardinality(call'.targets)
  BY <1>7, <1>15
<1> QED
  BY <1>7, <1>10, <1>11, <1>12, <1>13, <1>16, <1>17 DEF Exactly, Load

LEMMA RestFacts ==
  ASSUME NEW moved, Extends(moved), Exactly
  PROVE  /\ Cardinality(moved) >= 2 \/ call.rest \ moved # {}
         /\ call.rest \ moved # {} => Cardinality(call.rest \ moved) >= 2
<1>1. /\ moved \subseteq call.rest /\ call.rest \subseteq DOMAIN net.on /\ NetShape(net)
      /\ Cardinality(moved) = Taken(call.limit, Cardinality(call.rest))
  BY ExtendsFacts
<1>2. IsFiniteSet(call.rest) /\ Cardinality(call.rest) \in Nat
  BY <1>1, SinksFinite
<1>3. /\ call.limit \in Nat /\ Cardinality(moved) \in Nat
      /\ call.rest \ moved # {} => Cardinality(moved) = call.limit - 1
  BY MovedFacts
<1>4. Cardinality(call.rest) >= 2
  BY DEF Extends, Exactly
<1>5. CASE call.rest \ moved = {}
  <2>1. moved = call.rest
    BY <1>1, <1>5
  <2> QED
    BY <1>4, <1>5, <2>1
<1>6. CASE call.rest \ moved # {}
  <2>1. Cardinality(call.rest \ moved) = Cardinality(call.rest) - Cardinality(moved)
    <3>1. call.rest \cap moved = moved
      BY <1>1
    <3> QED
      BY <1>2, <3>1, FS_Difference
  <2>2. ~(Cardinality(call.rest) <= call.limit)
    <3>1. ASSUME Cardinality(call.rest) <= call.limit PROVE FALSE
      <4>1. Cardinality(moved) = Cardinality(call.rest)
        BY <1>1, <3>1 DEF Taken
      <4>2. moved = call.rest
        BY <1>1, <1>2, <4>1, FS_Subset
      <4> QED
        BY <1>6, <4>2
    <3> QED
      BY <3>1
  <2>3. Cardinality(call.rest \ moved) >= 2
    BY <1>2, <1>3, <1>6, <2>1, <2>2
  <2> QED
    BY <1>6, <2>3
<1> QED
  BY <1>5, <1>6

LEMMA InsertBufferExactly ==
  ASSUME NEW moved, Extends(moved), Exactly
  PROVE  Exactly'
<1>1. /\ call'.rest = call.rest \ moved /\ call'.source = NewNet
      /\ call'.made = call.made \cup {NewNet} /\ call'.todo = call.todo
      /\ call'.limit = call.limit /\ call.limit >= 2
  BY InsertedCall DEF Extends
<1>2. call'.targets = call.targets
  <2>1. call \in Calls(net)
    BY IdleFacts DEF Extends, Shapes, CallShape
  <2> QED
    BY <2>1 DEF Extends, Inserts, Calls
<1>3. /\ call.limit \in Nat /\ Cardinality(moved) \in Nat
      /\ call'.rest # {} => Cardinality(moved) = call.limit - 1
      /\ Cardinality(moved) >= 2 \/ call'.rest # {}
      /\ call'.rest # {} => Cardinality(call'.rest) >= 2
  BY <1>1, MovedFacts, RestFacts
<1>4. Shapes /\ call.serving /\ call.rest # {}
  BY DEF Extends
<1>5. call.targets \subseteq 1..net.size /\ call.made \subseteq 1..net.size
  BY <1>4, CallFacts
<1>6. NewNet \notin 1..net.size /\ NewNet # call.source
  BY ExtendsFacts
<1>7. \A n : n # NewNet => Settled(n)' = Settled(n)
  <2> SUFFICES ASSUME NEW n, n # NewNet PROVE Settled(n)' = Settled(n)
    OBVIOUS
  <2>1. Settled(n)' = StayingAfter(n)
    <3>1. Staying(n)' = StayingAfter(n)
      BY DEF Staying, StayingAfter, Portion
    <3>2. StayingAfter(n) \in Int
      BY <1>1, ExtendsStaying, StayingIsNat, <1>4
    <3> QED
      BY <1>1, <3>1, <3>2 DEF Settled
  <2>2. CASE n = call.source
    BY <1>1, <1>4, <2>1, <2>2, ExtendsStaying DEF Settled
  <2>3. CASE n # call.source
    <3>1. StayingAfter(n) = Staying(n) /\ Staying(n) \in Nat
      BY <1>1, <1>4, <2>3, ExtendsStaying, StayingIsNat
    <3> QED
      BY <2>1, <2>3, <3>1 DEF Settled
  <2> QED
    BY <2>2, <2>3
<1>8. \A n : n = NewNet =>
        Settled(n)' = Cardinality(moved) + (IF call'.rest # {} THEN 1 ELSE 0)
  <2> SUFFICES ASSUME NEW n, n = NewNet
               PROVE  Settled(n)' = Cardinality(moved) + (IF call'.rest # {} THEN 1 ELSE 0)
    OBVIOUS
  <2>1. Staying(n)' = Cardinality(moved)
    <3>1. Staying(n)' = StayingAfter(n)
      BY DEF Staying, StayingAfter, Portion
    <3> QED
      BY <1>1, <3>1, ExtendsStaying
  <2> QED
    BY <1>1, <2>1 DEF Settled
<1>9. \A n : n = NewNet => Settled(n)' >= 2 /\ (call'.rest # {} => Settled(n)' = call.limit)
  BY <1>1, <1>3, <1>8
<1>10. DOMAIN call'.todo \subseteq call'.targets
  BY <1>1, <1>2 DEF Exactly
<1>11. \A n \in DOMAIN call'.todo : Load(net', n) > call'.limit
  <2> SUFFICES ASSUME NEW n \in DOMAIN call.todo PROVE Load(net', n) > call.limit
    BY <1>1
  <2>1. Sinks(net', n) = Sinks(net, n)
    BY <1>1, ExtendsTodo DEF Extends, HalfWay
  <2> QED
    BY <2>1 DEF Exactly, Load
<1>12. \A n \in call'.targets \ DOMAIN call'.todo : Settled(n)' = call'.limit
  BY <1>1, <1>2, <1>5, <1>6, <1>7 DEF Exactly
<1>13. \A n \in call'.made : Settled(n)' >= 2
  BY <1>1, <1>5, <1>6, <1>7, <1>9 DEF Exactly
<1>14. Slack' \subseteq Slack \cup {NewNet} /\ (call'.rest # {} => Slack' \subseteq Slack)
  <2> SUFFICES ASSUME NEW n \in Slack'
               PROVE  n \in Slack \/ (n = NewNet /\ call'.rest = {})
    OBVIOUS
  <2>1. n \in call.made \cup {NewNet} /\ Settled(n)' < call.limit
    BY <1>1 DEF Slack
  <2>2. CASE n = NewNet
    BY <1>3, <1>9, <2>1, <2>2
  <2>3. CASE n # NewNet
    BY <1>7, <2>1, <2>3 DEF Slack
  <2> QED
    BY <2>2, <2>3
<1>15. /\ IsFiniteSet(Slack) /\ Cardinality(call.targets) \in Nat
       /\ Cardinality(DOMAIN call.todo) \in Nat /\ Cardinality(Slack) \in Nat
  BY <1>4, CallSetsFinite
<1>16. Cardinality(Slack) + Cardinality(DOMAIN call.todo) + 1 <= Cardinality(call.targets)
  BY <1>4 DEF Exactly
<1>17. Cardinality(Slack') + Cardinality(DOMAIN call'.todo) + (IF call'.rest # {} THEN 1 ELSE 0)
         <= Cardinality(call'.targets)
  <2>1. CASE call'.rest # {}
    <3>1. IsFiniteSet(Slack') /\ Cardinality(Slack') <= Cardinality(Slack)
      BY <1>14, <1>15, <2>1, FS_Subset
    <3>2. Cardinality(Slack') \in Nat
      BY <3>1, FS_CardinalityType
    <3> QED
      BY <1>1, <1>2, <1>15, <1>16, <2>1, <3>1, <3>2
  <2>2. CASE call'.rest = {}
    <3>1. /\ IsFiniteSet(Slack \cup {NewNet})
          /\ Cardinality(Slack \cup {NewNet}) <= Cardinality(Slack) + 1
      <4>1. IsFiniteSet(Slack) /\ Cardinality(Slack) \in Nat
        BY <1>15
      <4>2. /\ IsFiniteSet(Slack \cup {NewNet})
            /\ Cardinality(Slack \cup {NewNet}) =
                 IF NewNet \in Slack THEN Cardinality(Slack) ELSE Cardinality(Slack) + 1
        BY <4>1, FS_AddElement
      <4>3. CASE NewNet \in Slack
        BY <4>1, <4>2, <4>3
      <4>4. CASE NewNet \notin Slack
        BY <4>1, <4>2, <4>4
      <4> QED
        BY <4>3, <4>4
    <3>2. IsFiniteSet(Slack') /\ Cardinality(Slack') <= Cardinality(Slack \cup {NewNet})
      BY <1>14, <3>1, FS_Subset
    <3>3. Cardinality(Slack') \in Nat /\ Cardinality(Slack \cup {NewNet}) \in Nat
      BY <3>1, <3>2, FS_CardinalityType
    <3> QED
      BY <1>1, <1>2, <1>15, <1>16, <2>2, <3>1, <3>2, <3>3
  <2> QED
    BY <2>1, <2>2
<1>18. call'.rest # {} => Settled(call.source)' = call'.limit
  <2>1. \A n : n = call'.source => Settled(n)' = Settled(call.source)'
    BY DEF Settled, Staying
  <2> QED
    BY <1>1, <1>9, <2>1
<1> QED
  BY <1>3, <1>10, <1>11, <1>12, <1>13, <1>17, <1>18 DEF Exactly, Load

(* What a command that ends without a rollback has reached.                *)
LEMMA FinishGood ==
  ASSUME IInv, Finish
  PROVE  Good(saved)' /\ LimitMet' /\ NoSlack'
<1>1. Shapes /\ Good(saved) /\ (call.serving /\ OneDriver(net) => HalfWay /\ Exactly)
  BY DEF IInv
<1>2. /\ call.serving /\ call.rest = {} /\ DOMAIN call.todo = {}
      /\ net' = IF Regresses THEN saved ELSE net
      /\ saved' = net' /\ home' = home
      /\ reply' = [kind |-> IF Regresses THEN "rolled back" ELSE "done", wanted |-> call.wanted,
                   limit |-> call.limit, targets |-> call.targets, made |-> call.made]
  BY DEF Finish
<1>3. Regresses <=> ~OneDriver(net)
  BY <1>1, RegressesIff DEF Good
<1>4. CASE Regresses
  <2>1. saved' = saved
    BY <1>2, <1>4
  <2>2. Good(saved)'
    <3>1. OneDriver(saved)'
      BY <1>1, <2>1 DEF Good, OneDriver
    <3>2. SignalsKept(saved)'
      BY <1>1, <1>2, <2>1 DEF Good, SignalsKept
    <3>3. NoCircle(saved'.on, saved'.out)
      BY <1>1, <2>1 DEF Good
    <3> QED
      BY <3>1, <3>2, <3>3 DEF Good
  <2>3. LimitMet' /\ NoSlack'
    BY <1>2, <1>4 DEF LimitMet, NoSlack
  <2> QED
    BY <2>2, <2>3
<1>5. CASE ~Regresses
  <2>1. net' = net /\ saved' = net /\ HalfWay /\ Exactly /\ OneDriver(net)
    BY <1>1, <1>2, <1>3, <1>5
  <2>2. Good(saved)'
    <3>1. OneDriver(saved)'
      BY <2>1 DEF OneDriver
    <3>2. SignalsKept(saved)'
      <4>1. SignalsKept(net)
        BY <2>1 DEF HalfWay
      <4> QED
        BY <1>2, <2>1, <4>1 DEF SignalsKept
    <3>3. NoCircle(saved'.on, saved'.out)
      <4>1. Advanced = net.on
        BY <1>1, <1>2, AdvancedAtRest
      <4> QED
        BY <2>1, <4>1 DEF HalfWay
    <3> QED
      BY <3>1, <3>2, <3>3 DEF Good
  <2>3. \A n : Load(net', n) = Staying(n) /\ Staying(n) = Settled(n) /\ Staying(n) \in Nat
    <3> SUFFICES ASSUME NEW n
                 PROVE  Load(net', n) = Staying(n) /\ Staying(n) = Settled(n) /\ Staying(n) \in Nat
      OBVIOUS
    <3>1. Sinks(net, n) \ call.rest = Sinks(net, n)
      BY <1>2
    <3>2. Load(net', n) = Staying(n)
      BY <2>1, <3>1 DEF Load, Staying, Portion
    <3>3. Staying(n) \in Nat
      BY <1>1, StayingIsNat
    <3>4. Settled(n) = Staying(n) + 0
      BY <1>2 DEF Settled
    <3> QED
      BY <3>2, <3>3, <3>4
  <2>4. /\ reply'.limit = call.limit /\ reply'.wanted = call.wanted
        /\ reply'.made = call.made /\ reply'.targets = call.targets
    BY <1>2
  <2>5. LimitMet'
    <3> SUFFICES ASSUME reply'.limit >= 2, NEW n \in reply'.wanted \cup reply'.made
                 PROVE  Load(net', n) <= reply'.limit
      BY DEF LimitMet
    <3>1. Staying(n) <= call.limit
      BY <1>2, <2>1, <2>4 DEF HalfWay
    <3> QED
      BY <2>3, <2>4, <3>1
  <2>6. NoSlack'
    <3>1. \A n \in reply'.targets : Load(net', n) = reply'.limit
      BY <1>2, <2>1, <2>3, <2>4 DEF Exactly
    <3>2. \A n \in reply'.made : Load(net', n) >= 2
      BY <2>1, <2>3, <2>4 DEF Exactly
    <3>3. {n \in reply'.made : Load(net', n) < reply'.limit} = Slack
      BY <2>3, <2>4 DEF Slack
    <3>4. Cardinality(Slack) <= Cardinality(call.targets)
      <4>1. /\ Cardinality(call.targets) \in Nat /\ Cardinality(Slack) \in Nat
            /\ Cardinality(DOMAIN call.todo) \in Nat
        BY <1>1, <1>2, CallSetsFinite
      <4>2. Cardinality(Slack) + Cardinality(DOMAIN call.todo) <= Cardinality(call.targets)
        <5>1. Exactly /\ call.rest = {}
          BY <1>2, <2>1
        <5> QED
          BY <4>1, <5>1 DEF Exactly
      <4> QED
        BY <4>1, <4>2
    <3> QED
      BY <2>4, <3>1, <3>2, <3>3, <3>4 DEF NoSlack
  <2> QED
    BY <2>2, <2>5, <2>6
<1> QED
  BY <1>4, <1>5

-----------------------------------------------------------------------------
(* The invariant.                                                          *)

LEMMA InitIInv == Init => IInv
<1> SUFFICES ASSUME Init PROVE IInv
  OBVIOUS
<1>1. /\ net.on = home /\ net.out = <<>> /\ net.named = [k \in CtrlNames |-> 0]
      /\ net.root = [n \in DesignNets |-> n]
      /\ saved = net /\ call = Idle /\ reply = NoReply
  BY DEF Init
<1>2. Shapes
  BY InitShapes
<1>3. DOMAIN net.out = {}
  BY <1>1
<1>4. NamesAccounted(net)
  BY <1>1 DEF NamesAccounted
<1>5. Good(net)
  <2>1. OneDriver(net)
    BY <1>3 DEF OneDriver
  <2>2. SignalsKept(net)
    <3>1. \A p \in Pins : home[p] \in DesignNets
      BY <1>2 DEF Shapes
    <3> QED
      BY <1>1, <1>3, <3>1 DEF SignalsKept
  <2>3. NoCircle(net.on, net.out)
    BY <1>3 DEF NoCircle
  <2> QED
    BY <2>1, <2>2, <2>3 DEF Good
<1>6. LimitMet /\ NoSlack
  BY <1>1, IdleFacts DEF LimitMet, NoSlack
<1> QED
  BY <1>1, <1>2, <1>4, <1>5, <1>6, IdleFacts DEF IInv

(* While a command is being served there is no report, and the netlist for *)
(* a rollback stays.                                                       *)
LEMMA ServingKeeps ==
  ASSUME IInv, UNCHANGED <<home, saved>>, reply' = NoReply
  PROVE  Good(saved)' /\ NamesAccounted(saved)' /\ LimitMet' /\ NoSlack'
<1>1. Good(saved) /\ NamesAccounted(saved)
  BY DEF IInv
<1>2. OneDriver(saved)' /\ SignalsKept(saved)' /\ NoCircle(saved'.on, saved'.out)
  BY <1>1 DEF Good, OneDriver, SignalsKept
<1>3. NamesAccounted(saved)'
  BY <1>1 DEF NamesAccounted
<1>4. LimitMet' /\ NoSlack'
  BY IdleFacts DEF LimitMet, NoSlack
<1> QED
  BY <1>2, <1>3, <1>4 DEF Good

LEMMA NextIInv ==
  ASSUME Takers \cap Inputs = {}, IInv, Next
  PROVE  IInv'
<1>1. /\ Shapes /\ NamesAccounted(net) /\ NamesAccounted(saved) /\ Good(saved)
      /\ (call.serving /\ OneDriver(net) => HalfWay /\ Exactly)
  BY DEF IInv
<1>2. Shapes'
  BY <1>1, ShapesStep
<1>3. CASE Begins
  <2>1. PICK W \in SUBSET (1..net.size), limit \in Nat :
          Begin(W, limit, TRUE) \/ Begin(W, limit, FALSE)
    BY <1>3 DEF Begins
  <2>2. UNCHANGED <<net, home, saved>> /\ reply' = NoReply
    BY <2>1 DEF Begin
  <2>3. HalfWay' /\ Exactly'
    BY <1>1, <2>1, BeginHalfWay, BeginExactly
  <2>4. NamesAccounted(net)'
    BY <1>1, <2>2 DEF NamesAccounted
  <2> QED
    BY <1>2, <2>2, <2>3, <2>4, ServingKeeps DEF IInv
<1>4. ASSUME NEW n \in 1..net.size, StartTarget(n) PROVE IInv'
  <2>1. call.serving /\ UNCHANGED <<net, home, saved, reply>>
    BY <1>4 DEF StartTarget
  <2>2. reply' = NoReply
    BY <1>1, <2>1 DEF Shapes
  <2>3. NamesAccounted(net)'
    BY <1>1, <2>1 DEF NamesAccounted
  <2>4. OneDriver(net)' => HalfWay' /\ Exactly'
    <3>1. OneDriver(net)' => OneDriver(net)
      BY <2>1 DEF OneDriver
    <3> QED
      BY <1>1, <1>4, <2>1, <3>1, StartTargetHalfWay, StartTargetExactly
  <2> QED
    BY <1>2, <2>1, <2>2, <2>3, <2>4, ServingKeeps DEF IInv
<1>5. CASE InsertBuffer
  <2>1. /\ call.serving /\ call.rest # {} /\ NewBuffer <= MaxBuffers
        /\ UNCHANGED <<home, saved, reply>>
    BY <1>5, InsertBufferEffect
  <2>2. PICK moved \in First(call.rest, Taken(call.limit, Cardinality(call.rest))) :
          Inserts(moved)
    BY <1>5, InsertBufferEffect
  <2>3. reply' = NoReply
    BY <1>1, <2>1 DEF Shapes
  <2>4. NamesAccounted(net)'
    BY <1>1, <2>1, <2>2, NamesInsert
  <2>5. OneDriver(net)' => HalfWay' /\ Exactly'
    <3> SUFFICES ASSUME OneDriver(net)' PROVE HalfWay' /\ Exactly'
      OBVIOUS
    <3>1. NewNet = net.size + 1 /\ OneDriver(net)
      BY <1>1, <2>1, <2>2, NewNetIsNew
    <3>2. Extends(moved)
      BY <1>1, <2>1, <2>2, <3>1 DEF Extends
    <3>3. Exactly
      BY <1>1, <2>1, <3>1
    <3> QED
      BY <2>1, <3>2, <3>3, InsertBufferHalfWay, InsertBufferExactly
  <2> QED
    BY <1>2, <2>1, <2>3, <2>4, <2>5, ServingKeeps DEF IInv
<1>6. CASE Finish
  <2>1. /\ net' = saved \/ net' = net
        /\ saved' = net' /\ call' = Idle
    BY <1>6 DEF Finish
  <2>2. NamesAccounted(net)' /\ NamesAccounted(saved)'
    BY <1>1, <2>1 DEF NamesAccounted
  <2>3. Good(saved)' /\ LimitMet' /\ NoSlack'
    BY <1>6, FinishGood
  <2> QED
    BY <1>2, <2>1, <2>2, <2>3, IdleFacts DEF IInv
<1>7. CASE Renames
  <2>1. ~call'.serving /\ reply' = NoReply
    BY <1>7 DEF Renames
  <2>2. NamesAccounted(net)' /\ NamesAccounted(saved)'
    BY <1>1, <1>7, NamesRename
  <2>3. Good(saved)'
    BY <1>1, <1>7, GoodRename
  <2>4. LimitMet' /\ NoSlack'
    BY <2>1, IdleFacts DEF LimitMet, NoSlack
  <2> QED
    BY <1>2, <2>1, <2>2, <2>3, <2>4 DEF IInv
<1> QED
  BY <1>1, <1>3, <1>4, <1>5, <1>6, <1>7, StepCases

LEMMA StutterIInv == IInv /\ UNCHANGED vars => IInv'
<1> SUFFICES ASSUME IInv, UNCHANGED vars PROVE IInv'
  OBVIOUS
<1>1. UNCHANGED <<net, home, call, saved, reply>>
  BY DEF vars
<1>2. Shapes'
  BY ShapesStep DEF IInv
<1>3. NamesAccounted(net)' /\ NamesAccounted(saved)'
  BY <1>1 DEF IInv, NamesAccounted
<1>4. OneDriver(saved)' /\ SignalsKept(saved)' /\ NoCircle(saved'.on, saved'.out)
  BY <1>1 DEF IInv, Good, OneDriver, SignalsKept
<1>5. OneDriver(net)' = OneDriver(net)
  BY <1>1 DEF OneDriver
<1>6. HalfWay' = HalfWay
  <2>1. SignalsKept(net)' = SignalsKept(net)
    BY <1>1 DEF SignalsKept
  <2>2. Advanced' = Advanced
    BY <1>1 DEF Advanced
  <2>3. \A n : StayingAfter(n) = Staying(n)
    BY <1>1 DEF StayingAfter, Staying
  <2> QED
    BY <1>1, <2>1, <2>2 DEF HalfWay, Staying, Portion
<1>7. Exactly' = Exactly
  <2>1. \A n : Settled(n)' = Settled(n)
    BY <1>1 DEF Settled, Staying, Portion
  <2>2. Slack' = Slack
    BY <1>1, <2>1 DEF Slack
  <2> QED
    BY <1>1, <2>1, <2>2 DEF Exactly, Load, Settled, Staying
<1>8. LimitMet'
  BY <1>1 DEF IInv, LimitMet, Load
<1>9. NoSlack'
  BY <1>1 DEF IInv, NoSlack, Load
<1>10. call'.serving = call.serving
  BY <1>1
<1>11. Good(saved)'
  BY <1>4 DEF Good
<1> QED
  BY <1>2, <1>3, <1>5, <1>6, <1>7, <1>8, <1>9, <1>10, <1>11 DEF IInv

LEMMA IInvMeans ==
  ASSUME IInv
  PROVE  SameSignal /\ NoLoop /\ LimitMet /\ NoSlack
<1>1. Shapes /\ Good(saved) /\ LimitMet /\ NoSlack
  BY DEF IInv
<1>2. CASE call.serving
  BY <1>1, <1>2 DEF SameSignal, NoLoop
<1>3. CASE ~call.serving
  <2>1. Good(net)
    BY <1>1, <1>3 DEF Shapes
  <2>2. SameSignal
    BY <2>1 DEF Good, SignalsKept, SameSignal
  <2>3. NoLoop
    BY <2>1 DEF Good, NoCircle, NoLoop
  <2> QED
    BY <1>1, <2>2, <2>3
<1> QED
  BY <1>2, <1>3

THEOREM IInvAlways ==
  ASSUME Takers \cap Inputs = {}
  PROVE  Spec => []IInv
<1>1. Init => IInv
  BY InitIInv
<1>2. IInv /\ [Next]_vars => IInv'
  BY NextIInv, StutterIInv
<1> QED
  BY <1>1, <1>2, PTL DEF Spec

(* Through any sequence of commands, rollbacks and renamings every pin     *)
(* keeps the signal it was loaded with.                                    *)
THEOREM SignalsStay ==
  ASSUME Takers \cap Inputs = {}
  PROVE  Spec => []SameSignal
<1>1. IInv => SameSignal
  BY IInvMeans
<1> QED
  BY <1>1, IInvAlways, PTL

(* The inserted buffers never come to feed one another in a circle.        *)
THEOREM NoBufferCircle ==
  ASSUME Takers \cap Inputs = {}
  PROVE  Spec => []NoLoop
<1>1. IInv => NoLoop
  BY IInvMeans
<1> QED
  BY <1>1, IInvAlways, PTL

(* A command that reports success leaves the nets it was asked about, and  *)
(* the nets of its own buffers, within the limit.                          *)
THEOREM LimitKept ==
  ASSUME Takers \cap Inputs = {}
  PROVE  Spec => []LimitMet
<1>1. IInv => LimitMet
  BY IInvMeans
<1> QED
  BY <1>1, IInvAlways, PTL

(* It has not inserted a buffer too many: what was overloaded is full, and *)
(* of each chain so is all but the last net.                               *)
THEOREM NothingWasted ==
  ASSUME Takers \cap Inputs = {}
  PROVE  Spec => []NoSlack
<1>1. IInv => NoSlack
  BY IInvMeans
<1> QED
  BY <1>1, IInvAlways, PTL
=============================================================================
