---------------------------- MODULE FanoutBuffers ----------------------------
(***************************************************************************)
(* Buffer insertion under a fanout limit (NetlistTransformation.cpp): the  *)
(* commands that buffer every net, a named net or bus, and the clock and   *)
(* reset nets of the flip-flops.  The three share their loop.  The sinks   *)
(* of every overloaded net are collected up front, some stay, and a chain  *)
(* of buffers takes the rest; the result is then validated and, if the     *)
(* structure got worse, the netlist is put back.                           *)
(*                                                                         *)
(* Nets and pins are ids.  Pins 1..NPins are the input pins of the         *)
(* design's own gates and pin NPins + b is the input of inserted buffer b. *)
(* Nets 1..NNets are the design's own (constant nets, which every command  *)
(* skips, are left out); a new net takes the next id.  Of the names only   *)
(* dff_ctrl_net_0, _1, ... are kept: the other two commands look for a     *)
(* name nobody has, dff_control does not.                                  *)
(***************************************************************************)
EXTENDS Naturals, FiniteSets, Sequences

CONSTANTS
  NPins,      \* input pins of the design's gates
  NNets,      \* nets of the design
  Inputs,     \* nets no gate drives (primary inputs)
  Ports,      \* primary output nets
  ClockPins,  \* CK pins of flip-flops
  ResetPins,  \* RN and SN pins of flip-flops
  Buses,      \* sets of nets that one bus name stands for
  Homes,      \* the ways the design's pins may be connected
  Takers,     \* design nets the user may rename to a dff_ctrl_net name
  MaxLimit,   \* bound: largest limit asked for
  MaxBuffers  \* bound: buffers ever inserted

Pins == 1..NPins
DesignNets == 1..NNets
CtrlNames == 0..MaxBuffers - 1
Roles == {"clock", "reset"}

ASSUME FanoutAssumption ==
  /\ {NPins, NNets, MaxLimit} \subseteq Nat
  /\ MaxBuffers \in Nat \ {0}
  /\ Inputs \cup Ports \cup Takers \subseteq DesignNets
  /\ ClockPins \cup ResetPins \subseteq Pins
  /\ Buses \subseteq SUBSET DesignNets
  /\ Homes \subseteq [Pins -> DesignNets]

VARIABLES
  net,    \* the netlist, described below
  home,   \* the net each design pin was on when the design was loaded
  call,   \* the command being served, or Idle
  saved,  \* the copy taken for a rollback (between commands: the netlist)
  reply   \* what the last command reported, or NoReply

vars == <<net, home, call, saved, reply>>

(***************************************************************************)
(* A netlist: on is the net of every pin, out the output net of every      *)
(* inserted buffer, size the number of nets, named the net that holds each *)
(* dff_ctrl_net name (0 if none does).  root is an auxiliary field: the    *)
(* design net whose value a net carries.                                   *)
(***************************************************************************)
BufferPin(b) == NPins + b
Sinks(nl, n) == {p \in DOMAIN nl.on : nl.on[p] = n}
Load(nl, n) == Cardinality(Sinks(nl, n)) + (IF n \in Ports THEN 1 ELSE 0)

Idle == [serving |-> FALSE]
NoReply == [kind |-> "none"]

\* A limit of L leaves L places; all but the last buffer need one for the next.
Kept(limit, n) == IF n \in Ports THEN limit - 2 ELSE limit - 1   \* limit >= 2
\* Mutant: No place is kept for the next buffer of the chain.
TakenWithoutReserve(limit, rest) == IF rest <= limit THEN rest ELSE limit
\* Mutant: The last buffer may not be full.
TakenStrict(limit, rest) == IF rest < limit THEN rest ELSE limit - 1
Taken(limit, rest) == IF rest <= limit THEN rest ELSE limit - 1
\* The first k sinks: load lists are in gate order, so in the order of pin ids.
First(S, k) ==
  {T \in SUBSET S : Cardinality(T) = k /\ \A p \in T, q \in S \ T : p < q}

Overloaded(W, limit) == {n \in W : Load(net, n) > limit}
RoleNets(roles) ==
  {net.on[p] : p \in (IF "clock" \in roles THEN ClockPins ELSE {})
                     \cup (IF "reset" \in roles THEN ResetPins ELSE {})}

(***************************************************************************)
(* Gates that output to a net whose driver is another gate.  No other      *)
(* structure category can change here: load lists are rebuilt at the end.  *)
(***************************************************************************)
NotDrivers(nl) ==
  Cardinality({b \in DOMAIN nl.out : \E c \in DOMAIN nl.out : c > b /\ nl.out[c] = nl.out[b]})
    + Cardinality({n \in DesignNets \ Inputs : \E b \in DOMAIN nl.out : nl.out[b] = n})
\* Mutant: The validation finds nothing.
RegressesNever == FALSE
Regresses == NotDrivers(net) > NotDrivers(saved)

Init ==
  /\ home \in Homes
  /\ net = [on |-> home, out |-> <<>>, size |-> NNets,
            named |-> [k \in CtrlNames |-> 0], root |-> [n \in DesignNets |-> n]]
  /\ saved = net
  /\ call = Idle
  /\ reply = NoReply

\* Bound: the buffers the chains of the targets will take are available.
ChainLength(n, limit) ==
  Cardinality({k \in 0..Load(net, n) : k * (limit - 1) < Load(net, n) - limit})
HasRoom(targets, limit) ==
  Len(net.out) + Cardinality(UNION {{n} \X (1..ChainLength(n, limit)) : n \in targets})
    <= MaxBuffers

Begin(W, limit, ctrl) ==
  LET targets == IF limit >= 2 THEN Overloaded(W, limit) ELSE {} IN
  /\ ~call.serving
  /\ HasRoom(targets, limit)
  /\ call' = [serving |-> TRUE, wanted |-> W, limit |-> limit, ctrl |-> ctrl, targets |-> targets,
              todo |-> [n \in targets |-> Sinks(net, n)], source |-> 0, rest |-> {}, made |-> {},
              counter |-> 0]
  /\ reply' = NoReply
  /\ UNCHANGED <<net, home, saved>>

InsertBuffersForFanout(limit) == Begin(1..net.size, limit, FALSE)
InsertBuffersForSpecificNet(W, limit) == Begin(W, limit, FALSE)
InsertBuffersForDffControl(roles, limit) == Begin(RoleNets(roles), limit, TRUE)

\* The next overloaded net: which of its sinks stay.
StartTarget(n) ==
  /\ call.serving /\ call.rest = {} /\ n \in DOMAIN call.todo
  /\ \E stay \in First(call.todo[n], Kept(call.limit, n)) :
       call' = [call EXCEPT !.rest = call.todo[n] \ stay, !.source = n,
                            !.todo = [m \in DOMAIN call.todo \ {n} |-> call.todo[m]]]
  /\ UNCHANGED <<net, home, saved, reply>>

\* addNet returns the net that has the name, if there is one.
NetFor(ctrl, counter) ==
  IF ctrl /\ net.named[counter] # 0 THEN net.named[counter] ELSE net.size + 1

InsertBuffer ==
  LET b == Len(net.out) + 1
      o == NetFor(call.ctrl, call.counter)
  IN
  /\ call.serving /\ call.rest # {} /\ b <= MaxBuffers
  /\ \E moved \in First(call.rest, Taken(call.limit, Cardinality(call.rest))) :
       /\ net' = [on |-> [p \in DOMAIN net.on \cup {BufferPin(b)} |->
                            IF p \in moved THEN o
                            ELSE IF p = BufferPin(b) THEN call.source ELSE net.on[p]],
                  out |-> Append(net.out, o),
                  size |-> IF o > net.size THEN o ELSE net.size,
                  named |-> IF call.ctrl THEN [net.named EXCEPT ![call.counter] = o] ELSE net.named,
                  root |-> [n \in DOMAIN net.root \cup {o} |->
                              IF n = o THEN net.root[call.source] ELSE net.root[n]]]
       /\ call' = [call EXCEPT !.rest = @ \ moved, !.source = o, !.made = @ \cup {o},
                               !.counter = IF call.ctrl THEN @ + 1 ELSE @]
  /\ UNCHANGED <<home, saved, reply>>

\* Mutant: The rollback puts gates and nets back and forgets the name table.
FinishKeepingNames ==
  /\ call.serving /\ call.rest = {} /\ DOMAIN call.todo = {}
  /\ net' = IF Regresses THEN [saved EXCEPT !.named = net.named] ELSE net
  /\ reply' = [kind |-> IF Regresses THEN "rolled back" ELSE "done", wanted |-> call.wanted,
               limit |-> call.limit, targets |-> call.targets, made |-> call.made]
  /\ call' = Idle
  /\ saved' = net'
  /\ UNCHANGED home

\* Load lists are rebuilt, the result validated, and put back if it got worse.
Finish ==
  /\ call.serving /\ call.rest = {} /\ DOMAIN call.todo = {}
  /\ net' = IF Regresses THEN saved ELSE net
  /\ reply' = [kind |-> IF Regresses THEN "rolled back" ELSE "done", wanted |-> call.wanted,
               limit |-> call.limit, targets |-> call.targets, made |-> call.made]
  /\ call' = Idle
  /\ saved' = net'
  /\ UNCHANGED home

\* renameNet: the holder of a dff_ctrl_net name gets another one.
RenameAway(k) ==
  /\ ~call.serving /\ net.named[k] # 0
  /\ net' = [net EXCEPT !.named[k] = 0]
  /\ reply' = NoReply
  /\ saved' = net'
  /\ UNCHANGED <<home, call>>

\* renameNet: a net takes a dff_ctrl_net name, unless the name is in use.
RenameOnto(n, k) ==
  /\ ~call.serving /\ net.named[k] = 0
  /\ net' = [net EXCEPT !.named = [j \in CtrlNames |-> IF j = k THEN n
                                                       ELSE IF @[j] = n THEN 0 ELSE @[j]]]
  /\ reply' = NoReply
  /\ saved' = net'
  /\ UNCHANGED <<home, call>>

Serve == InsertBuffer \/ Finish \/ \E n \in 1..net.size : StartTarget(n)

Next ==
  \/ \E limit \in 0..MaxLimit :
       \/ InsertBuffersForFanout(limit)
       \/ \E W \in Buses \cup {{n} : n \in 1..net.size} : InsertBuffersForSpecificNet(W, limit)
       \/ \E roles \in SUBSET Roles : InsertBuffersForDffControl(roles, limit)
  \/ Serve
  \/ \E k \in CtrlNames : RenameAway(k) \/ \E n \in Takers : RenameOnto(n, k)

Spec == Init /\ [][Next]_vars
-----------------------------------------------------------------------------
\* Every id a netlist mentions is an id it has: pins and names refer to nets
\* that exist, also after a rollback took nets away.
WellFormed(nl) ==
  /\ DOMAIN nl.on = 1..NPins + Len(nl.out)
  /\ DOMAIN nl.root = 1..nl.size
  /\ \A p \in DOMAIN nl.on : nl.on[p] \in 1..nl.size
  /\ \A b \in DOMAIN nl.out : nl.out[b] \in 1..nl.size
  /\ \A k \in CtrlNames : nl.named[k] \in 0..nl.size
  /\ \A n \in 1..nl.size : nl.root[n] \in DesignNets

\* The types, and that the netlist is well formed at every step.
TypeOK ==
  /\ net.size \in NNets..NNets + MaxBuffers
  /\ Len(net.out) <= MaxBuffers
  /\ home \in [Pins -> DesignNets]
  /\ WellFormed(net) /\ WellFormed(saved)
  /\ call.serving => /\ call.source \in 0..net.size
                     /\ call.rest \subseteq DOMAIN net.on
                     /\ call.made \subseteq 1..net.size
  /\ reply.kind \in {"none", "done", "rolled back"}

\* What a command that reports success leaves behind keeps the limit it was
\* given: on the nets it was asked about and on the nets of its own buffers
\* (the command redistributes loads, insertBuffersForFanout and its kin).
LimitMet ==
  (reply.kind = "done" /\ reply.limit >= 2) =>
     \A n \in reply.wanted \cup reply.made : Load(net, n) <= reply.limit

\* No buffer is wasted: an overloaded net and every net of its chain but the
\* last carry exactly the limit, and no buffer is there for a single load.
NoSlack ==
  reply.kind = "done" =>
     /\ \A n \in reply.targets : Load(net, n) = reply.limit
     /\ \A n \in reply.made : Load(net, n) >= 2
     /\ Cardinality({n \in reply.made : Load(net, n) < reply.limit})
          <= Cardinality(reply.targets)

\* Between commands every pin of the design still carries the net it was on
\* when the design was loaded, through whatever buffers were inserted: what
\* "BUF gates that preserve each moved load function" certifies.
SameSignal ==
  ~call.serving =>
     /\ \A p \in Pins : net.root[net.on[p]] = home[p]
     /\ \A b \in DOMAIN net.out : net.root[net.out[b]] = net.root[net.on[BufferPin(b)]]

\* Between commands no buffers feed one another in a circle, although later
\* commands put earlier buffers behind their own.
NoLoop ==
  ~call.serving =>
     \A B \in (SUBSET DOMAIN net.out) \ {{}} :
        \E b \in B : \A c \in B : net.on[BufferPin(b)] # net.out[c]

\* The names of inserted gates and nets do not clash on repeated passes (the
\* comment above makeUniqueGateName), so no insertion is ever rolled back.
NeverRolledBack == reply.kind # "rolled back"
=============================================================================
