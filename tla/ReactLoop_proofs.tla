------------------------- MODULE ReactLoop_proofs ---------------------------
(***************************************************************************)
(* Proofs about ReactLoop, for any edits, any workflows and any number of  *)
(* turns: what the loop remembers of a request agrees with what was run.   *)
(***************************************************************************)
EXTENDS ReactLoop, TLAPS

-----------------------------------------------------------------------------
(* Commands, replies, and what a command makes of a session.               *)

LEMMA CommandFacts ==
  ASSUME NEW c \in Commands
  PROVE  /\ c.verb = "edit" => c.arg \in Edits
         /\ c.verb = "read" => c.arg \in Files
BY DEF Commands

LEMMA ReplyFacts ==
  ASSUME NEW c \in Commands, NEW ok \in BOOLEAN, NEW complete \in BOOLEAN,
         NEW status \in {"ok", "no_change", "partial", "timeout", "unsupported", "error"}
  PROVE  /\ Reply(c, ok, status, complete) \in Replies
         /\ Reply(c, ok, status, complete).to = c
         /\ Reply(c, ok, status, complete).ok = ok
         /\ ~Reply(c, ok, status, complete).changed
BY DEF Reply, Replies

LEMMA RefusedFacts ==
  ASSUME NEW c \in Commands
  PROVE  /\ Refused(c) \in Replies /\ Refused(c).to = c
         /\ ~Refused(c).ok /\ ~Refused(c).changed
BY ReplyFacts DEF Refused

(* An edit is refused before it runs, or it ran and reports what it did.   *)
LEMMA EditCases ==
  ASSUME NEW s, NEW c \in Commands, NEW o \in EditOutcomes(s, c)
  PROVE  /\ o[2] \in Replies /\ o[2].to = c
         /\ \/ o[1] = s /\ ~o[2].changed
            \/ \E changed \in BOOLEAN :
                 o[1] = Ran(s, c.arg, changed) /\ o[2].changed = changed
<1>1. CASE o = <<s, Refused(c)>>
  BY <1>1, RefusedFacts
<1>2. CASE o # <<s, Refused(c)>>
  <2>1. PICK end \in [ok : BOOLEAN, changed : BOOLEAN, late : BOOLEAN, optimizer : BOOLEAN] :
          o = <<Ran(s, c.arg, end.changed),
                [Reply(c, end.ok, EditStatus(end.ok, end.changed, end.late),
                       end.ok /\ (end.optimizer \/ ~end.late))
                   EXCEPT !.changed = end.changed]>>
    BY <1>2 DEF EditOutcomes
  <2>2. EditStatus(end.ok, end.changed, end.late)
          \in {"ok", "no_change", "partial", "timeout", "unsupported", "error"}
    BY DEF EditStatus
  <2>3. end.ok \in BOOLEAN /\ end.changed \in BOOLEAN
        /\ (end.ok /\ (end.optimizer \/ ~end.late)) \in BOOLEAN
    OBVIOUS
  <2>4. Reply(c, end.ok, EditStatus(end.ok, end.changed, end.late),
              end.ok /\ (end.optimizer \/ ~end.late)) \in Replies
    BY <2>2, <2>3, ReplyFacts
  <2>5. Reply(c, end.ok, EditStatus(end.ok, end.changed, end.late),
              end.ok /\ (end.optimizer \/ ~end.late)).to = c
    BY <2>2, <2>3, ReplyFacts
  <2>6. o[2] \in Replies /\ o[2].to = c /\ o[2].changed = end.changed
    BY <2>1, <2>3, <2>4, <2>5 DEF Replies
  <2> QED
    BY <2>1, <2>3, <2>6
<1> QED
  BY <1>1, <1>2

(* The queries leave the session alone.                                    *)
LEMMA QueryCases ==
  ASSUME NEW s, NEW c \in Commands, NEW o \in QueryOutcomes(s, c)
  PROVE  o[2] \in Replies /\ o[2].to = c /\ o[1] = s /\ ~o[2].changed
<1> DEFINE Fine(r) == r \in Replies /\ r.to = c /\ ~r.changed
<1>1. Fine(Reply(c, TRUE, "ok", TRUE)) /\ Fine(Reply(c, TRUE, "partial", FALSE))
  BY ReplyFacts
<1>2. Fine(Reply(c, FALSE, "timeout", FALSE)) /\ Fine(Reply(c, FALSE, "unsupported", FALSE))
  BY ReplyFacts
<1>3. Fine(Refused(c))
  BY RefusedFacts
<1>4. PICK r : o = <<s, r>> /\ r \in
        CASE c.verb = "write" ->
               {Reply(c, TRUE, "ok", TRUE), Refused(c)}
          [] c.verb = "equiv_query" /\ (c.arg = "original" \/ s.baseline # NoDesign) ->
               {Reply(c, TRUE, "ok", TRUE), Reply(c, TRUE, "partial", FALSE),
                Reply(c, FALSE, "timeout", FALSE),
                Reply(c, FALSE, "unsupported", FALSE), Refused(c)}
          [] c.verb = "report_query" /\ s.report # NoReport ->
               {Reply(c, TRUE, "ok", TRUE)}
          [] OTHER -> {Refused(c)}
  BY DEF QueryOutcomes
<1>5. r \in {Reply(c, TRUE, "ok", TRUE), Reply(c, TRUE, "partial", FALSE),
             Reply(c, FALSE, "timeout", FALSE),
             Reply(c, FALSE, "unsupported", FALSE), Refused(c)}
  BY <1>4
<1>6. Fine(r)
  BY <1>1, <1>2, <1>3, <1>5
<1> QED
  BY <1>4, <1>6

(* A command leaves the session, or is an edit that ran, a read that       *)
(* succeeded, or the end.                                                  *)
LEMMA OutcomeCases ==
  ASSUME NEW s, NEW c \in Commands, NEW o \in Outcomes(s, c)
  PROVE  /\ o[2] \in Replies /\ o[2].to = c
         /\ \/ /\ o[1] = s /\ ~o[2].changed /\ c.verb # "quit"
               /\ c.verb = "read" => ~o[2].ok /\ c.arg \notin Readable
            \/ /\ c.verb = "edit" /\ s.loaded
               /\ \E changed \in BOOLEAN :
                    o[1] = Ran(s, c.arg, changed) /\ o[2].changed = changed
            \/ /\ c.verb = "read" /\ c.arg \in Readable
               /\ o[1] = Loaded(s, c.arg) /\ o[2].ok /\ ~o[2].changed
            \/ c.verb = "quit" /\ o[1] = BlankSession
<1>0. LET r == Reply(c, TRUE, "ok", TRUE) IN r \in Replies /\ r.to = c /\ r.ok /\ ~r.changed
  BY ReplyFacts
<1>1. CASE c.verb = "quit"
  <2>1. o = <<BlankSession, Reply(c, TRUE, "ok", TRUE)>>
    BY <1>1 DEF Outcomes
  <2> QED
    BY <1>0, <1>1, <2>1
<1>2. CASE c.verb = "read"
  <2>1. o \in ReadOutcomes(s, c)
    BY <1>2 DEF Outcomes
  <2>2. CASE c.arg \in Readable
    <3>1. o = <<Loaded(s, c.arg), Reply(c, TRUE, "ok", TRUE)>>
      BY <2>1, <2>2 DEF ReadOutcomes
    <3> QED
      BY <1>0, <1>2, <2>2, <3>1
  <2>3. CASE c.arg \notin Readable
    <3>1. o = <<s, Refused(c)>>
      BY <2>1, <2>3 DEF ReadOutcomes
    <3> QED
      BY <1>2, <2>3, <3>1, RefusedFacts
  <2> QED
    BY <2>2, <2>3
<1>3. CASE c.verb \notin {"quit", "read"} /\ ~s.loaded
  <2>1. o = <<s, Refused(c)>>
    BY <1>3 DEF Outcomes
  <2> QED
    BY <1>3, <2>1, RefusedFacts
<1>4. CASE c.verb = "edit" /\ s.loaded
  <2>1. o \in EditOutcomes(s, c)
    BY <1>4 DEF Outcomes
  <2> QED
    BY <1>4, <2>1, EditCases
<1>5. CASE c.verb \notin {"quit", "read", "edit"} /\ s.loaded
  <2>1. o \in QueryOutcomes(s, c)
    BY <1>5 DEF Outcomes
  <2> QED
    BY <1>5, <2>1, QueryCases
<1> QED
  BY <1>1, <1>2, <1>3, <1>4, <1>5

-----------------------------------------------------------------------------
(* Designs and sessions.                                                   *)

LEMMA EditedFacts ==
  ASSUME NEW d \in AnyDesign, NEW e \in Edits
  PROVE  /\ Edited(d, e) \in AnyDesign
         /\ Edited(d, e).file = d.file
         /\ Edited(d, e).edits = Append(d.edits, e)
         /\ Len(Edited(d, e).edits) = Len(d.edits) + 1
BY DEF Edited, AnyDesign

LEMMA FreshFacts ==
  ASSUME NEW f \in Files \cup {NoFile}
  PROVE  /\ Fresh(f) \in AnyDesign /\ Fresh(f).file = f
         /\ Fresh(f).edits = <<>> /\ Len(Fresh(f).edits) = 0
BY DEF Fresh, AnyDesign

LEMMA NoDesignFacts ==
  NoDesign \in AnyDesign /\ NoDesign.file = NoFile /\ NoDesign.edits = <<>>
BY DEF NoDesign, AnyDesign

LEMMA BlankFacts == SessionOK(BlankSession)
BY NoDesignFacts DEF SessionOK, BlankSession, NoReport, NoDesign

(* The session after an edit that ran.                                     *)
LEMMA RanFacts ==
  ASSUME NEW s, SessionOK(s), s.loaded, NEW e \in Edits, NEW changed \in BOOLEAN
  PROVE  /\ SessionOK(Ran(s, e, changed))
         /\ Ran(s, e, changed).loaded
         /\ Ran(s, e, changed).current = IF changed THEN Edited(s.current, e) ELSE s.current
         /\ Ran(s, e, changed).current.file = s.current.file
<1> DEFINE t == Ran(s, e, changed)
<1>1. s.current \in AnyDesign /\ s.current.file \in Files /\ s.revision \in Nat
  BY DEF SessionOK
<1>2. /\ t.current = IF changed THEN Edited(s.current, e) ELSE s.current
      /\ t.report = [edit |-> e, changed |-> changed]
      /\ t.baseline = s.current /\ t.loaded = s.loaded /\ t.original = s.original
      /\ t.revision = IF changed THEN s.revision + 1 ELSE s.revision
  BY DEF Ran, SessionOK
<1>3. t.current \in AnyDesign /\ t.current.file = s.current.file
  BY <1>1, <1>2, EditedFacts
<1>4. SessionOK(t)
  <2>1. t \in [loaded : BOOLEAN, current : AnyDesign, original : AnyDesign,
               baseline : AnyDesign,
               report : [edit : Edits \cup {NoFile}, changed : BOOLEAN], revision : Nat]
    <3>1. [edit |-> e, changed |-> changed] \in [edit : Edits \cup {NoFile}, changed : BOOLEAN]
      OBVIOUS
    <3>2. Edited(s.current, e) \in AnyDesign /\ s.revision + 1 \in Nat
      BY <1>1, EditedFacts
    <3>3. CASE changed
      <4>1. t = [s EXCEPT !.report = [edit |-> e, changed |-> changed],
                          !.baseline = s.current, !.current = Edited(s.current, e),
                          !.revision = s.revision + 1]
        BY <3>3 DEF Ran
      <4> QED
        BY <1>1, <3>1, <3>2, <4>1 DEF SessionOK
    <3>4. CASE ~changed
      BY <1>1, <3>1, <3>4 DEF Ran, SessionOK
    <3> QED
      BY <3>3, <3>4
  <2> QED
    BY <1>1, <1>2, <1>3, <2>1 DEF SessionOK
<1> QED
  BY <1>2, <1>3, <1>4

(* The session after a read that succeeded.                                *)
LEMMA LoadedFacts ==
  ASSUME NEW s, SessionOK(s), NEW f \in Files
  PROVE  /\ SessionOK(Loaded(s, f))
         /\ Loaded(s, f).loaded /\ Loaded(s, f).current = Fresh(f)
<1> DEFINE t == Loaded(s, f)
<1>1. /\ t.loaded = TRUE /\ t.current = Fresh(f) /\ t.original = Fresh(f)
      /\ t.baseline = NoDesign /\ t.report = NoReport /\ t.revision = 0
  BY DEF Loaded, SessionOK
<1>2. NoReport \in [edit : Edits \cup {NoFile}, changed : BOOLEAN]
  BY DEF NoReport
<1>3. t \in [loaded : BOOLEAN, current : AnyDesign, original : AnyDesign,
             baseline : AnyDesign,
             report : [edit : Edits \cup {NoFile}, changed : BOOLEAN], revision : Nat]
  BY <1>2, FreshFacts, NoDesignFacts DEF Loaded, SessionOK
<1>4. SessionOK(t)
  BY <1>1, <1>3, FreshFacts DEF SessionOK
<1> QED
  BY <1>1, <1>4

LEMMA OutcomesFine ==
  ASSUME NEW s, SessionOK(s), NEW c \in Commands, NEW o \in Outcomes(s, c)
  PROVE  SessionOK(o[1])
BY OutcomeCases, CommandFacts, RanFacts, LoadedFacts, BlankFacts

-----------------------------------------------------------------------------
(* Positions in a ledger that grows.                                       *)

(* A list of positions with the next one behind it.                        *)
Extended(at, n, m) == [i \in 1 .. n + 1 |-> IF i <= n THEN at[i] ELSE m + 1]

LEMMA ExtendedFacts ==
  ASSUME NEW n \in Nat, NEW m \in Nat, NEW at \in [1 .. n -> 1 .. m], Increasing(at)
  PROVE  /\ Extended(at, n, m) \in [1 .. n + 1 -> 1 .. m + 1]
         /\ Increasing(Extended(at, n, m))
         /\ \A i \in 1 .. n : Extended(at, n, m)[i] = at[i]
         /\ Extended(at, n, m)[n + 1] = m + 1
<1> DEFINE b == Extended(at, n, m)
<1>1. DOMAIN b = 1 .. n + 1 /\ DOMAIN at = 1 .. n
  BY DEF Extended
<1>2. \A i \in 1 .. n : b[i] = at[i]
  BY DEF Extended
<1>3. b[n + 1] = m + 1
  BY DEF Extended
<1>4. b \in [1 .. n + 1 -> 1 .. m + 1]
  <2>1. \A i \in 1 .. n + 1 : (IF i <= n THEN at[i] ELSE m + 1) \in 1 .. m + 1
    OBVIOUS
  <2> QED
    BY <2>1 DEF Extended
<1>5. ASSUME NEW i \in 1 .. n + 1, NEW j \in 1 .. n + 1, i < j
      PROVE  b[i] < b[j]
  <2>1. i \in 1 .. n /\ b[i] = at[i] /\ at[i] \in 1 .. m
    BY <1>2, <1>5
  <2>2. CASE j = n + 1
    BY <1>3, <2>1, <2>2
  <2>3. CASE j # n + 1
    <3>1. j \in 1 .. n /\ b[j] = at[j]
      BY <1>2, <2>3
    <3> QED
      BY <1>1, <1>5, <2>1, <3>1 DEF Increasing
  <2> QED
    BY <2>2, <2>3
<1>6. Increasing(b)
  BY <1>1, <1>5 DEF Increasing
<1> QED
  BY <1>2, <1>3, <1>4, <1>6

LEMMA LedgerFacts ==
  ASSUME NEW led \in Seq(Results), NEW rec \in Results
  PROVE  /\ Len(led) \in Nat /\ DOMAIN led = 1 .. Len(led)
         /\ Append(led, rec) \in Seq(Results)
         /\ Len(Append(led, rec)) = Len(led) + 1
         /\ DOMAIN Append(led, rec) = 1 .. Len(led) + 1
         /\ \A k \in 1 .. Len(led) : Append(led, rec)[k] = led[k]
         /\ Append(led, rec)[Len(led) + 1] = rec
OBVIOUS

-----------------------------------------------------------------------------
(* The stages done, in a ledger. LaidOut is StagesInOrder for the stages   *)
(* at given positions.                                                     *)

LaidOut(at, led, w, n) ==
  /\ at \in [1 .. n -> DOMAIN led]
  /\ Increasing(at)
  /\ \A i \in 1 .. n : Counts(led[at[i]]) /\ led[at[i]].command = Stage(w[i])
  /\ \A k \in DOMAIN led :
       /\ Counts(led[k])
       /\ n > 0 /\ at[1] <= k
       /\ n < Len(w) \/ k <= at[n]
       => \E i \in 1 .. n : at[i] = k

LEMMA NoStageLaidOut ==
  ASSUME NEW led, NEW w
  PROVE  \E at : LaidOut(at, led, w, 0)
<1> DEFINE at == [i \in 1 .. 0 |-> i]
<1>1. 1 .. 0 = {}
  OBVIOUS
<1>2. at \in [1 .. 0 -> DOMAIN led] /\ Increasing(at)
  BY <1>1 DEF Increasing
<1>3. LaidOut(at, led, w, 0)
  BY <1>1, <1>2 DEF LaidOut
<1> QED
  BY <1>3

(* A result that is no stage leaves the stages where they are.             *)
LEMMA OtherResult ==
  ASSUME NEW led \in Seq(Results), NEW rec \in Results, NEW w, NEW n \in Nat,
         NEW size \in Nat, size = Len(w), n <= size,
         n < size => ~Counts(rec),
         NEW at, LaidOut(at, led, w, n)
  PROVE  LaidOut(at, Append(led, rec), w, n)
<1> DEFINE now == Append(led, rec)
           m == Len(led)
<1>1. /\ m \in Nat /\ DOMAIN led = 1 .. m /\ DOMAIN now = 1 .. m + 1
      /\ now[m + 1] = rec
  BY LedgerFacts
<1>2. \A k \in 1 .. m : now[k] = led[k]
  BY LedgerFacts
<1>3. at \in [1 .. n -> 1 .. m] /\ Increasing(at)
  BY <1>1 DEF LaidOut
<1> HIDE DEF now, m
<1>4. \A i \in 1 .. n : at[i] \in 1 .. m
  BY <1>3
<1>5. at \in [1 .. n -> 1 .. m + 1]
  <2>1. 1 .. m \subseteq 1 .. m + 1
    BY <1>1
  <2> QED
    BY <1>3, <2>1
<1>6. \A i \in 1 .. n : Counts(now[at[i]]) /\ now[at[i]].command = Stage(w[i])
  BY <1>2, <1>4 DEF LaidOut
<1>7. ASSUME NEW k \in 1 .. m + 1, Counts(now[k]), n > 0, at[1] <= k,
             n < size \/ k <= at[n]
      PROVE  \E i \in 1 .. n : at[i] = k
  <2>1. k # m + 1
    <3>1. n \in 1 .. n
      BY <1>7
    <3>2. at[n] \in 1 .. m
      BY <1>4, <3>1
    <3>3. CASE n < size
      BY <1>1, <1>7, <3>3
    <3>4. CASE k <= at[n]
      BY <1>1, <3>2, <3>4
    <3> QED
      BY <1>7, <3>3, <3>4
  <2>2. k \in 1 .. m /\ now[k] = led[k]
    BY <1>1, <1>2, <2>1
  <2> QED
    BY <1>1, <1>7, <2>2 DEF LaidOut
<1>8. at \in [1 .. n -> DOMAIN now] /\ Increasing(at)
  BY <1>1, <1>3, <1>5
<1>9. ASSUME NEW k \in DOMAIN now, Counts(now[k]), n > 0 /\ at[1] <= k,
             n < Len(w) \/ k <= at[n]
      PROVE  \E i \in 1 .. n : at[i] = k
  BY <1>1, <1>7, <1>9
<1>10. LaidOut(at, now, w, n)
  BY <1>6, <1>8, <1>9 DEF LaidOut
<1> QED
  BY <1>10 DEF now

(* A result that is the next stage is laid out behind them.                *)
LEMMA StageResult ==
  ASSUME NEW led \in Seq(Results), NEW rec \in Results, NEW w, NEW n \in Nat,
         NEW size \in Nat, size = Len(w), n < size,
         Counts(rec), rec.command = Stage(w[n + 1]),
         NEW at, LaidOut(at, led, w, n)
  PROVE  LaidOut(Extended(at, n, Len(led)), Append(led, rec), w, n + 1)
<1> DEFINE now == Append(led, rec)
           m == Len(led)
           b == Extended(at, n, m)
<1>1. /\ m \in Nat /\ DOMAIN led = 1 .. m /\ DOMAIN now = 1 .. m + 1
      /\ now[m + 1] = rec
  BY LedgerFacts
<1>2. \A k \in 1 .. m : now[k] = led[k]
  BY LedgerFacts
<1>3. at \in [1 .. n -> 1 .. m] /\ Increasing(at)
  BY <1>1 DEF LaidOut
<1> HIDE DEF now, m, b
<1>4. \A i \in 1 .. n : at[i] \in 1 .. m
  BY <1>3
<1>5. /\ b \in [1 .. n + 1 -> 1 .. m + 1] /\ Increasing(b)
      /\ \A i \in 1 .. n : b[i] = at[i]
      /\ b[n + 1] = m + 1
  <2>1. /\ Extended(at, n, m) \in [1 .. n + 1 -> 1 .. m + 1]
        /\ Increasing(Extended(at, n, m))
        /\ \A i \in 1 .. n : Extended(at, n, m)[i] = at[i]
        /\ Extended(at, n, m)[n + 1] = m + 1
    BY <1>1, <1>3, ExtendedFacts
  <2> QED
    BY <2>1 DEF b
<1>6. ASSUME NEW i \in 1 .. n + 1
      PROVE  Counts(now[b[i]]) /\ now[b[i]].command = Stage(w[i])
  <2>1. CASE i = n + 1
    BY <1>1, <1>5, <2>1
  <2>2. CASE i # n + 1
    <3>1. i \in 1 .. n /\ b[i] = at[i] /\ at[i] \in 1 .. m
      BY <1>4, <1>5, <2>2
    <3>2. now[b[i]] = led[at[i]]
      BY <1>2, <3>1
    <3> QED
      BY <3>1, <3>2 DEF LaidOut
  <2> QED
    BY <2>1, <2>2
<1>7. ASSUME NEW k \in 1 .. m + 1, Counts(now[k]), b[1] <= k
      PROVE  \E i \in 1 .. n + 1 : b[i] = k
  <2>1. CASE k = m + 1
    <3>1. n + 1 \in 1 .. n + 1
      OBVIOUS
    <3> QED
      BY <1>5, <2>1, <3>1
  <2>2. CASE k # m + 1
    <3>1. k \in 1 .. m /\ now[k] = led[k]
      BY <1>1, <1>2, <2>2
    <3>2. n > 0
      <4>1. n = 0 => b[1] = m + 1
        BY <1>5
      <4> QED
        BY <1>1, <1>7, <3>1, <4>1
    <3>3. b[1] = at[1]
      BY <1>5, <3>2
    <3>4. \E i \in 1 .. n : at[i] = k
      BY <1>1, <1>7, <3>1, <3>2, <3>3 DEF LaidOut
    <3>5. \A i \in 1 .. n : i \in 1 .. n + 1
      OBVIOUS
    <3> QED
      BY <1>5, <3>4, <3>5
  <2> QED
    BY <2>1, <2>2
<1>8. b \in [1 .. n + 1 -> DOMAIN now] /\ Increasing(b)
  BY <1>1, <1>5
<1>9. ASSUME NEW k \in DOMAIN now, Counts(now[k]), n + 1 > 0 /\ b[1] <= k
      PROVE  \E i \in 1 .. n + 1 : b[i] = k
  BY <1>1, <1>7, <1>9
<1>10. LaidOut(b, now, w, n + 1)
  BY <1>6, <1>8, <1>9 DEF LaidOut
<1> QED
  BY <1>10 DEF now, b, m

-----------------------------------------------------------------------------
(* The edits of the design, in a ledger. Accounts is                       *)
(* LedgerAccountsForDesign for the edits at given positions.               *)

Accounts(at, led, edits) ==
  /\ at \in [DOMAIN edits -> DOMAIN led]
  /\ Increasing(at)
  /\ \A i \in DOMAIN edits : led[at[i]].command.arg = edits[i]
  /\ \A k \in DOMAIN led : led[k].changed <=> \E i \in DOMAIN edits : at[i] = k

LEMMA NothingToAccountFor == \E at : Accounts(at, <<>>, <<>>)
<1> DEFINE at == [i \in {} |-> i]
<1>1. DOMAIN <<>> = {}
  OBVIOUS
<1>2. at \in [DOMAIN <<>> -> DOMAIN <<>>] /\ Increasing(at)
  BY <1>1 DEF Increasing
<1>3. Accounts(at, <<>>, <<>>)
  BY <1>1, <1>2 DEF Accounts
<1> QED
  BY <1>3

LEMMA NoChangeAccounted ==
  ASSUME NEW led \in Seq(Results), NEW rec \in Results, ~rec.changed,
         NEW edits \in Seq(Edits), NEW at, Accounts(at, led, edits)
  PROVE  Accounts(at, Append(led, rec), edits)
<1> DEFINE now == Append(led, rec)
           m == Len(led)
           n == Len(edits)
<1>1. /\ m \in Nat /\ DOMAIN led = 1 .. m /\ DOMAIN now = 1 .. m + 1
      /\ now[m + 1] = rec
  BY LedgerFacts
<1>2. \A k \in 1 .. m : now[k] = led[k]
  BY LedgerFacts
<1>3. n \in Nat /\ DOMAIN edits = 1 .. n
  OBVIOUS
<1>4. at \in [1 .. n -> 1 .. m] /\ Increasing(at)
  BY <1>1, <1>3 DEF Accounts
<1> HIDE DEF now, m, n
<1>5. \A i \in 1 .. n : at[i] \in 1 .. m /\ at[i] # m + 1
  BY <1>1, <1>4
<1>6. at \in [1 .. n -> 1 .. m + 1]
  <2>1. 1 .. m \subseteq 1 .. m + 1
    BY <1>1
  <2> QED
    BY <1>4, <2>1
<1>7. \A i \in 1 .. n : now[at[i]].command.arg = edits[i]
  BY <1>2, <1>3, <1>5 DEF Accounts
<1>8. ASSUME NEW k \in 1 .. m + 1
      PROVE  now[k].changed <=> \E i \in 1 .. n : at[i] = k
  <2>1. CASE k = m + 1
    BY <1>1, <1>5, <2>1
  <2>2. CASE k # m + 1
    <3>1. k \in 1 .. m /\ now[k] = led[k]
      BY <1>1, <1>2, <2>2
    <3> QED
      BY <1>1, <1>3, <3>1 DEF Accounts
  <2> QED
    BY <2>1, <2>2
<1>9. Accounts(at, now, edits)
  BY <1>1, <1>3, <1>4, <1>6, <1>7, <1>8 DEF Accounts
<1> QED
  BY <1>9 DEF now

LEMMA ChangeAccounted ==
  ASSUME NEW led \in Seq(Results), NEW rec \in Results, rec.changed,
         NEW edits \in Seq(Edits), NEW e \in Edits, rec.command.arg = e,
         NEW at, Accounts(at, led, edits)
  PROVE  Accounts(Extended(at, Len(edits), Len(led)), Append(led, rec), Append(edits, e))
<1> DEFINE now == Append(led, rec)
           m == Len(led)
           n == Len(edits)
           es == Append(edits, e)
           b == Extended(at, n, m)
<1>1. /\ m \in Nat /\ DOMAIN led = 1 .. m /\ DOMAIN now = 1 .. m + 1
      /\ now[m + 1] = rec
  BY LedgerFacts
<1>2. \A k \in 1 .. m : now[k] = led[k]
  BY LedgerFacts
<1>3. /\ n \in Nat /\ DOMAIN edits = 1 .. n /\ DOMAIN es = 1 .. n + 1
      /\ es[n + 1] = e
  OBVIOUS
<1>4. \A i \in 1 .. n : es[i] = edits[i]
  OBVIOUS
<1>5. at \in [1 .. n -> 1 .. m] /\ Increasing(at)
  BY <1>1, <1>3 DEF Accounts
<1> HIDE DEF now, m, n, es, b
<1>6. \A i \in 1 .. n : at[i] \in 1 .. m /\ at[i] # m + 1
  BY <1>1, <1>5
<1>7. /\ b \in [1 .. n + 1 -> 1 .. m + 1] /\ Increasing(b)
      /\ \A i \in 1 .. n : b[i] = at[i]
      /\ b[n + 1] = m + 1
  <2>1. /\ Extended(at, n, m) \in [1 .. n + 1 -> 1 .. m + 1]
        /\ Increasing(Extended(at, n, m))
        /\ \A i \in 1 .. n : Extended(at, n, m)[i] = at[i]
        /\ Extended(at, n, m)[n + 1] = m + 1
    BY <1>1, <1>3, <1>5, ExtendedFacts
  <2> QED
    BY <2>1 DEF b
<1>8. n + 1 \in 1 .. n + 1 /\ \A i \in 1 .. n : i \in 1 .. n + 1
  BY <1>3
<1>9. \A i \in 1 .. n + 1 : i \in 1 .. n \/ i = n + 1
  BY <1>3
<1>10. ASSUME NEW i \in 1 .. n + 1
       PROVE  now[b[i]].command.arg = es[i]
  <2>1. CASE i = n + 1
    BY <1>1, <1>3, <1>7, <2>1
  <2>2. CASE i \in 1 .. n
    <3>1. now[b[i]] = led[at[i]] /\ es[i] = edits[i]
      BY <1>2, <1>4, <1>6, <1>7, <2>2
    <3> QED
      BY <1>3, <2>2, <3>1 DEF Accounts
  <2> QED
    BY <1>9, <2>1, <2>2
<1>11. ASSUME NEW k \in 1 .. m + 1
       PROVE  now[k].changed <=> \E i \in 1 .. n + 1 : b[i] = k
  <2>1. CASE k = m + 1
    BY <1>1, <1>7, <1>8, <2>1
  <2>2. CASE k # m + 1
    <3>1. k \in 1 .. m /\ now[k] = led[k]
      BY <1>1, <1>2, <2>2
    <3>2. (\E i \in 1 .. n + 1 : b[i] = k) <=> \E i \in 1 .. n : at[i] = k
      BY <1>7, <1>8, <1>9, <2>2
    <3> QED
      BY <1>1, <1>3, <3>1, <3>2 DEF Accounts
  <2> QED
    BY <2>1, <2>2
<1>12. Accounts(b, now, es)
  BY <1>1, <1>3, <1>7, <1>10, <1>11 DEF Accounts
<1> QED
  BY <1>12 DEF now, es, b, m, n

-----------------------------------------------------------------------------
(* What a command that is sent brings back.                                *)

LEMMA FileFacts == File \in Files
BY LoopAssumption

LEMMA RestartedFacts ==
  SessionOK(Restarted) /\ Restarted.loaded
BY FileFacts, BlankFacts, LoadedFacts DEF Restarted

LEMMA StandingFacts ==
  ASSUME NEW s, SessionOK(s)
  PROVE  SessionOK(Standing(s)) /\ Standing(s).loaded
<1>1. s.loaded \in BOOLEAN
  BY DEF SessionOK
<1> QED
  BY <1>1, RestartedFacts DEF Standing

LEMMA SentSession ==
  ASSUME SessionOK(session), NEW c \in Commands, NEW o \in Sent(c)
  PROVE  SessionOK(o[1]) /\ o[1].loaded
<1>1. CASE \E p \in Outcomes(session, c) : o = <<Standing(p[1]), p[2], FALSE>>
  BY <1>1, OutcomesFine, StandingFacts
<1>2. CASE \E p \in Outcomes(Restarted, c) : o = <<Standing(p[1]), p[2], TRUE>>
  BY <1>2, OutcomesFine, StandingFacts, RestartedFacts
<1>3. CASE \E r \in {Silence(c), WriteError(c)} : o = <<Restarted, r, TRUE>>
  BY <1>3, RestartedFacts
<1> QED
  BY <1>1, <1>2, <1>3 DEF Sent

(* A reply to the command, or silence.                                     *)
Replied(r, c) == (r \in Replies /\ r.to = c) \/ r = Silence(c)

LEMMA SentReply ==
  ASSUME NEW c \in Commands, NEW o \in Sent(c)
  PROVE  Replied(o[2], c)
<1>1. CASE \E p \in Outcomes(session, c) : o = <<Standing(p[1]), p[2], FALSE>>
  BY <1>1, OutcomeCases DEF Replied
<1>2. CASE \E p \in Outcomes(Restarted, c) : o = <<Standing(p[1]), p[2], TRUE>>
  BY <1>2, OutcomeCases DEF Replied
<1>3. CASE \E r \in {Silence(c), WriteError(c)} : o = <<Restarted, r, TRUE>>
  <2>1. WriteError(c) \in Replies /\ WriteError(c).to = c
    BY ReplyFacts DEF WriteError
  <2> QED
    BY <1>3, <2>1 DEF Replied
<1> QED
  BY <1>1, <1>2, <1>3 DEF Sent

(* While the tool lives, a command other than read and quit reports the    *)
(* edit it makes, and no other.                                            *)
Reported(c, r, before, after) ==
  \/ after = before /\ ~r.changed
  \/ after = Append(before, c.arg) /\ r.changed /\ c.arg \in Edits

LEMMA SentReport ==
  ASSUME SessionOK(session), session.loaded, NEW c \in Commands,
         c.verb \notin {"read", "quit"}, NEW o \in Sent(c), ~o[3]
  PROVE  Reported(c, o[2], session.current.edits, o[1].current.edits)
<1>1. PICK p \in Outcomes(session, c) : o = <<Standing(p[1]), p[2], FALSE>>
  <2> DEFINE Ends(x, y) == <<x, y, TRUE>>
  <2>0. \A x, y : Ends(x, y)[3] = TRUE
    OBVIOUS
  <2> HIDE DEF Ends
  <2>1. ~\E p \in Outcomes(Restarted, c) : o = Ends(Standing(p[1]), p[2])
    BY <2>0
  <2>2. ~\E r \in {Silence(c), WriteError(c)} : o = Ends(Restarted, r)
    BY <2>0
  <2> QED
    BY <2>1, <2>2 DEF Sent, Ends
<1>2. CASE p[1] = session /\ ~p[2].changed
  BY <1>1, <1>2 DEF Standing, Reported
<1>3. CASE c.verb = "edit" /\ \E changed \in BOOLEAN :
             p[1] = Ran(session, c.arg, changed) /\ p[2].changed = changed
  <2>1. PICK changed \in BOOLEAN :
          p[1] = Ran(session, c.arg, changed) /\ p[2].changed = changed
    BY <1>3
  <2>2. c.arg \in Edits /\ session.current \in AnyDesign
    BY <1>3, CommandFacts DEF SessionOK
  <2>3. /\ p[1].loaded
        /\ p[1].current = IF changed THEN Edited(session.current, c.arg) ELSE session.current
    BY <2>1, <2>2, RanFacts
  <2>4. o[1] = p[1] /\ o[2] = p[2]
    BY <1>1, <2>3 DEF Standing
  <2>5. Edited(session.current, c.arg).edits = Append(session.current.edits, c.arg)
    BY <2>2, EditedFacts
  <2>6. CASE changed
    BY <2>1, <2>2, <2>3, <2>4, <2>5, <2>6 DEF Reported
  <2>7. CASE ~changed
    BY <2>1, <2>3, <2>4, <2>7 DEF Reported
  <2> QED
    BY <2>6, <2>7
<1> QED
  BY <1>2, <1>3, OutcomeCases

LEMMA RecordFacts ==
  ASSUME NEW c \in Commands, NEW r, Replied(r, c), NEW rec \in Records(r)
  PROVE  rec \in Results /\ rec.command = c /\ rec.changed = r.changed
<1> DEFINE Statuses == {"", "ok", "no_change", "partial", "timeout", "unsupported", "error"}
<1>1. /\ r.to = c /\ r.ok \in BOOLEAN /\ r.complete \in BOOLEAN /\ r.changed \in BOOLEAN
      /\ r.status \in Statuses
  <2>1. CASE r \in Replies /\ r.to = c
    BY <2>1 DEF Replies
  <2>2. CASE r = Silence(c)
    BY <2>2 DEF Silence, Reply
  <2> QED
    BY <2>1, <2>2 DEF Replied
<1>2. PICK fl \in BOOLEAN :
        rec = [command |-> r.to, ok |-> r.ok, complete |-> r.complete, status |-> r.status,
               changed |-> r.changed, flawed |-> fl]
  <2>1. {FALSE} \cup {r.to.arg \in Optimizations /\ r.ok /\ r.complete} \subseteq BOOLEAN
    OBVIOUS
  <2> QED
    BY <2>1 DEF Records
<1> QED
  BY <1>1, <1>2 DEF Results

-----------------------------------------------------------------------------
(* The inductive invariant.                                                *)

SessionFine == SessionOK(session) /\ session.loaded

IInv ==
  /\ TypeOK /\ ledger \in Seq(Results) /\ SessionFine
  /\ StagesInOrder /\ LedgerAccountsForDesign

LEMMA InitIInv == Init => IInv
<1> SUFFICES ASSUME Init PROVE IInv
  OBVIOUS
<1>1. TypeOK
  <2>1. 0 \in 0 .. MaxSteps - 1 /\ Len(<<>>) <= 0 /\ DOMAIN <<>> = {}
    BY LoopAssumption
  <2>2. workflow \in Workflows \cup {None}
    BY DEF Init
  <2>3. 0 \in 0 .. (IF workflow = None THEN 0 ELSE Len(workflow))
    BY <2>2, LoopAssumption
  <2>4. comparing \in BOOLEAN /\ died \in BOOLEAN /\ usable \in BOOLEAN
    BY DEF Init
  <2> QED
    BY <2>1, <2>2, <2>3, <2>4 DEF Init, TypeOK
<1>2. ledger \in Seq(Results)
  BY DEF Init
<1>3. SessionFine
  BY FileFacts, BlankFacts, LoadedFacts DEF Init, SessionFine
<1>4. StagesInOrder
  BY NoStageLaidOut DEF Init, StagesInOrder, LaidOut
<1>5. session.current.edits = <<>>
  BY FileFacts, BlankFacts, LoadedFacts, FreshFacts DEF Init
<1>6. LedgerAccountsForDesign
  <2>1. \E at : Accounts(at, ledger, session.current.edits)
    BY <1>5, NothingToAccountFor DEF Init
  <2> QED
    BY <2>1 DEF LedgerAccountsForDesign, Accounts
<1> QED
  BY <1>1, <1>2, <1>3, <1>4, <1>6 DEF IInv

(* A turn that only costs.                                                 *)
LEMMA TurnedDownIInv ==
  ASSUME IInv, Redo \/ Refuse
  PROVE  IInv'
<1>1. /\ answer = None /\ step < MaxSteps - 1 /\ step' = step + 1
      /\ told' \in {"redo", "refused"}
      /\ UNCHANGED <<frozen, memory, session, died, answer>>
  BY DEF Redo, Refuse, TurnedDown, Go
<1>2. comparing \in BOOLEAN /\ step \in 0 .. MaxSteps - 1 /\ Len(ledger) <= step
  BY DEF IInv, TypeOK
<1>3. comparing' \in BOOLEAN
  <2>1. CASE Redo
    BY <1>2, <2>1 DEF Redo
  <2>2. CASE Refuse
    BY <1>2, <2>2 DEF Refuse
  <2> QED
    BY <2>1, <2>2
<1>4. /\ contract' = contract /\ workflow' = workflow /\ completed' = completed
      /\ timed_out' = timed_out /\ failed' = failed /\ usable' = usable
      /\ ledger' = ledger /\ session' = session /\ died' = died /\ answer' = answer
  BY <1>1 DEF frozen, memory
<1>5. step' \in 0 .. MaxSteps - 1 /\ Len(ledger) <= step'
  <2>1. Len(ledger) \in Nat
    BY DEF IInv
  <2> QED
    BY <1>1, <1>2, <2>1, LoopAssumption
<1>6. TypeOK'
  BY <1>1, <1>3, <1>4, <1>5 DEF IInv, TypeOK
<1>7. SessionFine' /\ (ledger \in Seq(Results))'
  BY <1>4 DEF IInv, SessionFine
<1>8. StagesInOrder'
  BY <1>4 DEF IInv, StagesInOrder, StagesLeft
<1>9. LedgerAccountsForDesign'
  BY <1>4 DEF IInv, LedgerAccountsForDesign
<1> QED
  BY <1>6, <1>7, <1>8, <1>9 DEF IInv

(* Whatever was answered, nothing is remembered.                           *)
LEMMA EndIInv ==
  ASSUME IInv, NEW a \in {"model", "fallback", "unproved"}, End(a)
  PROVE  IInv'
<1>1. /\ answer' = a /\ contract' = None /\ workflow' = None /\ completed' = 0
      /\ timed_out' = {} /\ failed' = {} /\ usable' = FALSE /\ ledger' = <<>>
      /\ comparing' = FALSE /\ told' = "request"
      /\ step' = step /\ session' = session /\ died' = died
  BY DEF End
<1>2. step \in 0 .. MaxSteps - 1 /\ died \in BOOLEAN
  BY DEF IInv, TypeOK
<1>3. Len(<<>>) <= step /\ DOMAIN <<>> = {}
  BY <1>2, LoopAssumption
<1>4. TypeOK'
  <2>1. completed' \in 0 .. (IF workflow' = None THEN 0 ELSE Len(workflow'))
    BY <1>1
  <2>2. usable' \in BOOLEAN /\ comparing' \in BOOLEAN /\ died' \in BOOLEAN
    BY <1>1, <1>2
  <2>3. Len(ledger') <= step' /\ \A i \in DOMAIN ledger' : ledger'[i] \in Results
    BY <1>1, <1>3
  <2> QED
    BY <1>1, <1>2, <2>1, <2>2, <2>3 DEF TypeOK
<1>5. SessionFine' /\ (ledger \in Seq(Results))'
  BY <1>1 DEF IInv, SessionFine
<1>6. StagesInOrder'
  BY <1>1 DEF StagesInOrder
<1>7. LedgerAccountsForDesign'
  BY <1>1, LoopAssumption DEF LedgerAccountsForDesign
<1> QED
  BY <1>4, <1>5, <1>6, <1>7 DEF IInv

(* A command is run: its result is laid out behind the others.             *)
LEMMA RunIInv ==
  ASSUME IInv, Run
  PROVE  IInv'
<1>1. PICK c \in Commands \ (timed_out \cup failed) :
        /\ MatchesStage(workflow', c)
        /\ comparing' = (comparing \/ c.verb = "equiv_query")
        /\ \E o \in Sent(c) :
             /\ session' = o[1] /\ died' = (died \/ o[3])
             /\ \E rec \in Records(o[2]) :
                  /\ ledger' = LedgerAfter(rec)
                  /\ completed' = StagesAfter(workflow', rec)
                  /\ timed_out' = TimedOutAfter(rec)
                  /\ failed' = FailedAfter(rec)
                  /\ usable' = UsableAfter(rec)
  BY DEF Run
<1>2. PICK o \in Sent(c) :
        /\ session' = o[1] /\ died' = (died \/ o[3])
        /\ \E rec \in Records(o[2]) :
             /\ ledger' = LedgerAfter(rec)
             /\ completed' = StagesAfter(workflow', rec)
             /\ timed_out' = TimedOutAfter(rec)
             /\ failed' = FailedAfter(rec)
             /\ usable' = UsableAfter(rec)
  BY <1>1
<1>3. PICK rec \in Records(o[2]) :
        /\ ledger' = LedgerAfter(rec)
        /\ completed' = StagesAfter(workflow', rec)
        /\ timed_out' = TimedOutAfter(rec)
        /\ failed' = FailedAfter(rec)
        /\ usable' = UsableAfter(rec)
  BY <1>2
<1>4. /\ answer = None /\ answer' = None /\ step < MaxSteps - 1 /\ step' = step + 1
      /\ told' = "result" /\ contract' \in ContractOf /\ workflow' \in WorkflowOf
  BY DEF Run, Go
<1>5. c \in Commands /\ Replied(o[2], c)
  BY SentReply
<1>6. rec \in Results /\ rec.command = c /\ rec.changed = o[2].changed
  BY <1>5, RecordFacts
<1>7. SessionOK(session) /\ session.loaded /\ ledger \in Seq(Results)
  BY DEF IInv, SessionFine
<1>8. ledger' = Append(ledger, rec) /\ ledger' \in Seq(Results)
  BY <1>3, <1>6, <1>7, LedgerFacts DEF LedgerAfter
<1>9. SessionFine'
  BY <1>2, <1>5, <1>7, SentSession DEF SessionFine
<1>10. /\ workflow' \in Workflows \cup {None}
       /\ workflow' = workflow \/ workflow = None
       /\ contract' \in Contracts \cup {None}
  BY <1>4 DEF WorkflowOf, ContractOf, IInv, TypeOK
<1>11. /\ workflow \in Workflows \cup {None}
       /\ completed \in Nat /\ completed <= (IF workflow = None THEN 0 ELSE Len(workflow))
  <2>1. /\ workflow \in Workflows \cup {None}
        /\ completed \in 0 .. (IF workflow = None THEN 0 ELSE Len(workflow))
    BY DEF IInv, TypeOK
  <2> QED
    BY <2>1, LoopAssumption
<1>12. ASSUME workflow' # None
       PROVE  /\ Len(workflow') \in Nat /\ completed <= Len(workflow')
              /\ \E at : LaidOut(at, ledger, workflow', completed)
  <2>1. Len(workflow') \in Nat
    BY <1>10, <1>12, LoopAssumption
  <2>2. CASE workflow = None
    <3>1. completed = 0
      BY <1>11, <2>2
    <3> QED
      BY <2>1, <3>1, NoStageLaidOut
  <2>3. CASE workflow # None
    <3>1. workflow' = workflow
      BY <1>10, <2>3
    <3>2. \E at : LaidOut(at, ledger, workflow, completed)
      BY <2>3 DEF IInv, StagesInOrder, StagesLeft, LaidOut
    <3> QED
      BY <1>11, <2>1, <2>3, <3>1, <3>2
  <2> QED
    BY <2>2, <2>3
<1>13. workflow' = None => completed' = 0
  BY <1>3, <1>10, <1>11 DEF StagesAfter, StagesLeft
<1>14. ASSUME workflow' # None
       PROVE  /\ completed' \in 0 .. Len(workflow')
              /\ \E at : LaidOut(at, ledger', workflow', completed')
  <2>1. PICK at : LaidOut(at, ledger, workflow', completed)
    BY <1>12, <1>14
  <2>2. Len(workflow') \in Nat /\ completed <= Len(workflow')
    BY <1>12, <1>14
  <2>3. CASE completed < Len(workflow') /\ Counts(rec)
    <3>1. completed' = completed + 1
      BY <1>3, <1>14, <2>3 DEF StagesAfter, StagesLeft
    <3>2. rec.command = Stage(workflow'[completed + 1])
      BY <1>1, <1>6, <1>14, <2>3 DEF MatchesStage, StagesLeft
    <3>3. LaidOut(Extended(at, completed, Len(ledger)), Append(ledger, rec), workflow',
                  completed + 1)
      BY <1>6, <1>7, <1>11, <2>1, <2>2, <2>3, <3>2, StageResult
    <3> QED
      BY <1>8, <1>11, <2>2, <2>3, <3>1, <3>3
  <2>4. CASE completed < Len(workflow') => ~Counts(rec)
    <3>1. completed' = completed
      BY <1>3, <1>11, <2>4 DEF StagesAfter, StagesLeft
    <3>2. LaidOut(at, Append(ledger, rec), workflow', completed)
      BY <1>6, <1>7, <1>11, <2>1, <2>2, <2>4, OtherResult
    <3> QED
      BY <1>8, <1>11, <2>2, <3>1, <3>2
  <2> QED
    BY <2>3, <2>4
<1>15. StagesInOrder'
  BY <1>14 DEF StagesInOrder, StagesLeft, LaidOut
<1>16. TypeOK'
  <2>1. completed' \in 0 .. (IF workflow' = None THEN 0 ELSE Len(workflow'))
    BY <1>13, <1>14
  <2>2. timed_out' \subseteq Commands /\ failed' \subseteq Commands
    <3>1. timed_out \subseteq Commands /\ failed \subseteq Commands
      BY DEF IInv, TypeOK
    <3> QED
      BY <1>3, <1>5, <1>6, <3>1 DEF TimedOutAfter, FailedAfter
  <2>3. usable' \in BOOLEAN /\ comparing' \in BOOLEAN /\ died' \in BOOLEAN
    BY <1>1, <1>2, <1>3 DEF UsableAfter
  <2>4. step' \in 0 .. MaxSteps - 1 /\ Len(ledger') <= step'
    <3>1. step \in 0 .. MaxSteps - 1 /\ Len(ledger) <= step /\ Len(ledger) \in Nat
      BY <1>7 DEF IInv, TypeOK
    <3>2. Len(ledger') = Len(ledger) + 1
      BY <1>6, <1>7, <1>8, LedgerFacts
    <3> QED
      BY <1>4, <3>1, <3>2, LoopAssumption
  <2>5. \A i \in DOMAIN ledger' : ledger'[i] \in Results
    BY <1>8
  <2> QED
    BY <1>4, <1>10, <2>1, <2>2, <2>3, <2>4, <2>5 DEF TypeOK
<1>17. ASSUME ~died', \A i \in DOMAIN ledger' : ledger'[i].command.verb \notin {"read", "quit"}
       PROVE  \E at : Accounts(at, ledger', session'.current.edits)
  <2> DEFINE before == session.current.edits
  <2>1. ~died /\ ~o[3]
    BY <1>2, <1>17
  <2>2. /\ DOMAIN ledger = 1 .. Len(ledger) /\ Len(ledger) \in Nat
        /\ DOMAIN ledger' = 1 .. Len(ledger) + 1
        /\ \A i \in 1 .. Len(ledger) : ledger'[i] = ledger[i]
        /\ ledger'[Len(ledger) + 1] = rec
    BY <1>6, <1>7, <1>8, LedgerFacts
  <2>3. \A i \in DOMAIN ledger : ledger[i].command.verb \notin {"read", "quit"}
    BY <1>17, <2>2
  <2>4. c.verb \notin {"read", "quit"}
    BY <1>6, <1>17, <2>2
  <2>5. PICK at : Accounts(at, ledger, before)
    BY <1>4, <2>1, <2>3 DEF IInv, LedgerAccountsForDesign, Accounts
  <2>6. Reported(c, o[2], before, session'.current.edits)
    BY <1>2, <1>5, <1>7, <2>1, <2>4, SentReport
  <2>7. before \in Seq(Edits)
    BY <1>7 DEF SessionOK, AnyDesign
  <2> HIDE DEF before
  <2>8. CASE session'.current.edits = before /\ ~o[2].changed
    <3>1. Accounts(at, Append(ledger, rec), before)
      BY <1>6, <1>7, <2>5, <2>7, <2>8, NoChangeAccounted
    <3> QED
      BY <1>8, <2>8, <3>1
  <2>9. CASE /\ session'.current.edits = Append(before, c.arg)
             /\ o[2].changed /\ c.arg \in Edits
    <3>1. Accounts(Extended(at, Len(before), Len(ledger)), Append(ledger, rec),
                   Append(before, c.arg))
      BY <1>6, <1>7, <2>5, <2>7, <2>9, ChangeAccounted
    <3> QED
      BY <1>8, <2>9, <3>1
  <2> QED
    BY <2>6, <2>8, <2>9 DEF Reported
<1>18. LedgerAccountsForDesign'
  BY <1>17 DEF LedgerAccountsForDesign, Accounts
<1> QED
  BY <1>8, <1>9, <1>15, <1>16, <1>18 DEF IInv

LEMMA NextIInv == IInv /\ [Next]_vars => IInv'
<1> SUFFICES ASSUME IInv, [Next]_vars PROVE IInv'
  OBVIOUS
<1>1. CASE Redo \/ Refuse
  BY <1>1, TurnedDownIInv
<1>2. CASE Run
  BY <1>2, RunIInv
<1>3. CASE Finish \/ FinishInTime \/ FinishInProse \/ GiveUp
  <2>1. \E a \in {"model", "fallback", "unproved"} : End(a)
    BY <1>3 DEF Finish, FinishInTime, FinishInProse, GiveUp
  <2> QED
    BY <2>1, EndIInv
<1>4. CASE Done \/ UNCHANGED vars
  <2>1. /\ step' = step /\ contract' = contract /\ workflow' = workflow
        /\ completed' = completed /\ timed_out' = timed_out /\ failed' = failed
        /\ usable' = usable /\ ledger' = ledger /\ comparing' = comparing
        /\ session' = session /\ died' = died /\ told' = told /\ answer' = answer
    BY <1>4 DEF Done, vars, frozen, memory
  <2>2. TypeOK'
    BY <2>1 DEF IInv, TypeOK
  <2>3. SessionFine' /\ (ledger \in Seq(Results))'
    BY <2>1 DEF IInv, SessionFine
  <2>4. StagesInOrder'
    BY <2>1 DEF IInv, StagesInOrder, StagesLeft
  <2>5. LedgerAccountsForDesign'
    BY <2>1 DEF IInv, LedgerAccountsForDesign
  <2> QED
    BY <2>2, <2>3, <2>4, <2>5 DEF IInv
<1> QED
  BY <1>1, <1>2, <1>3, <1>4 DEF Next

LEMMA Invariance == Spec => []IInv
BY InitIInv, NextIInv, PTL DEF Spec

-----------------------------------------------------------------------------
(* The results.                                                            *)

(* Types; no more stages are said to be done than there are, and no more   *)
(* commands are run than there are turns.                                  *)
THEOREM Typed == Spec => []TypeOK
<1>1. IInv => TypeOK
  BY DEF IInv
<1> QED
  BY <1>1, Invariance, PTL

(* The stages said to be done were done, in the order of the workflow and  *)
(* with no other command that counts between them.                         *)
THEOREM StagesAreDoneInOrder == Spec => []StagesInOrder
<1>1. IInv => StagesInOrder
  BY DEF IInv
<1> QED
  BY <1>1, Invariance, PTL

(* While the tool lives and reads no file, the edits of its design are     *)
(* those of the results in the ledger that report a change, in order.      *)
THEOREM LedgerTellsTheDesign == Spec => []LedgerAccountsForDesign
<1>1. IInv => LedgerAccountsForDesign
  BY DEF IInv
<1> QED
  BY <1>1, Invariance, PTL
=============================================================================
