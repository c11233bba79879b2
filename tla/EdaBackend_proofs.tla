------------------------- MODULE EdaBackend_proofs ---------------------------
(***************************************************************************)
(* Proofs about EdaBackend, for any files, commands and number of edits.   *)
(***************************************************************************)
EXTENDS EdaBackend, TLAPS

-----------------------------------------------------------------------------
(* Commands, replies, and what a command makes of a session.               *)

LEMMA CommandFacts ==
  ASSUME NEW c \in Commands
  PROVE  /\ c.verb = "edit" => c.arg \in Edits
         /\ c.verb = "read" => c.arg \in Files
BY DEF Commands

LEMMA ReplyFacts ==
  ASSUME NEW c \in Commands, NEW ok \in BOOLEAN, NEW complete \in BOOLEAN,
         NEW status \in {"ok", "no_change", "partial", "timeout", "unsupported", "error"}
  PROVE  /\ Reply(c, ok, status, complete) \in Replies
         /\ Reply(c, ok, status, complete).to = c
         /\ Reply(c, ok, status, complete).ok = ok
         /\ ~Reply(c, ok, status, complete).changed
BY DEF Reply, Replies

LEMMA RefusedFacts ==
  ASSUME NEW c \in Commands
  PROVE  /\ Refused(c) \in Replies /\ Refused(c).to = c
         /\ ~Refused(c).ok /\ ~Refused(c).changed
BY ReplyFacts DEF Refused

(* An edit is refused before it runs, or it ran and reports what it did.   *)
LEMMA EditCases ==
  ASSUME NEW s, NEW c \in Commands, NEW o \in EditOutcomes(s, c)
  PROVE  /\ o[2] \in Replies /\ o[2].to = c
         /\ \/ o[1] = s /\ ~o[2].changed
            \/ \E changed \in BOOLEAN :
                 o[1] = Ran(s, c.arg, changed) /\ o[2].changed = changed
<1>1. CASE o = <<s, Refused(c)>>
  BY <1>1, RefusedFacts
<1>2. CASE o # <<s, Refused(c)>>
  <2>1. PICK end \in [ok : BOOLEAN, changed : BOOLEAN, late : BOOLEAN, optimizer : BOOLEAN] :
          o = <<Ran(s, c.arg, end.changed),
                [Reply(c, end.ok, EditStatus(end.ok, end.changed, end.late),
                       end.ok /\ (end.optimizer \/ ~end.late))
                   EXCEPT !.changed = end.changed]>>
    BY <1>2 DEF EditOutcomes
  <2>2. EditStatus(end.ok, end.changed, end.late)
          \in {"ok", "no_change", "partial", "timeout", "unsupported", "error"}
    BY DEF EditStatus
  <2>3. end.ok \in BOOLEAN /\ end.changed \in BOOLEAN
        /\ (end.ok /\ (end.optimizer \/ ~end.late)) \in BOOLEAN
    OBVIOUS
  <2>4. Reply(c, end.ok, EditStatus(end.ok, end.changed, end.late),
              end.ok /\ (end.optimizer \/ ~end.late)) \in Replies
    BY <2>2, <2>3, ReplyFacts
  <2>5. Reply(c, end.ok, EditStatus(end.ok, end.changed, end.late),
              end.ok /\ (end.optimizer \/ ~end.late)).to = c
    BY <2>2, <2>3, ReplyFacts
  <2>6. o[2] \in Replies /\ o[2].to = c /\ o[2].changed = end.changed
    BY <2>1, <2>3, <2>4, <2>5 DEF Replies
  <2> QED
    BY <2>1, <2>3, <2>6
<1> QED
  BY <1>1, <1>2

(* The queries leave the session alone.                                    *)
LEMMA QueryCases ==
  ASSUME NEW s, NEW c \in Commands, NEW o \in QueryOutcomes(s, c)
  PROVE  o[2] \in Replies /\ o[2].to = c /\ o[1] = s /\ ~o[2].changed
<1> DEFINE Fine(r) == r \in Replies /\ r.to = c /\ ~r.changed
<1>1. Fine(Reply(c, TRUE, "ok", TRUE)) /\ Fine(Reply(c, TRUE, "partial", FALSE))
  BY ReplyFacts
<1>2. Fine(Reply(c, FALSE, "timeout", FALSE)) /\ Fine(Reply(c, FALSE, "unsupported", FALSE))
  BY ReplyFacts
<1>3. Fine(Refused(c))
  BY RefusedFacts
<1>4. PICK r : o = <<s, r>> /\ r \in
        CASE c.verb = "write" ->
               {Reply(c, TRUE, "ok", TRUE), Refused(c)}
          [] c.verb = "equiv_query" /\ (c.arg = "original" \/ s.baseline # NoDesign) ->
               {Reply(c, TRUE, "ok", TRUE), Reply(c, TRUE, "partial", FALSE),
                Reply(c, FALSE, "timeout", FALSE),
                Reply(c, FALSE, "unsupported", FALSE), Refused(c)}
          [] c.verb = "report_query" /\ s.report # NoReport ->
               {Reply(c, TRUE, "ok", TRUE)}
          [] OTHER -> {Refused(c)}
  BY DEF QueryOutcomes
<1>5. r \in {Reply(c, TRUE, "ok", TRUE), Reply(c, TRUE, "partial", FALSE),
             Reply(c, FALSE, "timeout", FALSE),
             Reply(c, FALSE, "unsupported", FALSE), Refused(c)}
  BY <1>4
<1>6. Fine(r)
  BY <1>1, <1>2, <1>3, <1>5
<1> QED
  BY <1>4, <1>6

(* A command leaves the session, or is an edit that ran, a read that       *)
(* succeeded, or the end.                                                  *)
LEMMA OutcomeCases ==
  ASSUME NEW s, NEW c \in Commands, NEW o \in Outcomes(s, c)
  PROVE  /\ o[2] \in Replies /\ o[2].to = c
         /\ \/ /\ o[1] = s /\ ~o[2].changed /\ c.verb # "quit"
               /\ c.verb = "read" => ~o[2].ok /\ c.arg \notin Readable
            \/ /\ c.verb = "edit" /\ s.loaded
               /\ \E changed \in BOOLEAN :
                    o[1] = Ran(s, c.arg, changed) /\ o[2].changed = changed
            \/ /\ c.verb = "read" /\ c.arg \in Readable
               /\ o[1] = Loaded(s, c.arg) /\ o[2].ok /\ ~o[2].changed
            \/ c.verb = "quit" /\ o[1] = BlankSession
<1>0. LET r == Reply(c, TRUE, "ok", TRUE) IN r \in Replies /\ r.to = c /\ r.ok /\ ~r.changed
  BY ReplyFacts
<1>1. CASE c.verb = "quit"
  <2>1. o = <<BlankSession, Reply(c, TRUE, "ok", TRUE)>>
    BY <1>1 DEF Outcomes
  <2> QED
    BY <1>0, <1>1, <2>1
<1>2. CASE c.verb = "read"
  <2>1. o \in ReadOutcomes(s, c)
    BY <1>2 DEF Outcomes
  <2>2. CASE c.arg \in Readable
    <3>1. o = <<Loaded(s, c.arg), Reply(c, TRUE, "ok", TRUE)>>
      BY <2>1, <2>2 DEF ReadOutcomes
    <3> QED
      BY <1>0, <1>2, <2>2, <3>1
  <2>3. CASE c.arg \notin Readable
    <3>1. o = <<s, Refused(c)>>
      BY <2>1, <2>3 DEF ReadOutcomes
    <3> QED
      BY <1>2, <2>3, <3>1, RefusedFacts
  <2> QED
    BY <2>2, <2>3
<1>3. CASE c.verb \notin {"quit", "read"} /\ ~s.loaded
  <2>1. o = <<s, Refused(c)>>
    BY <1>3 DEF Outcomes
  <2> QED
    BY <1>3, <2>1, RefusedFacts
<1>4. CASE c.verb = "edit" /\ s.loaded
  <2>1. o \in EditOutcomes(s, c)
    BY <1>4 DEF Outcomes
  <2> QED
    BY <1>4, <2>1, EditCases
<1>5. CASE c.verb \notin {"quit", "read", "edit"} /\ s.loaded
  <2>1. o \in QueryOutcomes(s, c)
    BY <1>5 DEF Outcomes
  <2> QED
    BY <1>5, <2>1, QueryCases
<1> QED
  BY <1>1, <1>2, <1>3, <1>4, <1>5

-----------------------------------------------------------------------------
(* Designs and sessions.                                                   *)

LEMMA EditedFacts ==
  ASSUME NEW d \in AnyDesign, NEW e \in Edits
  PROVE  /\ Edited(d, e) \in AnyDesign
         /\ Edited(d, e).file = d.file
         /\ Edited(d, e).edits = Append(d.edits, e)
         /\ Len(Edited(d, e).edits) = Len(d.edits) + 1
BY DEF Edited, AnyDesign

LEMMA FreshFacts ==
  ASSUME NEW f \in Files \cup {NoFile}
  PROVE  /\ Fresh(f) \in AnyDesign /\ Fresh(f).file = f
         /\ Fresh(f).edits = <<>> /\ Len(Fresh(f).edits) = 0
BY DEF Fresh, AnyDesign

LEMMA NoDesignFacts ==
  NoDesign \in AnyDesign /\ NoDesign.file = NoFile /\ NoDesign.edits = <<>>
BY DEF NoDesign, AnyDesign

(* What BaselineAndReportAgree says of the session, of any session.        *)
Agree(s) ==
  /\ (s.baseline = NoDesign) = (s.report = NoReport)
  /\ s.report # NoReport =>
       s.current = IF s.report.changed THEN Edited(s.baseline, s.report.edit)
                                       ELSE s.baseline
  /\ s.revision = Len(s.current.edits)
  /\ s.loaded => s.original = Fresh(s.current.file)

LEMMA BlankFacts == SessionOK(BlankSession) /\ Agree(BlankSession)
BY NoDesignFacts DEF SessionOK, Agree, BlankSession, NoReport, NoDesign

(* The session after an edit that ran.                                     *)
LEMMA RanFacts ==
  ASSUME NEW s, SessionOK(s), Agree(s), s.loaded, NEW e \in Edits, NEW changed \in BOOLEAN
  PROVE  /\ SessionOK(Ran(s, e, changed)) /\ Agree(Ran(s, e, changed))
         /\ Ran(s, e, changed).loaded
         /\ Ran(s, e, changed).current = IF changed THEN Edited(s.current, e) ELSE s.current
         /\ Ran(s, e, changed).current.file = s.current.file
<1> DEFINE t == Ran(s, e, changed)
<1>1. s.current \in AnyDesign /\ s.current.file \in Files /\ s.revision \in Nat
  BY DEF SessionOK
<1>2. /\ t.current = IF changed THEN Edited(s.current, e) ELSE s.current
      /\ t.report = [edit |-> e, changed |-> changed]
      /\ t.baseline = s.current /\ t.loaded = s.loaded /\ t.original = s.original
      /\ t.revision = IF changed THEN s.revision + 1 ELSE s.revision
  BY DEF Ran, SessionOK
<1>3. t.current \in AnyDesign /\ t.current.file = s.current.file
  BY <1>1, <1>2, EditedFacts
<1>4. SessionOK(t)
  <2>1. t \in [loaded : BOOLEAN, current : AnyDesign, original : AnyDesign,
               baseline : AnyDesign,
               report : [edit : Edits \cup {NoFile}, changed : BOOLEAN], revision : Nat]
    <3>1. [edit |-> e, changed |-> changed] \in [edit : Edits \cup {NoFile}, changed : BOOLEAN]
      OBVIOUS
    <3>2. Edited(s.current, e) \in AnyDesign /\ s.revision + 1 \in Nat
      BY <1>1, EditedFacts
    <3>3. CASE changed
      <4>1. t = [s EXCEPT !.report = [edit |-> e, changed |-> changed],
                          !.baseline = s.current, !.current = Edited(s.current, e),
                          !.revision = s.revision + 1]
        BY <3>3 DEF Ran
      <4> QED
        BY <1>1, <3>1, <3>2, <4>1 DEF SessionOK
    <3>4. CASE ~changed
      BY <1>1, <3>1, <3>4 DEF Ran, SessionOK
    <3> QED
      BY <3>3, <3>4
  <2> QED
    BY <1>1, <1>2, <1>3, <2>1 DEF SessionOK
<1>5. s.current # NoDesign
  BY <1>1, NoDesignFacts, FilesAssumption
<1>6. t.report # NoReport
  BY <1>2, FilesAssumption DEF NoReport
<1>7. t.revision = Len(t.current.edits)
  BY <1>1, <1>2, EditedFacts DEF Agree
<1>8. Agree(t)
  BY <1>2, <1>3, <1>5, <1>6, <1>7 DEF Agree
<1> QED
  BY <1>2, <1>3, <1>4, <1>8

(* The session after a read that succeeded.                                *)
LEMMA LoadedFacts ==
  ASSUME NEW s, SessionOK(s), NEW f \in Files
  PROVE  /\ SessionOK(Loaded(s, f)) /\ Agree(Loaded(s, f))
         /\ Loaded(s, f).loaded /\ Loaded(s, f).current = Fresh(f)
<1> DEFINE t == Loaded(s, f)
<1>1. /\ t.loaded = TRUE /\ t.current = Fresh(f) /\ t.original = Fresh(f)
      /\ t.baseline = NoDesign /\ t.report = NoReport /\ t.revision = 0
  BY DEF Loaded, SessionOK
<1>2. NoReport \in [edit : Edits \cup {NoFile}, changed : BOOLEAN]
  BY DEF NoReport
<1>3. t \in [loaded : BOOLEAN, current : AnyDesign, original : AnyDesign,
             baseline : AnyDesign,
             report : [edit : Edits \cup {NoFile}, changed : BOOLEAN], revision : Nat]
  BY <1>2, FreshFacts, NoDesignFacts DEF Loaded, SessionOK
<1>4. SessionOK(t)
  BY <1>1, <1>3, FreshFacts DEF SessionOK
<1>5. Agree(t)
  BY <1>1, FreshFacts DEF Agree
<1> QED
  BY <1>1, <1>4, <1>5

(* No command leaves a session a query could be misled by.                 *)
LEMMA OutcomesFine ==
  ASSUME NEW s, SessionOK(s), Agree(s), NEW c \in Commands, NEW o \in Outcomes(s, c)
  PROVE  SessionOK(o[1]) /\ Agree(o[1])
BY OutcomeCases, CommandFacts, RanFacts, LoadedFacts, BlankFacts

LEMMA GreetingIsNoCommand == Greeting \notin Commands
BY DEF Greeting, Commands

-----------------------------------------------------------------------------
(* One list of edits among another.                                        *)

LEMMA EmptyOccurs ==
  ASSUME NEW t \in Seq(Edits)
  PROVE  OccursIn(<<>>, t) /\ Len(<<>>) <= Len(t)
<1> DEFINE at == [i \in {} |-> i]
<1>1. at \in [DOMAIN <<>> -> DOMAIN t]
  OBVIOUS
<1>2. DOMAIN <<>> = {} /\ Len(<<>>) <= Len(t)
  OBVIOUS
<1> QED
  BY <1>1, <1>2 DEF OccursIn

LEMMA SelfOccurs ==
  ASSUME NEW t \in Seq(Edits)
  PROVE  OccursIn(t, t)
<1> DEFINE at == [i \in DOMAIN t |-> i]
<1>1. at \in [DOMAIN t -> DOMAIN t]
  OBVIOUS
<1>2. \A i \in DOMAIN t : at[i] = i
  OBVIOUS
<1> HIDE DEF at
<1> QED
  BY <1>1, <1>2 DEF OccursIn

LEMMA AppendOccurs ==
  ASSUME NEW s \in Seq(Edits), NEW t \in Seq(Edits), NEW e \in Edits, OccursIn(s, t)
  PROVE  OccursIn(Append(s, e), Append(t, e))
<1> DEFINE s1 == Append(s, e)
           t1 == Append(t, e)
<1>1. PICK at \in [DOMAIN s -> DOMAIN t] :
        /\ \A i, j \in DOMAIN s : i < j => at[i] < at[j]
        /\ \A i \in DOMAIN s : s[i] = t[at[i]]
  BY DEF OccursIn
<1>2. /\ DOMAIN s = 1..Len(s) /\ DOMAIN t = 1..Len(t)
      /\ DOMAIN s1 = 1..(Len(s) + 1) /\ DOMAIN t1 = 1..(Len(t) + 1)
      /\ Len(s) \in Nat /\ Len(t) \in Nat
      /\ \A i \in 1..Len(s) : s1[i] = s[i]
      /\ \A i \in 1..Len(t) : t1[i] = t[i]
      /\ s1[Len(s) + 1] = e /\ t1[Len(t) + 1] = e
  OBVIOUS
<1> DEFINE to == [i \in 1..(Len(s) + 1) |-> IF i <= Len(s) THEN at[i] ELSE Len(t) + 1]
<1> HIDE DEF s1, t1
<1>3. \A i \in 1..Len(s) : at[i] \in 1..Len(t)
  BY <1>2
<1>4. /\ \A i \in 1..Len(s) : to[i] = at[i]
      /\ to[Len(s) + 1] = Len(t) + 1
      /\ to \in [DOMAIN s1 -> DOMAIN t1]
  BY <1>2, <1>3
<1> HIDE DEF to
<1>5. ASSUME NEW i \in DOMAIN s1, NEW j \in DOMAIN s1, i < j
      PROVE  to[i] < to[j]
  <2>1. CASE j <= Len(s)
    BY <1>1, <1>2, <1>4, <1>5, <2>1
  <2>2. CASE j = Len(s) + 1
    <3>1. i \in 1..Len(s) /\ to[i] = at[i] /\ to[j] = Len(t) + 1
      BY <1>2, <1>4, <1>5, <2>2
    <3> QED
      BY <1>2, <1>3, <3>1
  <2> QED
    BY <1>2, <2>1, <2>2
<1>6. ASSUME NEW i \in DOMAIN s1
      PROVE  s1[i] = t1[to[i]]
  <2>1. CASE i \in 1..Len(s)
    BY <1>1, <1>2, <1>3, <1>4, <2>1
  <2>2. CASE i = Len(s) + 1
    BY <1>2, <1>4, <2>2
  <2> QED
    BY <1>2, <2>1, <2>2
<1>7. OccursIn(s1, t1)
  BY <1>4, <1>5, <1>6 DEF OccursIn
<1> QED
  BY <1>7 DEF s1, t1

-----------------------------------------------------------------------------
(* Pipes.                                                                  *)

LEMMA PipeFacts ==
  ASSUME NEW a, NEW b
  PROVE  /\ Append(<<>>, a) = <<a>> /\ Append(<<a>>, b) = <<a, b>>
         /\ <<a>> # <<>> /\ Head(<<a>>) = a /\ Tail(<<a>>) = <<>>
         /\ <<a, b>> # <<>> /\ Head(<<a, b>>) = a /\ Tail(<<a, b>>) = <<b>>
<1>1. Append(<<>>, a) = <<a>>
  OBVIOUS
<1>2. Append(<<a>>, b) = <<a, b>>
  <2> DEFINE S   == {a, b}
             one == <<a>>
             two == Append(one, b)
  <2>0. b \in S /\ one \in Seq(S)
    OBVIOUS
  <2>1. Len(one) = 1 /\ one[1] = a
    OBVIOUS
  <2> HIDE DEF S, one
  <2>2. /\ two \in Seq(S) /\ Len(two) = Len(one) + 1
        /\ \A i \in 1..Len(one) : two[i] = one[i]
        /\ two[Len(one) + 1] = b
    BY <2>0
  <2>3. two \in Seq(S) /\ Len(two) = 2 /\ two[1] = a /\ two[2] = b
    BY <2>1, <2>2
  <2> HIDE DEF two
  <2>4. two = <<a, b>>
    BY <2>3
  <2> QED
    BY <2>4 DEF one, two
<1>3. <<a>> # <<>> /\ <<a, b>> # <<>>
  OBVIOUS
<1>4. Head(<<a>>) = a /\ Head(<<a, b>>) = a
  OBVIOUS
<1>5. Tail(<<a>>) = <<>>
  OBVIOUS
<1>6. Tail(<<a, b>>) = <<b>>
  OBVIOUS
<1> QED
  BY <1>1, <1>2, <1>3, <1>4, <1>5, <1>6

LEMMA RepliesAreReplies ==
  ASSUME NEW r \in Replies
  PROVE  r # Prompt /\ r # Nothing
BY MarkersAssumption

LEMMA SessionStays ==
  ASSUME SessionOK(session), BaselineAndReportAgree, session' = session
  PROVE  SessionOK(session)' /\ BaselineAndReportAgree'
BY DEF SessionOK, BaselineAndReportAgree

LEMMA SessionBlank ==
  ASSUME session' = BlankSession
  PROVE  SessionOK(session)' /\ BaselineAndReportAgree'
BY BlankFacts DEF SessionOK, BaselineAndReportAgree, Agree

-----------------------------------------------------------------------------
(* The actions keep IInv.                                                  *)

LEMMA PrintPromptIInv ==
  ASSUME IInv, PrintPrompt
  PROVE  IInv'
<1> USE DEF PrintPrompt, client, history
<1>1. SessionOK(session)' /\ BaselineAndReportAgree'
  BY SessionStays DEF IInv
<1>2. Registers'
  BY DEF IInv, Registers
<1>3. Greets'
  BY PipeFacts DEF IInv, Greets
<1>4. ASSUME NEW c, NEW r, Answered(c, r)
      PROVE  Answered(c, r)'
  <2>1. /\ r \in Replies /\ r.to = c /\ input = <<>>
        /\ (output = <<r>> /\ got = Nothing) \/ (output = <<>> /\ got = r)
    BY <1>4 DEF Answered
  <2>2. stage' = "waiting" /\ UNCHANGED <<got, input>>
    OBVIOUS
  <2>3. CASE output = <<r>> /\ got = Nothing
    <3>1. output' = <<r, Prompt>>
      BY <2>3, PipeFacts
    <3> QED
      BY <2>1, <2>2, <2>3, <3>1 DEF Answered
  <2>4. CASE output = <<>> /\ got = r
    <3>1. output' = <<Prompt>>
      BY <2>4, PipeFacts
    <3> QED
      BY <2>1, <2>2, <2>4, <3>1 DEF Answered
  <2> QED
    BY <2>1, <2>3, <2>4
<1>5. Reloads'
  <2> SUFFICES ASSUME pc = "reload" PROVE Reloads'
    BY DEF Reloads
  <2>1. PICK r \in Replies : Answered(Reload, r) /\ StandsOn(loaded_file, believed)
    BY DEF IInv, Reloads, Unanswered
  <2>2. Answered(Reload, r)' /\ StandsOn(loaded_file, believed)'
    BY <2>1, <1>4 DEF StandsOn, Reload, Answered
  <2> QED
    BY <2>2 DEF IInv, Reloads
<1>6. Rests'
  BY DEF IInv, Rests, Settled
<1>7. Awaits'
  <2> SUFFICES ASSUME pc = "reply" PROVE Awaits'
    BY DEF Awaits
  <2>1. PICK r \in Replies : Answered(command, r) /\ StandsOn(FileAfter, Learnt(r))
    BY DEF IInv, Awaits, Unanswered
  <2>2. Answered(command, r)'
    BY <2>1, <1>4 DEF Answered
  <2>3. StandsOn(FileAfter, Learnt(r))'
    BY <2>1 DEF StandsOn, FileAfter, Learnt
  <2> QED
    BY <2>2, <2>3 DEF Awaits
<1> QED
  BY <1>1, <1>2, <1>3, <1>5, <1>6, <1>7 DEF IInv

LEMMA DieIInv ==
  ASSUME IInv, Die
  PROVE  IInv'
<1> USE DEF Die, client
<1>1. SessionOK(session)' /\ BaselineAndReportAgree'
  BY SessionBlank
<1>2. Registers'
  BY DEF IInv, Registers
<1>3. Greets'
  BY DEF IInv, Greets
<1>4. ASSUME NEW file, NEW design
      PROVE  StandsOn(file, design)'
  BY DEF StandsOn
<1>5. Reloads'
  <2> SUFFICES ASSUME pc = "reload" PROVE Reloads'
    BY DEF Reloads
  <2>1. CASE Unanswered(Reload)
    BY <2>1 DEF IInv, Reloads, Unanswered
  <2>2. CASE \E r \in Replies : Answered(Reload, r)
    <3>1. PICK r \in Replies : Answered(Reload, r)
      BY <2>2
    <3>2. Answered(Reload, r)'
      BY <3>1 DEF Answered, Reload
    <3>3. StandsOn(loaded_file, believed)'
      BY <1>4
    <3> QED
      BY <3>2, <3>3 DEF IInv, Reloads
  <2> QED
    BY <2>1, <2>2 DEF IInv, Reloads
<1>6. Rests'
  BY <1>4 DEF IInv, Rests, Settled
<1>7. Awaits'
  <2> SUFFICES ASSUME pc = "reply" PROVE Awaits'
    BY DEF Awaits
  <2>1. CASE Unanswered(command)
    BY <1>4, <2>1 DEF Awaits, Unanswered
  <2>2. CASE \E r \in Replies : Answered(command, r)
    <3>1. PICK r \in Replies : Answered(command, r)
      BY <2>2
    <3>2. Answered(command, r)'
      BY <3>1 DEF Answered
    <3>3. StandsOn(FileAfter, Learnt(r))'
      BY <1>4
    <3> QED
      BY <3>2, <3>3 DEF Awaits
  <2> QED
    BY <2>1, <2>2 DEF IInv, Awaits
<1> QED
  BY <1>1, <1>2, <1>3, <1>5, <1>6, <1>7 DEF IInv

LEMMA SendIInv ==
  ASSUME IInv, Send
  PROVE  IInv'
<1> USE DEF Send, history
<1>0. pc = "idle" /\ command' \in Commands /\ command' # Greeting
  BY GreetingIsNoCommand
<1>1. CASE pc' = "write" /\ UNCHANGED <<got, process>>
  <2> USE DEF process
  <2>1. SessionOK(session)' /\ BaselineAndReportAgree'
    BY <1>1, SessionStays DEF IInv
  <2>2. Rests'
    BY <1>0, <1>1 DEF IInv, Rests, Settled, StandsOn
  <2>3. Registers' /\ Greets' /\ Reloads' /\ Awaits'
    BY <1>0, <1>1 DEF IInv, Registers, Greets, Reloads, Awaits
  <2> QED
    BY <2>1, <2>2, <2>3 DEF IInv
<1>2. CASE ~alive /\ Spawn
  <2> USE DEF Spawn
  <2>1. SessionOK(session)' /\ BaselineAndReportAgree'
    BY <1>2, SessionBlank
  <2>2. Greets'
    BY <1>0, <1>2 DEF IInv, Greets, Registers
  <2>3. Registers' /\ Rests' /\ Reloads' /\ Awaits'
    BY <1>0, <1>2 DEF IInv, Registers, Rests, Reloads, Awaits
  <2> QED
    BY <2>1, <2>2, <2>3 DEF IInv
<1> QED
  BY <1>1, <1>2

LEMMA WriteFailsIInv ==
  ASSUME IInv, WriteFails
  PROVE  IInv'
<1> USE DEF WriteFails, history
<1>0. pc = "write" /\ ~alive /\ ~intact /\ command \in Commands /\ command # Greeting
  BY GreetingIsNoCommand DEF IInv, Registers
<1>1. CASE retried
  <2> USE DEF process
  <2>0. pc' = "idle" /\ result' = WriteError(command) /\ UNCHANGED <<got, process>>
    BY <1>1
  <2>1. SessionOK(session)' /\ BaselineAndReportAgree'
    BY <2>0, SessionStays DEF IInv
  <2>2. Rests'
    BY <1>0, <2>0 DEF IInv, Rests, Settled, StandsOn
  <2>3. Registers' /\ Greets' /\ Reloads' /\ Awaits'
    BY <1>0, <2>0, ReplyFacts DEF IInv, Registers, Greets, Reloads, Awaits, WriteError
  <2> QED
    BY <2>1, <2>2, <2>3 DEF IInv
<1>2. CASE ~retried
  <2> USE DEF Spawn
  <2>0. Spawn /\ UNCHANGED result
    BY <1>2
  <2>1. SessionOK(session)' /\ BaselineAndReportAgree'
    BY <2>0, SessionBlank
  <2>2. Greets'
    BY <1>0, <2>0 DEF IInv, Greets, Registers
  <2>3. Registers' /\ Rests' /\ Reloads' /\ Awaits'
    BY <1>0, <2>0 DEF IInv, Registers, Rests, Reloads, Awaits
  <2> QED
    BY <2>1, <2>2, <2>3 DEF IInv
<1> QED
  BY <1>1, <1>2

LEMMA ReadOutputIInv ==
  ASSUME IInv, ReadOutput
  PROVE  IInv'
<1> USE DEF ReadOutput, history
<1>1. SessionOK(session)' /\ BaselineAndReportAgree'
  BY SessionStays DEF IInv
<1>2. Registers' /\ Rests'
  BY DEF IInv, Registers, Rests
<1>3. Greets'
  BY PipeFacts DEF IInv, Greets
<1>4. ASSUME NEW c, NEW r \in Replies, Answered(c, r)
      PROVE  Answered(c, r)'
  <2>1. output = <<r>> \/ output = <<r, Prompt>>
    BY <1>4, PipeFacts DEF Answered
  <2>2. CASE output = <<r>>
    <3>1. got' = r /\ output' = <<>>
      BY <2>2, PipeFacts
    <3>2. alive => stage = "prompting"
      BY <1>4, <2>2, PipeFacts DEF Answered
    <3> QED
      BY <1>4, <3>1, <3>2 DEF Answered
  <2>3. CASE output = <<r, Prompt>>
    <3>1. got' = r /\ output' = <<Prompt>>
      BY <2>3, PipeFacts
    <3>2. stage = "waiting"
      BY <1>4, <2>3, PipeFacts, RepliesAreReplies DEF Answered
    <3> QED
      BY <1>4, <3>1, <3>2 DEF Answered
  <2> QED
    BY <2>1, <2>2, <2>3
<1>5. Reloads'
  <2> SUFFICES ASSUME pc = "reload" PROVE Reloads'
    BY DEF Reloads
  <2>1. PICK r \in Replies : Answered(Reload, r) /\ StandsOn(loaded_file, believed)
    BY DEF IInv, Reloads, Unanswered
  <2>2. Answered(Reload, r)' /\ StandsOn(loaded_file, believed)'
    BY <2>1, <1>4 DEF StandsOn, Reload, Answered
  <2> QED
    BY <2>2 DEF IInv, Reloads
<1>6. Awaits'
  <2> SUFFICES ASSUME pc = "reply" PROVE Awaits'
    BY DEF Awaits
  <2>1. PICK r \in Replies : Answered(command, r) /\ StandsOn(FileAfter, Learnt(r))
    BY DEF IInv, Awaits, Unanswered
  <2>2. Answered(command, r)'
    BY <2>1, <1>4 DEF Answered
  <2>3. StandsOn(FileAfter, Learnt(r))'
    BY <2>1 DEF StandsOn, FileAfter, Learnt
  <2> QED
    BY <2>2, <2>3 DEF Awaits
<1> QED
  BY <1>1, <1>2, <1>3, <1>5, <1>6 DEF IInv

(* The end of a reply finds nothing behind it, and the process at rest.    *)
LEMMA ReplyEndsFacts ==
  ASSUME ReplyEnds, NEW c, NEW r \in Replies, Answered(c, r)
  PROVE  got = r /\ output' = <<>> /\ input = <<>> /\ (alive => stage = "waiting")
<1>1. CASE output # <<>> /\ Head(output) = Prompt /\ output' = Tail(output)
  BY <1>1, PipeFacts, RepliesAreReplies DEF Answered
<1>2. CASE output = <<>> /\ ~alive /\ UNCHANGED output
  BY <1>2, PipeFacts DEF Answered
<1> QED
  BY <1>1, <1>2 DEF ReplyEnds

LEMMA GreetedIInv ==
  ASSUME IInv, Greeted
  PROVE  IInv'
<1> USE DEF Greeted, Settle, history
<1>1. SessionOK(session)' /\ BaselineAndReportAgree'
  BY SessionStays DEF IInv
<1>2. /\ pc = "greeting" /\ input = <<>> /\ output' = <<>> /\ got' = Nothing
      /\ alive => (stage = "waiting" /\ session = BlankSession)
  BY PipeFacts DEF IInv, Greets, ReplyEnds
<1>3. BlankSession.current = NoDesign
  BY DEF BlankSession
<1>4. ASSUME NEW design \in AnyDesign
      PROVE  /\ OccursIn(NoDesign.edits, design.edits)
             /\ Len(NoDesign.edits) <= Len(design.edits)
  BY NoDesignFacts, EmptyOccurs DEF AnyDesign
<1>5. CASE command = Greeting /\ pc' = "idle" /\ UNCHANGED input
  <2>1. loaded_file = NoFile /\ NoFile \notin Readable /\ believed = NoDesign /\ result = Nothing
    BY <1>2, <1>5, FilesAssumption DEF IInv, Greets
  <2>2. StandsOn(loaded_file, believed)'
    BY <1>2, <1>3, <1>4, <2>1, NoDesignFacts DEF StandsOn
  <2>3. Rests'
    BY <1>2, <1>5, <2>2 DEF Rests, Settled
  <2>4. Registers' /\ Greets' /\ Reloads' /\ Awaits'
    BY <1>2, <1>5, <2>1 DEF IInv, Registers, Greets, Reloads, Awaits
  <2> QED
    BY <1>1, <2>3, <2>4 DEF IInv
<1>6. CASE /\ command # Greeting /\ loaded_file # NoFile /\ alive
           /\ pc' = "reload" /\ input' = Append(input, Reload)
  <2>1. input' = <<Reload>> /\ ~intact /\ loaded_file \in Files
    BY <1>2, <1>6, PipeFacts DEF IInv, Greets, Registers
  <2>2. Unanswered(Reload)'
    BY <1>2, <1>6, <2>1 DEF Unanswered, Reload
  <2>3. Reloads'
    BY <1>2, <1>6, <2>1, <2>2 DEF Reloads, Reload
  <2>4. Registers' /\ Greets' /\ Rests' /\ Awaits'
    BY <1>2, <1>6 DEF IInv, Registers, Greets, Rests, Awaits
  <2> QED
    BY <1>1, <2>3, <2>4 DEF IInv
<1>7. CASE /\ command # Greeting /\ ~(loaded_file # NoFile /\ alive)
           /\ pc' = "write" /\ UNCHANGED input
  <2>1. ~intact /\ believed \in AnyDesign /\ command \in Commands
    BY <1>2, <1>7 DEF IInv, Greets, Registers
  <2>2. StandsOn(loaded_file, believed)'
    BY <1>2, <1>3, <1>4, <1>7, <2>1, FilesAssumption DEF StandsOn
  <2>3. Rests'
    BY <1>2, <1>7, <2>2 DEF Rests, Settled
  <2>4. Registers' /\ Greets' /\ Reloads' /\ Awaits'
    BY <1>2, <1>7, <2>1 DEF IInv, Registers, Greets, Reloads, Awaits
  <2> QED
    BY <1>1, <2>3, <2>4 DEF IInv
<1> QED
  BY <1>5, <1>6, <1>7 DEF Reload

LEMMA ReloadedIInv ==
  ASSUME IInv, Reloaded
  PROVE  IInv'
<1> USE DEF Reloaded, history
<1>1. SessionOK(session)' /\ BaselineAndReportAgree'
  BY SessionStays DEF IInv
<1>2. Rests'
  <2>1. CASE Unanswered(Reload)
    <3>1. ~alive /\ input = <<>> /\ output' = <<>>
      BY <2>1 DEF Unanswered, ReplyEnds
    <3> QED
      BY <3>1 DEF Rests, Settled, StandsOn
  <2>2. CASE \E r \in Replies : Answered(Reload, r) /\ StandsOn(loaded_file, believed)
    <3>1. /\ output' = <<>> /\ input = <<>> /\ (alive => stage = "waiting")
          /\ StandsOn(loaded_file, believed)
      BY <2>2, ReplyEndsFacts
    <3> QED
      BY <3>1 DEF Rests, Settled, StandsOn
  <2> QED
    BY <2>1, <2>2 DEF IInv, Reloads
<1>3. Registers' /\ Greets' /\ Reloads' /\ Awaits'
  BY DEF IInv, Registers, Greets, Reloads, Awaits
<1> QED
  BY <1>1, <1>2, <1>3 DEF IInv

LEMMA WriteCommandIInv ==
  ASSUME IInv, WriteCommand
  PROVE  IInv'
<1> USE DEF WriteCommand, history
<1>1. SessionOK(session)' /\ BaselineAndReportAgree'
  BY SessionStays DEF IInv
<1>2. Settled /\ StandsOn(loaded_file, believed)
  BY DEF IInv, Rests
<1>3. Unanswered(command)'
  BY <1>2, PipeFacts DEF Unanswered, Settled
<1>4. Awaits'
  BY <1>2, <1>3 DEF Awaits, StandsOn
<1>5. Registers' /\ Greets' /\ Reloads' /\ Rests'
  BY DEF IInv, Registers, Greets, Reloads, Rests
<1> QED
  BY <1>1, <1>4, <1>5 DEF IInv

LEMMA LearntIsDesign ==
  ASSUME Registers, command \in Commands, pc = "reply", NEW r
  PROVE  Learnt(r) \in AnyDesign /\ Len(Learnt(r).edits) <= MaxEdits
<1> USE EditsAssumption
<1>1. /\ believed \in AnyDesign /\ Len(believed.edits) <= MaxEdits
      /\ Len(believed.edits) \in Nat
      /\ command.verb = "edit" => Len(believed.edits) < MaxEdits
  BY DEF Registers, AnyDesign
<1>2. CASE r # Nothing /\ command.verb = "read" /\ r.ok
  BY <1>2, CommandFacts, FreshFacts DEF Learnt
<1>3. CASE r # Nothing /\ command.verb = "edit" /\ r.changed
  BY <1>1, <1>3, CommandFacts, EditedFacts DEF Learnt
<1> QED
  BY <1>1, <1>2, <1>3 DEF Learnt

LEMMA ReturnIInv ==
  ASSUME IInv, Return
  PROVE  IInv'
<1> USE DEF Return
<1>1. SessionOK(session)' /\ BaselineAndReportAgree'
  BY SessionStays DEF IInv
<1>2. command \in Commands /\ loaded_file' = FileAfter /\ believed' = Learnt(got)
  BY DEF IInv, Registers, FileAfter
<1>3. /\ FileAfter \in Files \cup {NoFile}
      /\ Learnt(got) \in AnyDesign /\ Len(Learnt(got).edits) <= MaxEdits
  BY <1>2, CommandFacts, LearntIsDesign DEF IInv, Registers, FileAfter
<1>4. /\ output' = <<>> /\ input = <<>> /\ (alive => stage = "waiting")
      /\ alive => StandsOn(FileAfter, Learnt(got))
      /\ got # Nothing => got \in Replies /\ got.to = command
  <2>1. CASE Unanswered(command)
    <3>1. ~alive /\ got = Nothing /\ input = <<>> /\ output' = <<>>
      BY <2>1 DEF Unanswered, ReplyEnds
    <3> QED
      BY <3>1
  <2>2. CASE \E r \in Replies : Answered(command, r) /\ StandsOn(FileAfter, Learnt(r))
    <3>1. PICK r \in Replies : Answered(command, r) /\ StandsOn(FileAfter, Learnt(r))
      BY <2>2
    <3>2. r.to = command
      BY <3>1 DEF Answered
    <3>3. /\ got = r /\ output' = <<>> /\ input = <<>>
          /\ alive => stage = "waiting"
      BY <3>1, ReplyEndsFacts
    <3>4. StandsOn(FileAfter, Learnt(got))
      BY <3>1, <3>3
    <3> QED
      BY <3>2, <3>3, <3>4
  <2> QED
    BY <2>1, <2>2 DEF IInv, Awaits
<1>5. Rests'
  BY <1>2, <1>4 DEF Rests, Settled, StandsOn
<1>6. Registers'
  <2>1. result' = got /\ pc' = "idle" /\ UNCHANGED <<command, retried, alive, stage, input, session, intact>>
    OBVIOUS
  <2> QED
    BY <1>2, <1>3, <1>4, <2>1 DEF IInv, Registers
<1>7. Greets' /\ Reloads' /\ Awaits'
  BY DEF Greets, Reloads, Awaits
<1> QED
  BY <1>1, <1>5, <1>6, <1>7 DEF IInv

LEMMA StutterIInv ==
  ASSUME IInv, UNCHANGED vars
  PROVE  IInv'
<1> USE DEF vars, client, process, history
<1>1. SessionOK(session)' /\ BaselineAndReportAgree'
  BY SessionStays DEF IInv
<1>2. Registers' /\ Greets' /\ Rests'
  BY DEF IInv, Registers, Greets, Rests, Settled, StandsOn
<1>3. Reloads' /\ Awaits'
  BY DEF IInv, Reloads, Awaits, Unanswered, Answered, StandsOn, Reload, FileAfter, Learnt
<1> QED
  BY <1>1, <1>2, <1>3 DEF IInv

(* What the client will believe is what the command made of the design.    *)
LEMMA ObeyStandsOn ==
  ASSUME IInv, pc = "reply", alive, StandsOn(loaded_file, believed),
         NEW o \in Outcomes(session, command), session' = o[1],
         alive' = (command.verb # "quit"),
         intact' = CASE command.verb = "quit" -> FALSE
                     [] command.verb = "read" /\ pc = "reply" -> intact \/ o[2].ok
                     [] OTHER -> intact,
         UNCHANGED client, UNCHANGED believed
  PROVE  StandsOn(FileAfter, Learnt(o[2]))'
<1> DEFINE r == o[2]
<1>0. SessionOK(session) /\ Agree(session) /\ command \in Commands /\ believed \in AnyDesign
  BY DEF IInv, Registers, BaselineAndReportAgree, Agree
<1>1. r \in Replies /\ r # Nothing
  BY <1>0, OutcomeCases, RepliesAreReplies
<1>2. FileAfter' = FileAfter /\ Learnt(r)' = Learnt(r)
  BY DEF client, FileAfter, Learnt
<1>3. /\ loaded_file \in Readable => session.loaded /\ session.current.file = loaded_file
      /\ intact => session.current = believed
      /\ OccursIn(session.current.edits, believed.edits)
      /\ Len(session.current.edits) <= Len(believed.edits)
  BY DEF StandsOn
<1>4. session.current \in AnyDesign
  BY <1>0 DEF SessionOK
<1>5. CASE /\ o[1] = session /\ ~r.changed /\ command.verb # "quit"
           /\ command.verb = "read" => ~r.ok /\ command.arg \notin Readable
  <2>1. Learnt(r) = believed /\ (FileAfter \in Readable => FileAfter = loaded_file)
    BY <1>1, <1>5 DEF Learnt, FileAfter
  <2>2. intact' => intact
    BY <1>5
  <2> QED
    BY <1>2, <1>3, <1>5, <2>1, <2>2 DEF StandsOn
<1>6. CASE /\ command.verb = "edit" /\ session.loaded
           /\ \E changed \in BOOLEAN :
                o[1] = Ran(session, command.arg, changed) /\ r.changed = changed
  <2>1. PICK changed \in BOOLEAN :
          o[1] = Ran(session, command.arg, changed) /\ r.changed = changed
    BY <1>6
  <2>2. command.arg \in Edits
    BY <1>0, <1>6, CommandFacts
  <2>3. /\ session'.loaded /\ session'.current.file = session.current.file
        /\ session'.current = IF changed THEN Edited(session.current, command.arg)
                                         ELSE session.current
    BY <1>0, <1>6, <2>1, <2>2, RanFacts
  <2>4. FileAfter = loaded_file /\ (intact' => intact)
    BY <1>6 DEF FileAfter
  <2>5. Learnt(r) = IF changed THEN Edited(believed, command.arg) ELSE believed
    BY <1>1, <1>6, <2>1 DEF Learnt
  <2>6. /\ OccursIn(session'.current.edits, Learnt(r).edits)
        /\ Len(session'.current.edits) <= Len(Learnt(r).edits)
    <3>1. CASE changed
      <4>1. /\ session'.current.edits = Append(session.current.edits, command.arg)
            /\ Learnt(r).edits = Append(believed.edits, command.arg)
        <5>1. /\ session'.current = Edited(session.current, command.arg)
              /\ Learnt(r) = Edited(believed, command.arg)
          BY <2>3, <2>5, <3>1
        <5>2. /\ Edited(session.current, command.arg).edits
                   = Append(session.current.edits, command.arg)
              /\ Edited(believed, command.arg).edits = Append(believed.edits, command.arg)
          BY <1>0, <1>4, <2>2, EditedFacts
        <5> QED
          BY <5>1, <5>2
      <4>2. session.current.edits \in Seq(Edits) /\ believed.edits \in Seq(Edits)
        BY <1>0, <1>4 DEF AnyDesign
      <4>3. /\ Len(Append(session.current.edits, command.arg)) = Len(session.current.edits) + 1
            /\ Len(Append(believed.edits, command.arg)) = Len(believed.edits) + 1
            /\ Len(session.current.edits) \in Nat /\ Len(believed.edits) \in Nat
        BY <2>2, <4>2
      <4> QED
        BY <1>3, <2>2, <4>1, <4>2, <4>3, AppendOccurs
    <3>2. CASE ~changed
      BY <1>3, <2>3, <2>5, <3>2
    <3> QED
      BY <3>1, <3>2
  <2>7. intact' => session'.current = Learnt(r)
    BY <1>3, <2>3, <2>4, <2>5
  <2> QED
    BY <1>2, <1>3, <2>3, <2>4, <2>6, <2>7 DEF StandsOn
<1>7. CASE /\ command.verb = "read" /\ command.arg \in Readable
           /\ o[1] = Loaded(session, command.arg) /\ r.ok /\ ~r.changed
  <2>1. command.arg \in Files
    BY <1>0, <1>7, CommandFacts
  <2>2. session'.loaded /\ session'.current = Fresh(command.arg)
    BY <1>0, <1>7, <2>1, LoadedFacts
  <2>3. FileAfter = command.arg /\ Learnt(r) = Fresh(command.arg)
    BY <1>1, <1>7 DEF FileAfter, Learnt
  <2>4. Fresh(command.arg).file = command.arg /\ Fresh(command.arg).edits = <<>>
    BY <2>1, FreshFacts
  <2>5. OccursIn(<<>>, <<>>) /\ Len(<<>>) <= Len(<<>>)
    <3>1. <<>> \in Seq(Edits)
      OBVIOUS
    <3> QED
      BY <3>1, EmptyOccurs
  <2> QED
    BY <1>2, <2>2, <2>3, <2>4, <2>5 DEF StandsOn
<1>8. CASE command.verb = "quit" /\ o[1] = BlankSession
  BY <1>8 DEF StandsOn
<1> QED
  BY <1>0, <1>5, <1>6, <1>7, <1>8, OutcomeCases

LEMMA ObeyIInv ==
  ASSUME IInv, Obey
  PROVE  IInv'
<1> DEFINE c == Head(input)
<1>0. SessionOK(session) /\ Agree(session) /\ alive /\ stage = "waiting" /\ input # <<>>
  BY DEF IInv, BaselineAndReportAgree, Agree, Obey
<1>1. PICK o \in Outcomes(session, c) :
        /\ session' = o[1] /\ output' = Append(output, o[2])
        /\ alive' = (c.verb # "quit")
        /\ stage' = IF c.verb = "quit" THEN "waiting" ELSE "prompting"
        /\ intact' = CASE c.verb = "quit" -> FALSE
                       [] c.verb = "read" /\ pc = "reply" -> intact \/ o[2].ok
                       [] OTHER -> intact
  BY DEF Obey
<1>2. UNCHANGED client /\ UNCHANGED believed /\ input' = Tail(input)
  BY DEF Obey
<1>3. UNCHANGED <<pc, command, retried, loaded_file, got, result>>
  BY <1>2 DEF client
<1>4. \/ pc = "reload" /\ Unanswered(Reload)
      \/ pc = "reply" /\ Unanswered(command) /\ StandsOn(loaded_file, believed)
  BY <1>0 DEF IInv, Registers, Greets, Reloads, Rests, Awaits, Answered, Settled
<1>5. CASE pc = "reload" /\ Unanswered(Reload)
  <2>1. /\ output = <<>> /\ got = Nothing /\ input = <<Reload>> /\ c = Reload
        /\ session = BlankSession /\ ~intact /\ loaded_file \in Files
    BY <1>0, <1>5, PipeFacts DEF IInv, Reloads, Unanswered, Answered
  <2>2. Reload \in Commands /\ Reload.verb = "read" /\ Reload.arg = loaded_file
    BY <2>1 DEF Reload, Commands
  <2>3. o[2] \in Replies /\ o[2].to = Reload
    BY <2>1, <2>2, OutcomeCases
  <2>4. output' = <<o[2]>> /\ input' = <<>> /\ alive' /\ stage' = "prompting" /\ ~intact'
    BY <1>1, <1>2, <1>5, <2>1, <2>2, PipeFacts
  <2>5. Answered(Reload, o[2])'
    BY <1>3, <2>1, <2>3, <2>4 DEF Answered, Reload
  <2>6. StandsOn(loaded_file, believed)'
    <3>1. /\ believed \in AnyDesign
          /\ OccursIn(<<>>, believed.edits) /\ Len(<<>>) <= Len(believed.edits)
      BY EmptyOccurs DEF IInv, Registers, AnyDesign
    <3>2. CASE session' = Loaded(session, loaded_file)
      BY <1>0, <1>2, <1>3, <2>1, <2>4, <3>1, <3>2, LoadedFacts, FreshFacts DEF StandsOn
    <3>3. CASE session' = session /\ loaded_file \notin Readable
      BY <1>2, <1>3, <2>1, <2>4, <3>1, <3>3, NoDesignFacts DEF StandsOn, BlankSession
    <3> QED
      BY <1>1, <2>1, <2>2, <3>2, <3>3, OutcomeCases
  <2>7. SessionOK(session)' /\ BaselineAndReportAgree'
    BY <1>0, <1>1, <2>1, <2>2, OutcomesFine DEF SessionOK, Agree, BaselineAndReportAgree
  <2>8. Reloads'
    BY <1>3, <2>1, <2>3, <2>4, <2>5, <2>6 DEF Reloads, Reload
  <2>9. intact' = intact
    BY <1>1, <1>5, <2>1, <2>2
  <2>10. Registers' /\ Greets' /\ Rests' /\ Awaits'
    BY <1>2, <1>3, <1>5, <2>4, <2>9 DEF IInv, Registers, Greets, Rests, Awaits
  <2> QED
    BY <2>7, <2>8, <2>10 DEF IInv
<1>6. CASE pc = "reply" /\ Unanswered(command) /\ StandsOn(loaded_file, believed)
  <2>1. /\ output = <<>> /\ got = Nothing /\ input = <<command>> /\ c = command
        /\ command \in Commands
    BY <1>0, <1>6, PipeFacts DEF IInv, Registers, Unanswered
  <2>2. o[2] \in Replies /\ o[2].to = command /\ (c.verb = "quit" => o[1] = BlankSession)
    BY <2>1, OutcomeCases
  <2>3. /\ output' = <<o[2]>> /\ input' = <<>>
        /\ alive' \in BOOLEAN /\ (alive' => stage' = "prompting")
        /\ ~alive' => (stage' = "waiting" /\ ~intact' /\ session' = BlankSession)
    BY <1>1, <1>2, <2>1, <2>2, PipeFacts
  <2>4. Answered(command, o[2])'
    BY <1>3, <2>1, <2>2, <2>3 DEF Answered
  <2>5. StandsOn(FileAfter, Learnt(o[2]))'
    BY <1>0, <1>1, <1>2, <1>6, <2>1, ObeyStandsOn
  <2>6. SessionOK(session)' /\ BaselineAndReportAgree'
    BY <1>0, <1>1, <2>1, OutcomesFine DEF SessionOK, Agree, BaselineAndReportAgree
  <2>7. Awaits'
    BY <1>3, <2>2, <2>4, <2>5 DEF Awaits
  <2>8. intact' \in BOOLEAN
    BY <1>1, <2>1, <2>2 DEF Replies, IInv, Registers
  <2>9. Registers' /\ Greets' /\ Rests' /\ Reloads'
    BY <1>2, <1>3, <1>6, <2>3, <2>8 DEF IInv, Registers, Greets, Rests, Reloads
  <2> QED
    BY <2>6, <2>7, <2>9 DEF IInv
<1> QED
  BY <1>4, <1>5, <1>6

LEMMA InitIInv == Init => IInv
<1> SUFFICES ASSUME Init PROVE IInv
  OBVIOUS
<1> USE DEF Init
<1>1. SessionOK(session) /\ BaselineAndReportAgree
  BY BlankFacts DEF Agree, BaselineAndReportAgree
<1>2. Registers
  <2>1. Len(NoDesign.edits) <= MaxEdits /\ Greeting.verb # "edit"
    BY EditsAssumption DEF NoDesign, Greeting
  <2> QED
    BY <2>1, NoDesignFacts DEF Registers
<1>3. Greets
  BY DEF Greets
<1>4. Reloads /\ Rests /\ Awaits
  BY DEF Reloads, Rests, Awaits
<1> QED
  BY <1>1, <1>2, <1>3, <1>4 DEF IInv

LEMMA NextIInv == IInv /\ [Next]_vars => IInv'
<1> SUFFICES ASSUME IInv, [Next]_vars PROVE IInv'
  OBVIOUS
<1>1. CASE Tool
  BY <1>1, PrintPromptIInv, ObeyIInv DEF Tool
<1>2. CASE Client
  BY <1>2, ReadOutputIInv, GreetedIInv, ReloadedIInv, WriteCommandIInv, WriteFailsIInv,
     ReturnIInv DEF Client
<1>3. CASE Send
  BY <1>3, SendIInv
<1>4. CASE Die
  BY <1>4, DieIInv
<1>5. CASE UNCHANGED vars
  BY <1>5, StutterIInv
<1> QED
  BY <1>1, <1>2, <1>3, <1>4, <1>5 DEF Next

LEMMA Invariance == Spec => []IInv
BY InitIInv, NextIInv, PTL DEF Spec

-----------------------------------------------------------------------------
(* The results.                                                            *)

(* Types, and that a pipe never holds more than a line one way, and a      *)
(* reply and a prompt the other.                                           *)
THEOREM Typed == Spec => []TypeOK
<1>1. ASSUME NEW d \in AnyDesign, Len(d.edits) <= MaxEdits
      PROVE  d \in Designs
  <2>1. Len(d.edits) \in 0..MaxEdits /\ d.edits \in [1..Len(d.edits) -> Edits]
    BY <1>1, EditsAssumption DEF AnyDesign
  <2>2. d.edits \in UNION {[1..n -> Edits] : n \in 0..MaxEdits}
    BY <2>1
  <2> QED
    BY <2>2 DEF AnyDesign, Designs
<1>2. ASSUME NEW f, NEW d \in AnyDesign, StandsOn(f, d), Len(d.edits) <= MaxEdits, IInv
      PROVE  Len(session.current.edits) <= MaxEdits
  <2>1. /\ session.current \in AnyDesign /\ Len(session.current.edits) \in Nat
        /\ Len(d.edits) \in Nat
    BY <1>2 DEF IInv, SessionOK, AnyDesign
  <2>2. CASE alive
    BY <1>2, <2>1, <2>2, EditsAssumption DEF StandsOn
  <2>3. CASE ~alive
    <3>1. session.current.edits = <<>>
      BY <1>2, <2>3, NoDesignFacts DEF IInv, Registers, BlankSession
    <3> QED
      BY <3>1, EditsAssumption
  <2> QED
    BY <2>2, <2>3
<1>3. IInv => Len(session.current.edits) <= MaxEdits
  <2> SUFFICES ASSUME IInv PROVE Len(session.current.edits) <= MaxEdits
    OBVIOUS
  <2>1. believed \in AnyDesign /\ Len(believed.edits) <= MaxEdits
    BY DEF IInv, Registers
  <2>2. CASE session = BlankSession
    <3>1. session.current.edits = <<>>
      BY <2>2, NoDesignFacts DEF BlankSession
    <3> QED
      BY <3>1, EditsAssumption
  <2>3. CASE \E f : StandsOn(f, believed)
    BY <1>2, <2>1, <2>3
  <2>4. CASE pc = "reply" /\ \E r \in Replies : StandsOn(FileAfter, Learnt(r))
    BY <1>2, <2>4, LearntIsDesign DEF IInv, Registers
  <2> QED
    BY <2>2, <2>3, <2>4 DEF IInv, Registers, Greets, Reloads, Rests, Awaits
<1>4. IInv => session.current \in Designs /\ session.baseline \in Designs
  <2> SUFFICES ASSUME IInv PROVE session.current \in Designs /\ session.baseline \in Designs
    OBVIOUS
  <2>1. /\ session.current \in AnyDesign /\ session.baseline \in AnyDesign
        /\ Len(session.current.edits) <= MaxEdits
        /\ session.report \in [edit : Edits \cup {NoFile}, changed : BOOLEAN]
    BY <1>3 DEF IInv, SessionOK
  <2>2. Len(session.baseline.edits) <= MaxEdits
    <3>1. CASE session.report = NoReport
      <4>1. session.baseline = NoDesign
        BY <3>1 DEF IInv, BaselineAndReportAgree
      <4> QED
        BY <4>1, NoDesignFacts, EditsAssumption
    <3>2. CASE session.report # NoReport /\ ~session.report.changed
      BY <2>1, <3>2 DEF IInv, BaselineAndReportAgree
    <3>3. CASE session.report # NoReport /\ session.report.changed
      <4>1. session.current = Edited(session.baseline, session.report.edit)
        BY <3>3 DEF IInv, BaselineAndReportAgree
      <4>2. /\ session.current.edits = Append(session.baseline.edits, session.report.edit)
            /\ session.baseline.edits \in Seq(Edits \cup {NoFile})
            /\ session.report.edit \in Edits \cup {NoFile}
        BY <2>1, <4>1 DEF Edited, AnyDesign
      <4>3. /\ Len(session.current.edits) = Len(session.baseline.edits) + 1
            /\ Len(session.baseline.edits) \in Nat
        BY <4>2
      <4> QED
        BY <2>1, <4>3, EditsAssumption
    <3> QED
      BY <3>1, <3>2, <3>3
  <2> QED
    BY <1>1, <2>1, <2>2
<1> DEFINE PipesOK ==
             /\ got \in Replies \cup {Nothing} /\ stage \in {"prompting", "waiting"}
             /\ input \in Seq(Commands) /\ Len(input) <= 1
             /\ output \in Seq(Replies \cup {Prompt}) /\ Len(output) <= 2
<1>5. IInv => PipesOK
  <2> SUFFICES ASSUME IInv PROVE PipesOK
    OBVIOUS
  <2>1. alive \in BOOLEAN /\ (~alive => stage = "waiting")
    BY DEF IInv, Registers
  <2>2. CASE Settled
    BY <2>1, <2>2 DEF Settled
  <2>3. CASE pc = "greeting"
    <3>1. input = <<>> /\ got = Nothing /\ (output = <<>> \/ output = <<Prompt>>)
      BY <2>3 DEF IInv, Greets
    <3>3. output \in Seq(Replies \cup {Prompt}) /\ Len(output) <= 2
      <4>1. CASE output = <<>>
        BY <4>1
      <4>2. CASE output = <<Prompt>>
        BY <4>2
      <4> QED
        BY <3>1, <4>1, <4>2
    <3>4. stage \in {"prompting", "waiting"}
      BY <2>1, <2>3 DEF IInv, Greets
    <3> QED
      BY <3>1, <3>3, <3>4
  <2>4. CASE \E c \in Commands : Unanswered(c)
    <3>1. PICK c \in Commands : Unanswered(c)
      BY <2>4
    <3>2. input = <<c>> \/ input = <<>>
      BY <3>1 DEF Unanswered
    <3>3. input \in Seq(Commands) /\ Len(input) <= 1
      <4>1. CASE input = <<>>
        BY <4>1
      <4>2. CASE input = <<c>>
        BY <4>2
      <4> QED
        BY <3>2, <4>1, <4>2
    <3>4. got = Nothing /\ output = <<>> /\ stage = "waiting"
      BY <3>1 DEF Unanswered
    <3> QED
      BY <3>3, <3>4
  <2>5. CASE \E c \in Commands : \E r \in Replies : Answered(c, r)
    <3>1. PICK c \in Commands, r \in Replies : Answered(c, r)
      BY <2>5
    <3>2. \/ output = <<r>> \/ output = <<>>
          \/ output = <<r, Prompt>> \/ output = <<Prompt>>
      BY <3>1 DEF Answered
    <3>3. output \in Seq(Replies \cup {Prompt}) /\ Len(output) <= 2
      <4>1. CASE output = <<>>
        BY <4>1
      <4>2. CASE output = <<r>>
        BY <4>2
      <4>3. CASE output = <<r, Prompt>>
        BY <4>3
      <4>4. CASE output = <<Prompt>>
        BY <4>4
      <4> QED
        BY <3>2, <4>1, <4>2, <4>3, <4>4
    <3>4. got \in Replies \cup {Nothing} /\ input = <<>> /\ stage \in {"prompting", "waiting"}
      BY <2>1, <3>1 DEF Answered
    <3> QED
      BY <3>3, <3>4
  <2>6. pc = "reload" => Reload \in Commands
    BY DEF IInv, Reloads, Reload, Commands
  <2> QED
    BY <2>2, <2>3, <2>4, <2>5, <2>6 DEF IInv, Registers, Reloads, Rests, Awaits
<1>6. IInv => TypeOK
  <2> SUFFICES ASSUME IInv PROVE TypeOK
    OBVIOUS
  <2>1. believed \in Designs
    BY <1>1 DEF IInv, Registers
  <2> QED
    BY <1>4, <1>5, <2>1 DEF IInv, Registers, TypeOK
<1> QED
  BY <1>6, Invariance, PTL

(* What send() returns is the reply to the command it sent, through any    *)
(* deaths, restarts and reloads, and it leaves nothing in the pipes.       *)
THEOREM RepliesStayInStep == Spec => []InStep
<1>1. IInv => InStep
  <2> SUFFICES ASSUME IInv PROVE InStep
    OBVIOUS
  <2>1. ASSUME pc = "reply", NEW r \in {got} \cup {output[i] : i \in DOMAIN output},
               r \notin {Nothing, Prompt}
        PROVE  r.to = command
    <3>1. CASE Unanswered(command)
      BY <2>1, <3>1 DEF Unanswered
    <3>2. CASE \E q \in Replies : Answered(command, q)
      BY <2>1, <3>2 DEF Answered
    <3> QED
      BY <2>1, <3>1, <3>2 DEF IInv, Awaits
  <2>2. ASSUME pc = "idle"
        PROVE  /\ result # Nothing => result.to = command
               /\ output = <<>> /\ input = <<>> /\ (alive => stage = "waiting")
    BY <2>2 DEF IInv, Registers, Rests, Settled
  <2> QED
    BY <2>1, <2>2 DEF InStep
<1> QED
  BY <1>1, Invariance, PTL

(* After any restart the tool stands on the file the last read asked for,  *)
(* if that can be read.                                                    *)
THEOREM RestartsReload == Spec => []StandsOnLastRead
<1>1. IInv => StandsOnLastRead
  BY DEF IInv, Rests, StandsOn, StandsOnLastRead
<1> QED
  BY <1>1, Invariance, PTL

(* While no process has died since the design was read, the tool's design  *)
(* is the one its replies told of.                                         *)
THEOREM RepliesTellTheDesign == Spec => []BeliefHolds
<1>1. IInv => BeliefHolds
  BY DEF IInv, Rests, StandsOn, BeliefHolds
<1> QED
  BY <1>1, Invariance, PTL

(* However often it died, no edit is in the design that no reply told of,  *)
(* and none twice or out of order.                                         *)
THEOREM NoEditOutOfNowhere == Spec => []EditsWereReported
<1>1. IInv => EditsWereReported
  BY DEF IInv, Rests, StandsOn, EditsWereReported
<1> QED
  BY <1>1, Invariance, PTL

(* The report and the baseline that questions are answered from are of one *)
(* edit, which made the current design.                                    *)
THEOREM QuestionsAreOfOneEdit == Spec => []BaselineAndReportAgree
<1>1. IInv => BaselineAndReportAgree
  BY DEF IInv
<1> QED
  BY <1>1, Invariance, PTL
=============================================================================
