----------------------------- MODULE ToolSession -----------------------------
(***************************************************************************)
(* ToolSession (tools.cpp): what one run of the command-line tool keeps    *)
(* between commands, and what a command does to it.                        *)
(*                                                                         *)
(* A design is the file it was read from and the edits it has been through *)
(* since, oldest first. A session holds the current design, the snapshot   *)
(* of the load, and the baseline and the report of the last edit; a        *)
(* command takes a session to one of the sessions Outcomes gives, with     *)
(* the reply the tool prints.                                              *)
(***************************************************************************)
EXTENDS Naturals, Sequences

CONSTANTS
  Files,      \* the Verilog files a read may name
  Readable,   \* those the reader accepts
  Edits,      \* the edit_apply and opt_apply commands
  NoFile      \* no file was ever read

ASSUME FilesAssumption ==
  Readable \subseteq Files /\ NoFile \notin Files \cup Edits

NoDesign == [file |-> NoFile, edits |-> <<>>]
Fresh(f) == [file |-> f, edits |-> <<>>]
Edited(d, e) == [d EXCEPT !.edits = Append(@, e)]

NoReport == [edit |-> NoFile, changed |-> FALSE]

Commands ==
  [verb : {"read"}, arg : Files] \cup [verb : {"edit"}, arg : Edits]
    \cup [verb : {"write", "report_query", "quit"}, arg : {NoFile}]
    \cup [verb : {"equiv_query"}, arg : {"original", "previous_edit"}]

Replies ==
  [to : Commands, ok : BOOLEAN, complete : BOOLEAN, changed : BOOLEAN,
   status : {"ok", "no_change", "partial", "timeout", "unsupported", "error"}]

(* The session a new process starts with.                                  *)
BlankSession ==
  [loaded |-> FALSE, current |-> NoDesign, original |-> NoDesign,
   baseline |-> NoDesign, report |-> NoReport, revision |-> 0]

-----------------------------------------------------------------------------
(* TOOL_RESULT; changed is true when the reply is read as a change that was *)
(* made and kept (a report of an edit that was rolled back may print its own *)
(* changed flag, with success false beside it).                            *)
Reply(c, ok, status, complete) ==
  [to |-> c, ok |-> ok, status |-> status, complete |-> complete,
   changed |-> FALSE]

(* emitToolError                                                           *)
Refused(c) == Reply(c, FALSE, "error", FALSE)

(* What send() (agent_final.py) makes up when it cannot write: there is no *)
(* complete line in it, which a caller takes for a complete result.        *)
WriteError(c) == Reply(c, FALSE, "error", TRUE)

(* Mutant: a read keeps what the edits of the last design left behind.     *)
LoadedOver(s, f) ==
  [s EXCEPT !.loaded = TRUE, !.current = Fresh(f), !.original = Fresh(f),
            !.revision = 0]

(* A design that was read replaces all a session has.                      *)
Loaded(s, f) ==
  [s EXCEPT !.loaded = TRUE, !.current = Fresh(f), !.original = Fresh(f),
            !.baseline = NoDesign, !.report = NoReport, !.revision = 0]

(* Mutant: the file is read into the current netlist.                      *)
ReadInPlace(s, c) ==
  IF c.arg \in Readable THEN {<<Loaded(s, c.arg), Reply(c, TRUE, "ok", TRUE)>>}
                        ELSE {<<[s EXCEPT !.current = NoDesign], Refused(c)>>}

(* The netlist is read into a temporary first: a read that fails touches   *)
(* nothing.                                                                *)
ReadOutcomes(s, c) ==
  IF c.arg \in Readable THEN {<<Loaded(s, c.arg), Reply(c, TRUE, "ok", TRUE)>>}
                        ELSE {<<s, Refused(c)>>}

(* Mutant: an edit that failed is not rolled back.                         *)
RanWithoutRollback(s, e, changed) ==
  [s EXCEPT !.report   = [edit |-> e, changed |-> changed],
            !.baseline = s.current,
            !.current  = Edited(@, e),
            !.revision = IF changed THEN @ + 1 ELSE @]

(* An edit that ran: baseline and report are those of this edit whatever   *)
(* came of it; a failed one was rolled back.                               *)
Ran(s, e, changed) ==
  [s EXCEPT !.report   = [edit |-> e, changed |-> changed],
            !.baseline = s.current,
            !.current  = IF changed THEN Edited(@, e) ELSE @,
            !.revision = IF changed THEN @ + 1 ELSE @]

EditStatus(ok, changed, late) ==
  IF late THEN "timeout" ELSE IF ~ok THEN "error"
  ELSE IF changed THEN "ok" ELSE "no_change"

(* opt_apply calls a result complete when it succeeded, edit_apply only    *)
(* when no stage of it ran out of time either. The command may also be     *)
(* refused before it runs, for its arguments.                              *)
EditOutcomes(s, c) ==
  {<<s, Refused(c)>>} \cup
  { <<Ran(s, c.arg, end.changed),
      [Reply(c, end.ok, EditStatus(end.ok, end.changed, end.late),
             end.ok /\ (end.optimizer \/ ~end.late))
         EXCEPT !.changed = end.changed]>> :
    end \in {e \in [ok : BOOLEAN, changed : BOOLEAN, late : BOOLEAN, optimizer : BOOLEAN] :
               e.changed => e.ok} }

(* The queries read the session and leave it alone: a write may fail, a    *)
(* comparison with a baseline there is may end in any way, a report is     *)
(* repeated as it was.                                                     *)
QueryOutcomes(s, c) ==
  {<<s, r>> : r \in
    CASE c.verb = "write" ->
           {Reply(c, TRUE, "ok", TRUE), Refused(c)}
      [] c.verb = "equiv_query" /\ (c.arg = "original" \/ s.baseline # NoDesign) ->
           {Reply(c, TRUE, "ok", TRUE), Reply(c, TRUE, "partial", FALSE),
            Reply(c, FALSE, "timeout", FALSE),
            Reply(c, FALSE, "unsupported", FALSE), Refused(c)}
      [] c.verb = "report_query" /\ s.report # NoReport ->
           {Reply(c, TRUE, "ok", TRUE)}
      [] OTHER -> {Refused(c)}}

(* dispatchCommand: all but read and quit want a design.                   *)
Outcomes(s, c) ==
  CASE c.verb = "quit" -> {<<BlankSession, Reply(c, TRUE, "ok", TRUE)>>}
    [] c.verb = "read" -> ReadOutcomes(s, c)
    [] OTHER -> IF ~s.loaded THEN {<<s, Refused(c)>>}
                ELSE IF c.verb = "edit" THEN EditOutcomes(s, c)
                ELSE QueryOutcomes(s, c)

-----------------------------------------------------------------------------
(* What every reachable session is, as the proofs about both clients show. *)

AnyDesign == [file : Files \cup {NoFile}, edits : Seq(Edits)]

SessionOK(s) ==
  /\ s \in [loaded : BOOLEAN, current : AnyDesign, original : AnyDesign,
             baseline : AnyDesign,
             report : [edit : Edits \cup {NoFile}, changed : BOOLEAN], revision : Nat]
  /\ s.loaded => s.current.file \in Files
  /\ ~s.loaded => s = BlankSession
=============================================================================
