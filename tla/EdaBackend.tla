----------------------------- MODULE EdaBackend -----------------------------
(***************************************************************************)
(* EDABackend (agent_final.py) and the process it drives.                  *)
(*                                                                         *)
(* The agent writes one command line to the tool's standard input and      *)
(* reads its standard output up to the next prompt. The tool (ToolSession) *)
(* prints a prompt, waits for a line, obeys it, and prints the next        *)
(* prompt. The tool may die at any moment, or be told to quit; what it had *)
(* printed stays in the pipe. The agent finds out when it polls, when a    *)
(* write fails or when a read ends without a prompt. It then starts        *)
(* another and has it read the file that was last asked for; the edits are *)
(* gone.                                                                   *)
(***************************************************************************)
EXTENDS ToolSession, FiniteSets

CONSTANTS
  Prompt,     \* PROMPT_MARKER
  Nothing,    \* no output
  MaxEdits    \* bound: a caller sends edits until this many have succeeded

ASSUME EditsAssumption == MaxEdits \in Nat

(* A prompt is told from a reply, and no output from either.              *)
ASSUME MarkersAssumption ==
  Prompt # Nothing /\ Replies \cap {Prompt, Nothing} = {}

VARIABLES
  pc,           \* where send() or _start() is
  command,      \* the command being sent
  retried,      \* is this the second attempt to write it
  loaded_file,  \* the file of the last read command
  got,          \* the output read since the last prompt
  result,       \* what send() returned, until the next one
  alive,        \* is there a process
  stage,        \* what the process is doing
  input,        \* the lines in its standard input
  output,       \* replies and prompts in its standard output
  session,      \* its ToolSession
  believed,     \* the design according to the replies so far
  intact        \* has no process died since that design was read

client  == <<pc, command, retried, loaded_file, got, result>>
process == <<alive, stage, input, output, session>>
history == <<believed, intact>>
vars == <<client, process, history>>

Greeting == [verb |-> "none", arg |-> NoFile]

Init ==
  /\ pc = "greeting" /\ command = Greeting /\ retried = FALSE
  /\ loaded_file = NoFile /\ got = Nothing /\ result = Nothing
  /\ alive = TRUE /\ stage = "prompting" /\ input = <<>> /\ output = <<>>
  /\ session = BlankSession
  /\ believed = NoDesign /\ intact = TRUE

-----------------------------------------------------------------------------
(* The process: main() of tools.cpp.                                       *)

PrintPrompt ==
  /\ alive /\ stage = "prompting"
  /\ stage' = "waiting"
  /\ output' = Append(output, Prompt)
  /\ UNCHANGED <<client, alive, input, session, history>>

(* getline returns a line, dispatchCommand obeys it and prints the reply.  *)
(* After a quit main() returns, and there is no prompt.                    *)
Obey ==
  /\ alive /\ stage = "waiting" /\ input # <<>>
  /\ LET c == Head(input)
     IN  \E o \in Outcomes(session, c) :
           /\ session' = o[1]
           /\ output' = Append(output, o[2])
           /\ alive' = (c.verb # "quit")
           /\ stage' = IF c.verb = "quit" THEN "waiting" ELSE "prompting"
           /\ intact' = CASE c.verb = "quit" -> FALSE
                          [] c.verb = "read" /\ pc = "reply" -> intact \/ o[2].ok
                          [] OTHER -> intact
  /\ input' = Tail(input)
  /\ UNCHANGED <<client, believed>>

(* The session dies with the process; so do the lines it had not read.     *)
Die ==
  /\ alive /\ alive' = FALSE
  /\ stage' = "waiting" /\ input' = <<>> /\ session' = BlankSession
  /\ intact' = FALSE
  /\ UNCHANGED <<client, output, believed>>

-----------------------------------------------------------------------------
(* The client.                                                             *)

(* Popen: a new process with pipes of its own.                             *)
Spawn ==
  /\ alive' = TRUE /\ stage' = "prompting"
  /\ input' = <<>> /\ output' = <<>> /\ session' = BlankSession
  /\ pc' = "greeting" /\ got' = Nothing

(* send(): poll() notices a process that died, or not yet.                 *)
Send ==
  /\ pc = "idle"
  /\ \E c \in Commands :
       /\ c.verb = "edit" => Len(believed.edits) < MaxEdits
       /\ command' = c
  /\ retried' = FALSE /\ result' = Nothing
  /\ \/ pc' = "write" /\ UNCHANGED <<got, process>>
     \/ ~alive /\ Spawn
  /\ UNCHANGED <<loaded_file, history>>

(* _read_until_prompt(), one piece of output at a time.                    *)
ReadOutput ==
  /\ pc \in {"greeting", "reload", "reply"}
  /\ output # <<>> /\ Head(output) # Prompt
  /\ got' = Head(output) /\ output' = Tail(output)
  /\ UNCHANGED <<pc, command, retried, loaded_file, result,
                 alive, stage, input, session, history>>

(* The prompt ends a reply, and so does the end of the output of a process *)
(* that died.                                                              *)
ReplyEnds ==
  \/ output # <<>> /\ Head(output) = Prompt /\ output' = Tail(output)
  \/ output = <<>> /\ ~alive /\ UNCHANGED output

(* What _start() and _reload() do once the greeting is over; the command   *)
(* is only written after a restart's reload.                               *)
Settle(reload) ==
  /\ got' = Nothing
  /\ \/ command = Greeting /\ pc' = "idle" /\ UNCHANGED input
     \/ /\ command # Greeting /\ reload
        /\ pc' = "reload"
        /\ input' = Append(input, [verb |-> "read", arg |-> loaded_file])
     \/ command # Greeting /\ ~reload /\ pc' = "write" /\ UNCHANGED input
  /\ UNCHANGED <<command, retried, loaded_file, result, alive, stage, session, history>>

(* Mutant: the first prompt of a new process is not waited for.            *)
GreetedAtOnce ==
  pc = "greeting" /\ Settle(loaded_file # NoFile /\ alive) /\ UNCHANGED output

(* Mutant: a process started because a write failed is not reloaded.       *)
GreetedReloadingOnce ==
  pc = "greeting" /\ ReplyEnds /\ Settle(loaded_file # NoFile /\ alive /\ ~retried)

(* After the greeting a restarted process is told to read the file again;  *)
(* if it cannot be told, the exception is swallowed.                       *)
Greeted ==
  pc = "greeting" /\ ReplyEnds /\ Settle(loaded_file # NoFile /\ alive)

(* Mutant: the reload's reply is not waited for.                           *)
ReloadedAtOnce ==
  /\ pc = "reload"
  /\ pc' = "write" /\ got' = Nothing
  /\ UNCHANGED <<command, retried, loaded_file, result, process, history>>

Reloaded ==
  /\ pc = "reload" /\ ReplyEnds
  /\ pc' = "write" /\ got' = Nothing
  /\ UNCHANGED <<command, retried, loaded_file, result,
                 alive, stage, input, session, history>>

WriteCommand ==
  /\ pc = "write" /\ alive
  /\ input' = Append(input, command)
  /\ pc' = "reply"
  /\ UNCHANGED <<command, retried, loaded_file, got, result,
                 alive, stage, output, session, history>>

(* Mutant: another process is started as often as it takes.                *)
WriteFailsForever ==
  /\ pc = "write" /\ ~alive /\ Spawn
  /\ UNCHANGED <<retried, command, loaded_file, result, history>>

(* The pipe is broken: once, another process is started.                   *)
WriteFails ==
  /\ pc = "write" /\ ~alive
  /\ IF retried
       THEN /\ pc' = "idle" /\ result' = WriteError(command)
            /\ UNCHANGED <<retried, got, process>>
       ELSE /\ retried' = TRUE /\ Spawn /\ UNCHANGED result
  /\ UNCHANGED <<command, loaded_file, history>>

(* What a caller concludes from a reply.                                   *)
Learnt(r) ==
  CASE r = Nothing -> believed
    [] r # Nothing /\ command.verb = "read" /\ r.ok -> Fresh(command.arg)
    [] r # Nothing /\ command.verb = "edit" /\ r.changed -> Edited(believed, command.arg)
    [] OTHER -> believed

(* send() returns what was read, and takes note of the file of a read      *)
(* whatever the reply to it was.                                           *)
Return ==
  /\ pc = "reply" /\ ReplyEnds
  /\ pc' = "idle" /\ got' = Nothing /\ result' = got
  /\ loaded_file' = IF command.verb = "read" THEN command.arg ELSE loaded_file
  /\ believed' = Learnt(got)
  /\ UNCHANGED <<command, retried, alive, stage, input, session, intact>>

-----------------------------------------------------------------------------
Tool   == PrintPrompt \/ Obey
Client == ReadOutput \/ Greeted \/ Reloaded \/ WriteCommand \/ WriteFails \/ Return

Next == Tool \/ Client \/ Send \/ Die

(* The tool goes on with what it was told, each command within its own     *)
(* time budget; the client waits for nothing else. Neither has to send     *)
(* another command, or to die.                                             *)
Spec == Init /\ [][Next]_vars /\ WF_vars(Tool) /\ WF_vars(Client)

-----------------------------------------------------------------------------
Designs == [file : Files \cup {NoFile}, edits : UNION {[1..n -> Edits] : n \in 0..MaxEdits}]

(* Types. A pipe never holds more than a line one way, and a reply and a   *)
(* prompt the other.                                                       *)
TypeOK ==
  /\ pc \in {"idle", "greeting", "reload", "write", "reply"}
  /\ command \in Commands \cup {Greeting} /\ retried \in BOOLEAN
  /\ loaded_file \in Files \cup {NoFile}
  /\ got \in Replies \cup {Nothing} /\ result \in Replies \cup {Nothing}
  /\ alive \in BOOLEAN /\ stage \in {"prompting", "waiting"}
  /\ Len(input) <= 1 /\ \A i \in DOMAIN input : input[i] \in Commands
  /\ Len(output) <= 2 /\ \A i \in DOMAIN output : output[i] \in Replies \cup {Prompt}
  /\ session.current \in Designs /\ session.baseline \in Designs
  /\ believed \in Designs /\ intact \in BOOLEAN

(* The two ends never get out of step: whatever is read or returned while  *)
(* a command is being sent is the reply to that command, through deaths,   *)
(* restarts, greetings and reloads; and between commands nothing is left   *)
(* in the pipes for the next one to read.                                  *)
InStep ==
  /\ pc = "reply" =>
       \A r \in {got} \cup {output[i] : i \in DOMAIN output} :
         r \notin {Nothing, Prompt} => r.to = command
  /\ pc = "idle" =>
       /\ result # Nothing => result.to = command
       /\ output = <<>> /\ input = <<>> /\ (alive => stage = "waiting")

(* As long as no process died since the design was read, the tool's design *)
(* is what its replies made the caller believe: every change was reported, *)
(* and no edit that was reported to fail left a trace.                     *)
BeliefHolds == pc = "idle" /\ alive /\ intact => session.current = believed

(* s is t with some of its elements left out.                              *)
OccursIn(s, t) ==
  \E at \in [DOMAIN s -> DOMAIN t] :
    /\ \A i, j \in DOMAIN s : i < j => at[i] < at[j]
    /\ \A i \in DOMAIN s : s[i] = t[at[i]]

(* Deaths may take edits away, never add or repeat or reorder any: the     *)
(* edits in the design are among those a reply told of, in that order.     *)
EditsWereReported ==
  pc = "idle" /\ alive => OccursIn(session.current.edits, believed.edits)

(* Whatever happened since, the tool stands on the file the last read      *)
(* asked for, if that can be read.                                         *)
StandsOnLastRead ==
  pc = "idle" /\ alive /\ loaded_file \in Readable =>
    session.current.file = loaded_file /\ session.loaded

(* What the follow-up questions are answered from belongs together: the    *)
(* report and the baseline are of one edit, which takes the one to the     *)
(* current design, and both are edits of the design that was read last.    *)
BaselineAndReportAgree ==
  /\ (session.baseline = NoDesign) = (session.report = NoReport)
  /\ session.report # NoReport =>
       session.current = IF session.report.changed
                           THEN Edited(session.baseline, session.report.edit)
                           ELSE session.baseline
  /\ session.revision = Len(session.current.edits)
  /\ session.loaded => session.original = Fresh(session.current.file)

(* Every send() returns: a process that dies makes it start another once   *)
(* or twice, then it gives up.                                             *)
SendReturns == (pc # "idle") ~> (pc = "idle")

-----------------------------------------------------------------------------
(* What makes these inductive (see EdaBackend_proofs).                     *)

(* What the session stands on, as long as the process lives: the file, and *)
(* the design the client will take it for.                                 *)
StandsOn(file, design) ==
  alive =>
    /\ file \in Readable => session.loaded /\ session.current.file = file
    /\ intact => session.current = design
    /\ OccursIn(session.current.edits, design.edits)
    /\ Len(session.current.edits) <= Len(design.edits)

Settled ==
  /\ input = <<>> /\ output = <<>> /\ got = Nothing
  /\ alive => stage = "waiting"

(* The line waits to be read, or went with the process.                    *)
Unanswered(c) ==
  /\ output = <<>> /\ got = Nothing
  /\ input = IF alive THEN <<c>> ELSE <<>>
  /\ stage = "waiting"

(* Its reply is on the way, the prompt behind it or not.                   *)
Answered(c, r) ==
  /\ r \in Replies /\ r.to = c /\ input = <<>>
  /\ \/ /\ alive => stage = "prompting"
        /\ \/ output = <<r>> /\ got = Nothing
           \/ output = <<>> /\ got = r
     \/ /\ stage = "waiting"
        /\ \/ output = <<r, Prompt>> /\ got = Nothing
           \/ output = <<Prompt>> /\ got = r

Greets ==
  pc = "greeting" =>
    /\ input = <<>> /\ got = Nothing
    /\ \/ output = <<>> /\ (alive => stage = "prompting")
       \/ output = <<Prompt>> /\ stage = "waiting"
    /\ alive => session = BlankSession
    /\ command = Greeting =>
         loaded_file = NoFile /\ believed = NoDesign /\ result = Nothing
    /\ command # Greeting => ~intact

Reload == [verb |-> "read", arg |-> loaded_file]

Reloads ==
  pc = "reload" =>
    /\ ~intact /\ loaded_file \in Files
    /\ \/ Unanswered(Reload) /\ (alive => session = BlankSession)
       \/ \E r \in Replies : Answered(Reload, r) /\ StandsOn(loaded_file, believed)

Rests == pc \in {"idle", "write"} => Settled /\ StandsOn(loaded_file, believed)

FileAfter == IF command.verb = "read" THEN command.arg ELSE loaded_file

Awaits ==
  pc = "reply" =>
    \/ Unanswered(command) /\ StandsOn(loaded_file, believed)
    \/ \E r \in Replies : Answered(command, r) /\ StandsOn(FileAfter, Learnt(r))

Registers ==
  /\ pc \in {"idle", "greeting", "reload", "write", "reply"}
  /\ alive \in BOOLEAN /\ intact \in BOOLEAN
  /\ command \in Commands \cup {Greeting}
  /\ pc \in {"reload", "write", "reply"} => command \in Commands
  /\ loaded_file \in Files \cup {NoFile} /\ retried \in BOOLEAN
  /\ result \in Replies \cup {Nothing}
  /\ believed \in AnyDesign /\ Len(believed.edits) <= MaxEdits
  /\ pc # "idle" /\ command.verb = "edit" => Len(believed.edits) < MaxEdits
  /\ ~alive => ~intact /\ stage = "waiting" /\ input = <<>> /\ session = BlankSession
  /\ pc = "idle" /\ result # Nothing => result.to = command

IInv ==
  /\ SessionOK(session) /\ BaselineAndReportAgree
  /\ Registers /\ Greets /\ Reloads /\ Rests /\ Awaits
=============================================================================
