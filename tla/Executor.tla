------------------------------- MODULE Executor -------------------------------
(***************************************************************************)
(* Executor and UnhandledExecutor of vstutils/utils.py: a command is       *)
(* started, one coroutine reads its output line by line, another looks at  *)
(* the process until the output has ended, and when both are done the      *)
(* return code is judged.  Executions of one object share its output.      *)
(*                                                                         *)
(* A process may close its output before it exits, and a child of its own  *)
(* may keep it open after that; asyncio collects the exit status whenever  *)
(* it comes to it.  A caller that cancels an execution is not modelled.    *)
(***************************************************************************)
EXTENDS Naturals, Sequences
CONSTANTS
  Runs,      \* calls of execute and aexecute on one object
  Lines      \* bound on the lines the process of a call prints

ASSUME LinesAssumption == Lines \in [Runs -> Nat]

VARIABLES
  handled,   \* working_handler is not None
  phase,     \* where a call is
  process,   \* its process
  read,      \* number of lines it has read
  reader,    \* _unbuffered_read
  watcher,   \* _handle_process
  output,    \* self.output, as pairs of a call and a line's number
  outcome,   \* the output that is returned, or given to CalledProcessError
  mixed,     \* history: calls that had to share the output
  lost       \* history: lines write_output has failed on

execHistory == <<mixed, lost>>
execVars == <<handled, phase, process, read, reader, watcher, output, outcome, execHistory>>

Statuses == {"ok", "error", "killed"}
Child == [printed : Nat, open : BOOLEAN, returncode : Statuses \cup {"None"}]
NoChild == [printed |-> 0, open |-> FALSE, returncode |-> "None"]

ExecInit ==
  /\ handled \in BOOLEAN
  /\ phase = [e \in Runs |-> "idle"] /\ process = [e \in Runs |-> NoChild]
  /\ read = [e \in Runs |-> 0]
  /\ reader = [e \in Runs |-> "ended"] /\ watcher = [e \in Runs |-> "ended"]
  /\ output = <<>> /\ outcome = [e \in Runs |-> <<>>]
  /\ mixed = {} /\ lost = {}

UsesOutput(e) == phase[e] \in {"run", "passed", "failed"} \/ reader[e] \in {"reading", "writing"}

-----------------------------------------------------------------------------
(* The process and the event loop's child watcher *)

PrintLine(e) ==
  /\ process[e].open /\ process[e].printed < Lines[e]
  /\ process' = [process EXCEPT ![e].printed = @ + 1]

Close(e) ==
  /\ process[e].open
  /\ process' = [process EXCEPT ![e].open = FALSE]

\* The process has exited and asyncio has collected its status.
Collect(e) ==
  /\ process[e].returncode = "None"
  /\ \E s \in Statuses : process' = [process EXCEPT ![e].returncode = s]

\* As long as somebody looks.
Outside(e) ==
  /\ \/ UsesOutput(e) /\ (PrintLine(e) \/ Close(e))
     \/ phase[e] = "run" /\ Collect(e)
  /\ UNCHANGED <<handled, phase, read, reader, watcher, output, outcome, execHistory>>

-----------------------------------------------------------------------------
(* _run_subprocess *)

\* pre_execute is called and awaited.
Execute(e) ==
  /\ phase[e] = "idle"
  /\ phase' = [phase EXCEPT ![e] = "pre"]
  /\ UNCHANGED <<handled, process, read, reader, watcher, output, outcome, execHistory>>

\* pre_execute or post_execute raises.
HookFails(e) ==
  /\ phase[e] \in {"pre", "passed", "failed"}
  /\ phase' = [phase EXCEPT ![e] = "raised"]
  /\ UNCHANGED <<handled, process, read, reader, watcher, output, outcome, execHistory>>

Sharing(e) == {f \in Runs \ {e} : UsesOutput(f)}

\* The output is cleared, whoever else writes to it.
Cleared(e) ==
  /\ output' = <<>>
  /\ mixed' = mixed \cup (IF Sharing(e) = {} THEN {} ELSE Sharing(e) \cup {e})

SpawnRaises(e) ==
  /\ phase[e] = "pre" /\ Cleared(e)
  /\ phase' = [phase EXCEPT ![e] = "raised"]
  /\ UNCHANGED <<handled, process, read, reader, watcher, outcome, lost>>

Spawn(e) ==
  /\ phase[e] = "pre" /\ Cleared(e)
  /\ phase' = [phase EXCEPT ![e] = "run"]
  /\ process' = [process EXCEPT ![e].open = TRUE]
  /\ reader' = [reader EXCEPT ![e] = "reading"]
  /\ watcher' = [watcher EXCEPT ![e] = IF handled THEN "looping" ELSE "ended"]
  /\ UNCHANGED <<handled, read, outcome, lost>>

\* A mutant of Gathered: only the coroutine that looks at the process is awaited.
GatheredHandler(e) == IF handled THEN watcher[e] = "ended" ELSE reader[e] = "ended"

\* asyncio.gather returns when all have ended, and raises when one has failed.
Gathered(e) == reader[e] = "ended" /\ watcher[e] = "ended"

\* The others are left to themselves.
GatherFails(e) ==
  /\ phase[e] = "run" /\ "failed" \in {reader[e], watcher[e]}
  /\ phase' = [phase EXCEPT ![e] = "raised"]
  /\ UNCHANGED <<handled, process, read, reader, watcher, output, outcome, execHistory>>

\* proc.returncode is None as long as the status is not collected.
BadCode(e) == process[e].returncode \in {"error", "killed"}

Judge(e) ==
  /\ phase[e] = "run" /\ Gathered(e)
  /\ IF BadCode(e)
     THEN /\ phase' = [phase EXCEPT ![e] = "failed"]
          /\ outcome' = [outcome EXCEPT ![e] = output]
     ELSE /\ phase' = [phase EXCEPT ![e] = "passed"]
          /\ UNCHANGED outcome
  /\ UNCHANGED <<handled, process, read, reader, watcher, output, execHistory>>

\* post_execute is done: the error goes on, or the output is returned.
Finish(e) ==
  /\ \/ /\ phase[e] = "failed"
        /\ phase' = [phase EXCEPT ![e] = "called"]
        /\ UNCHANGED outcome
     \/ /\ phase[e] = "passed"
        /\ phase' = [phase EXCEPT ![e] = "returned"]
        /\ outcome' = [outcome EXCEPT ![e] = output]
  /\ UNCHANGED <<handled, process, read, reader, watcher, output, execHistory>>

-----------------------------------------------------------------------------
(* _unbuffered_read and _handle_process *)

\* A line is taken and handed to write_output, in a thread.
ReadLine(e) ==
  /\ reader[e] = "reading" /\ read[e] < process[e].printed
  /\ read' = [read EXCEPT ![e] = @ + 1]
  /\ reader' = [reader EXCEPT ![e] = "writing"]
  /\ UNCHANGED <<handled, phase, process, watcher, output, outcome, execHistory>>

\* It is no UTF-8.
DecodeFails(e) ==
  /\ reader[e] = "reading" /\ read[e] < process[e].printed
  /\ reader' = [reader EXCEPT ![e] = "failed"]
  /\ UNCHANGED <<handled, phase, process, read, watcher, output, outcome, execHistory>>

\* What write_output raises is swallowed.
WriteLine(e) ==
  /\ reader[e] = "writing"
  /\ \/ output' = Append(output, <<e, read[e]>>) /\ UNCHANGED lost
     \/ lost' = lost \cup {<<e, read[e]>>} /\ UNCHANGED output
  /\ reader' = [reader EXCEPT ![e] = "reading"]
  /\ UNCHANGED <<handled, phase, process, read, watcher, outcome, mixed>>

\* A mutant of AtEof: the process must have exited.
AtEofExited(e) == process[e].returncode # "None" /\ read[e] = process[e].printed

AtEof(e) == ~process[e].open /\ read[e] = process[e].printed

ReaderEnds(e) ==
  /\ reader[e] = "reading" /\ AtEof(e)
  /\ reader' = [reader EXCEPT ![e] = "ended"]
  /\ UNCHANGED <<handled, phase, process, read, watcher, output, outcome, execHistory>>

\* The loop of execute() is closed and cancels the reader it still has.
ReaderStopped(e) ==
  /\ phase[e] = "raised" /\ reader[e] = "reading"
  /\ reader' = [reader EXCEPT ![e] = "ended"]
  /\ UNCHANGED <<handled, phase, process, read, watcher, output, outcome, execHistory>>

\* The loop is left at the end of the output, or by what working_handler raises.
HandlerEnds(e) ==
  /\ watcher[e] = "looping"
  /\ \/ AtEof(e) /\ watcher' = [watcher EXCEPT ![e] = "ended"]
     \/ watcher' = [watcher EXCEPT ![e] = "failed"]
  /\ UNCHANGED <<handled, phase, process, read, reader, output, outcome, execHistory>>

Step(e) ==
  \/ Spawn(e) \/ GatherFails(e) \/ Judge(e) \/ Finish(e)
  \/ ReadLine(e) \/ WriteLine(e) \/ ReaderEnds(e)

ExecNext == \E e \in Runs :
  \/ Step(e) \/ Execute(e) \/ HookFails(e) \/ SpawnRaises(e) \/ DecodeFails(e)
  \/ ReaderStopped(e) \/ HandlerEnds(e) \/ Outside(e)

ExecSpec == ExecInit /\ [][ExecNext]_execVars

\* The event loop goes on, hooks and write_output return, and the loop over
\* working_handler looks again after 0.01 s.  Of the process nothing is assumed.
ExecFairSpec == ExecSpec /\ \A e \in Runs : WF_execVars(Step(e)) /\ WF_execVars(AtEof(e) /\ HandlerEnds(e))

-----------------------------------------------------------------------------
(* Properties *)

\* The shape of the state; nobody reads more than was printed.
ExecTypeOK ==
  /\ handled \in BOOLEAN
  /\ phase \in [Runs -> {"idle", "pre", "run", "passed", "failed", "returned", "called", "raised"}]
  /\ process \in [Runs -> Child] /\ read \in [Runs -> Nat]
  /\ reader \in [Runs -> {"reading", "writing", "ended", "failed"}]
  /\ watcher \in [Runs -> {"looping", "ended", "failed"}]
  /\ \A e \in Runs : /\ read[e] \in 0..process[e].printed /\ process[e].printed \leq Lines[e]
                     /\ phase[e] \in {"passed", "failed"} => watcher[e] = "ended" /\ reader[e] = "ended"
  /\ output \in Seq(Runs \X Nat) /\ outcome \in [Runs -> Seq(Runs \X Nat)]
  /\ mixed \subseteq Runs /\ lost \subseteq Runs \X Nat

\* The lines of a call up to the n-th, but for those write_output has failed on.
Whole(lines, e, n) ==
  /\ {lines[i] : i \in DOMAIN lines} = {<<e, k>> : k \in 1..n} \ lost
  /\ \A i, j \in DOMAIN lines : i < j => lines[i][2] < lines[j][2]

\* The output a call returns, or puts into its error, is every line of its own
\* process and nothing else, in order, though the line is written in a thread
\* and the other coroutine may see the end of the output before: unless it had
\* to share the object.
OutputIsWhole ==
  \A e \in Runs :
    phase[e] \in {"returned", "failed", "called"} /\ e \notin mixed =>
      Whole(outcome[e], e, process[e].printed)

\* CalledProcessError is raised if and only if the process is known to have
\* failed or to have been killed.  The code does not wait for the status: a
\* process of which it is not known passes, whatever it exits with.
VerdictIsTrue ==
  \A e \in Runs :
    /\ phase[e] \in {"failed", "called"} => process[e].returncode \in {"error", "killed"}
    /\ phase[e] = "returned" => process[e].returncode \in {"ok", "None"}

\* A call ends when the output of its process does, even if the process stays.
ExecutionEnds ==
  \A e \in Runs :
    phase[e] = "run" /\ ~process[e].open ~> phase[e] \in {"returned", "called", "raised"}
=============================================================================
