----------------------------- MODULE Supervisor -----------------------------
(***************************************************************************)
(* The web command: handle_processes of vstutils/management/commands/      *)
(* web.py runs one or two services (web_worker and rpc_worker), each by    *)
(* run_process of _base.py, which starts a child process group, starts it  *)
(* again whenever it ends, stops it for SIGTERM and SIGQUIT and restarts   *)
(* it for SIGHUP.                                                          *)
(*                                                                         *)
(* Everything but the children runs in one event loop, so what the code    *)
(* does between two awaits is one step.  A loop has one handler for a      *)
(* signal: the service that registers last gets the signals of all.        *)
(***************************************************************************)
EXTENDS Naturals

CONSTANT N  \* how many services are run

ASSUME ServicesAssumption == N \in 1..2

Services == 1..N

NoService == 0

VARIABLES
  main,       \* where handle_processes is
  loop,       \* where each run_process is
  child,      \* the process each variable "process" refers to
  handler,    \* the service whose signal handlers are registered
  exiting,    \* should_exit
  scheduled,  \* stop_and_restart tasks that have not run yet
  told,       \* history: where run_process was when it was told to stop
  asked,      \* history: the child was up at a SIGHUP and has not ended since
  broken      \* history: a child could not be started, or Ctrl-C was pressed

supVars == <<main, loop, child, handler, exiting, scheduled, told, asked, broken>>

Live == {"up", "ending"}

SupTypeOK ==
  /\ main \in {"running", "cancelling", "ended"}
  /\ loop \in [Services -> {"begin", "starting", "waiting", "stopping", "returned"}]
  /\ child \in [Services -> {"none", "up", "ending", "dead"}]
  /\ handler \in Services \cup {NoService}
  /\ exiting \in [Services -> BOOLEAN]
  /\ scheduled \subseteq Services \X {"stop", "hup"}
  /\ told \subseteq {"between", "during"}
  /\ asked \in [Services -> BOOLEAN]
  /\ broken \in BOOLEAN

SupInit ==
  /\ main = "running"
  /\ loop = [s \in Services |-> "begin"]
  /\ child = [s \in Services |-> "none"]
  /\ handler = NoService
  /\ exiting = [s \in Services |-> FALSE]
  /\ scheduled = {}
  /\ told = {}
  /\ asked = [s \in Services |-> FALSE]
  /\ broken = FALSE

LoopGoto(s, label) == loop' = [loop EXCEPT ![s] = label]

BecomeChild(s, state) == child' = [child EXCEPT ![s] = state]

\* handle_processes cancels the tasks in turn and awaits each: a cancelled
\* task does nothing but what CancelTask says.
Cancelled(s) ==
  main = "cancelling" /\ \A t \in Services : t < s => loop[t] = "returned"

-----------------------------------------------------------------------------
\* run_process.

\* The tasks first run in the order they were created.
Register(s) ==
  /\ ~Cancelled(s)
  /\ loop[s] = "begin" /\ \A t \in Services : t < s => loop[t] # "begin"
  /\ handler' = s
  /\ LoopGoto(s, "starting")
  /\ UNCHANGED <<main, child, exiting, scheduled, told, asked, broken>>

\* create_subprocess_shell returns; until then "process" is the old one.
Started(s) ==
  /\ ~Cancelled(s) /\ loop[s] = "starting"
  /\ BecomeChild(s, "up")
  /\ LoopGoto(s, "waiting")
  /\ UNCHANGED <<main, handler, exiting, scheduled, told, asked, broken>>

SpawnFails(s) ==
  /\ ~Cancelled(s) /\ loop[s] = "starting"
  /\ LoopGoto(s, "returned")
  /\ broken' = TRUE
  /\ UNCHANGED <<main, child, handler, exiting, scheduled, told, asked>>

\* The child ends, in whatever way.
ChildEnds(s) ==
  /\ child[s] \in Live
  /\ BecomeChild(s, "dead")
  /\ asked' = [asked EXCEPT ![s] = FALSE]
  /\ UNCHANGED <<main, loop, handler, exiting, scheduled, told, broken>>

\* process.wait() returns.
Wake(s) ==
  /\ ~Cancelled(s) /\ loop[s] = "waiting" /\ child[s] = "dead"
  /\ LoopGoto(s, IF exiting[s] THEN "returned" ELSE "starting")
  /\ UNCHANGED <<main, child, handler, exiting, scheduled, told, asked, broken>>

-----------------------------------------------------------------------------
\* Signals.

\* handle_signal for SIGTERM and SIGQUIT.
StopSignal ==
  /\ main # "ended" /\ handler # NoService /\ child[handler] # "none"
  /\ exiting' = [exiting EXCEPT ![handler] = TRUE]
  /\ scheduled' = scheduled \cup {<<handler, "stop">>}
  /\ told' = told \cup {IF loop[handler] = "starting" THEN "between" ELSE "during"}
  /\ UNCHANGED <<main, loop, child, handler, asked, broken>>

\* A mutant of HupSignal: SIGHUP sets the flag as well.
HupExits ==
  /\ main # "ended" /\ handler # NoService /\ child[handler] # "none"
  /\ exiting' = [exiting EXCEPT ![handler] = TRUE]
  /\ scheduled' = scheduled \cup {<<handler, "hup">>}
  /\ asked' = [asked EXCEPT ![handler] = child[handler] \in Live]
  /\ UNCHANGED <<main, loop, child, handler, told, broken>>

HupSignal ==
  /\ main # "ended" /\ handler # NoService /\ child[handler] # "none"
  /\ scheduled' = scheduled \cup {<<handler, "hup">>}
  /\ asked' = [asked EXCEPT ![handler] = child[handler] \in Live]
  /\ UNCHANGED <<main, loop, child, handler, exiting, told, broken>>

\* SIGTERM for the child's process group, if the child has not ended.
Terminate(s) == IF child[s] \in Live THEN BecomeChild(s, "ending") ELSE UNCHANGED child

\* A mutant of StopRuns: only a SIGTERM is passed on to the child.
StopRunsTermOnly(s, sig) ==
  /\ <<s, sig>> \in scheduled
  /\ scheduled' = scheduled \ {<<s, sig>>}
  /\ IF sig = "stop" THEN Terminate(s) ELSE UNCHANGED child
  /\ UNCHANGED <<main, loop, handler, exiting, told, asked, broken>>

\* stop_and_restart runs up to its wait; what it does after it is to log.
StopRuns(s, sig) ==
  /\ <<s, sig>> \in scheduled
  /\ scheduled' = scheduled \ {<<s, sig>>}
  /\ Terminate(s)
  /\ UNCHANGED <<main, loop, handler, exiting, told, asked, broken>>

\* A mutant of StopTimesOut: a child that ignores SIGTERM is left alone.
NeverKilled(s) == FALSE

\* The wait after a SIGTERM times out: SIGKILL.
StopTimesOut(s) ==
  /\ child[s] = "ending"
  /\ BecomeChild(s, "dead")
  /\ asked' = [asked EXCEPT ![s] = FALSE]
  /\ UNCHANGED <<main, loop, handler, exiting, scheduled, told, broken>>

-----------------------------------------------------------------------------
\* handle_processes.

\* A mutant of FirstCompleted: the default of asyncio.wait, ALL_COMPLETED.
AllCompleted ==
  /\ main = "running" /\ \A s \in Services : loop[s] = "returned"
  /\ main' = "cancelling"
  /\ UNCHANGED <<loop, child, handler, exiting, scheduled, told, asked, broken>>

FirstCompleted ==
  /\ main = "running" /\ \E s \in Services : loop[s] = "returned"
  /\ main' = "cancelling"
  /\ UNCHANGED <<loop, child, handler, exiting, scheduled, told, asked, broken>>

\* Ctrl-C, once.
Interrupt ==
  /\ main = "running"
  /\ main' = "cancelling"
  /\ broken' = TRUE
  /\ UNCHANGED <<loop, child, handler, exiting, scheduled, told, asked>>

\* A mutant of CancelTask: a cancelled service leaves its child alone.
CancelTaskOnly(s) ==
  /\ Cancelled(s) /\ loop[s] \in {"begin", "starting", "waiting"}
  /\ LoopGoto(s, "returned")
  /\ UNCHANGED <<main, child, handler, exiting, scheduled, told, asked, broken>>

\* A cancelled creation kills its own child, a cancelled wait stops the child
\* it waits for.
CancelTask(s) ==
  /\ Cancelled(s) /\ loop[s] \in {"begin", "starting", "waiting"}
  /\ LoopGoto(s, IF loop[s] = "waiting" /\ child[s] \in Live THEN "stopping" ELSE "returned")
  /\ IF loop[s] = "waiting" THEN Terminate(s) ELSE UNCHANGED child
  /\ UNCHANGED <<main, handler, exiting, scheduled, told, asked, broken>>

Stopped(s) ==
  /\ loop[s] = "stopping" /\ child[s] = "dead"
  /\ LoopGoto(s, "returned")
  /\ UNCHANGED <<main, child, handler, exiting, scheduled, told, asked, broken>>

End ==
  /\ main = "cancelling" /\ \A s \in Services : loop[s] = "returned"
  /\ main' = "ended"
  /\ UNCHANGED <<loop, child, handler, exiting, scheduled, told, asked, broken>>

\* What the event loop does of its own accord.
Serve(s) ==
  \/ Register(s) \/ Started(s) \/ SpawnFails(s) \/ Wake(s)
  \/ CancelTask(s) \/ Stopped(s) \/ StopTimesOut(s)

SupNext ==
  \/ \E s \in Services : Serve(s) \/ ChildEnds(s)
  \/ \E s \in Services, sig \in {"stop", "hup"} : StopRuns(s, sig)
  \/ StopSignal \/ HupSignal \/ Interrupt \/ FirstCompleted \/ End

SupSpec == SupInit /\ [][SupNext]_supVars

\* The event loop runs what is ready and its timers.  No child has to end.
SupFairSpec ==
  /\ SupSpec
  /\ WF_supVars(FirstCompleted) /\ WF_supVars(End)
  /\ \A s \in Services :
       WF_supVars(Serve(s)) /\ \A sig \in {"stop", "hup"} : WF_supVars(StopRuns(s, sig))

-----------------------------------------------------------------------------
\* When the command ends it leaves no child behind, in whatever phase its
\* services were when one of them returned or Ctrl-C was pressed.
NoChildLeftBehind == main = "ended" => \A s \in Services : child[s] \notin Live

\* Crashing children and SIGHUP alone never end the command.
OnlyToldEnds == told = {} /\ ~broken => main = "running"

\* "Received signal, stopping process": a SIGTERM that is acknowledged ends
\* the command.
TermIsObeyed == told # {} ~> main = "ended"

\* A SIGTERM that finds the service waiting for its child ends the command.
TermWhileWaitingIsObeyed == "during" \in told ~> main = "ended"

\* A child that has ended is replaced as long as the command goes on.
CrashIsRepaired ==
  \A s \in Services : child[s] = "dead" ~> (child[s] = "up" \/ main # "running")

\* A child that is up at a SIGHUP is ended, even if it ignores SIGTERM.
HupIsObeyed == \A s \in Services : asked[s] ~> ~asked[s]
=============================================================================
