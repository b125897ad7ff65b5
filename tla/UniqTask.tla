------------------------------ MODULE UniqTask ------------------------------
(***************************************************************************)
(* Tasks declared with uniq=True (TaskMeta of vstutils/tasks.py): one lock *)
(* named after the task is taken around apply_async, in the process that   *)
(* calls the task, and around run, in the worker.  Whoever does not get it *)
(* within a second raises Reject(requeue=False): a caller gets the         *)
(* exception, a worker drops the message.                                  *)
(*                                                                         *)
(* The lock is used in with statements: __exit__ deletes the key, and      *)
(* __del__ of the Lock object, which nobody refers to any more, deletes it *)
(* again.  Other processes can step between the two.                       *)
(***************************************************************************)
EXTENDS VstLock

CONSTANTS
  Callers,   \* calls of apply_async, in whatever process
  Workers,   \* worker processes
  NoCall     \* a worker has no message

ASSUME UniqAssumption ==
  /\ Lockers = Callers \cup Workers
  /\ Callers \cap Workers = {}
  /\ NoCall \notin Callers

VARIABLES
  call,      \* what has become of each call
  queue,     \* the published messages, by their calls
  work,      \* what each worker is doing
  job,       \* the message a worker has taken
  met,       \* history: during a worker's wait another worker was running
  killed     \* history: a process has been killed

taskVars == <<call, queue, work, job, met, killed>>
vars == <<lockVars, taskVars>>

CallStates == {"idle", "locking", "published", "failed", "leaving", "accepted", "raised"}

UniqTypeOK ==
  /\ TypeOK
  /\ call \in [Callers -> CallStates]
  /\ queue \subseteq Callers
  /\ work \in [Workers -> {"idle", "locking", "running", "leaving"}]
  /\ job \in [Workers -> Callers \cup {NoCall}]
  /\ met \in [Workers -> BOOLEAN]
  /\ killed \in BOOLEAN

UniqInit ==
  /\ Init
  /\ call = [c \in Callers |-> "idle"]
  /\ queue = {}
  /\ work = [w \in Workers |-> "idle"]
  /\ job = [w \in Workers |-> NoCall]
  /\ met = [w \in Workers |-> FALSE]
  /\ killed = FALSE

-----------------------------------------------------------------------------
\* The wrapper around apply_async.
Call(c) ==
  /\ call[c] \in {"idle", "accepted", "raised"}
  /\ c \notin queue /\ \A w \in Workers : job[w] # c
  /\ Begin(c)
  /\ call' = [call EXCEPT ![c] = "locking"]
  /\ UNCHANGED <<queue, work, job, met, killed>>

CallAcquires(c) ==
  /\ call[c] = "locking"
  /\ Try(c)
  /\ UNCHANGED taskVars

CallRejected(c) ==
  /\ call[c] = "locking" /\ pc[c] = "failed"
  /\ Del(c)
  /\ call' = [call EXCEPT ![c] = "raised"]
  /\ UNCHANGED <<queue, work, job, met, killed>>

Publish(c) ==
  /\ call[c] = "locking" /\ pc[c] = "held"
  /\ queue' = queue \cup {c}
  /\ call' = [call EXCEPT ![c] = "published"]
  /\ UNCHANGED <<lockVars, work, job, met, killed>>

\* The broker is unreachable: the error passes through the with statement.
PublishFails(c) ==
  /\ call[c] = "locking" /\ pc[c] = "held"
  /\ call' = [call EXCEPT ![c] = "failed"]
  /\ UNCHANGED <<lockVars, queue, work, job, met, killed>>

\* A mutant of CallEnds: an exception skips the end of the section.
CallEndsOnSuccess(c) ==
  /\ \/ call[c] = "published" /\ Exit(c)
     \/ call[c] = "failed" /\ Crash(c)
  /\ call' = [call EXCEPT ![c] = "leaving"]
  /\ UNCHANGED <<queue, work, job, met, killed>>

CallEnds(c) ==
  /\ call[c] \in {"published", "failed"}
  /\ Exit(c)
  /\ call' = [call EXCEPT ![c] = "leaving"]
  /\ UNCHANGED <<queue, work, job, met, killed>>

CallReturns(c) ==
  /\ call[c] = "leaving"
  /\ Del(c)
  /\ call' = [call EXCEPT ![c] = "accepted"]
  /\ UNCHANGED <<queue, work, job, met, killed>>

-----------------------------------------------------------------------------
\* The wrapper around run.  The message is acknowledged when it is taken.
Running == {w \in Workers : work[w] = "running"}

Take(w, c) ==
  /\ work[w] = "idle" /\ c \in queue
  /\ queue' = queue \ {c}
  /\ job' = [job EXCEPT ![w] = c]
  /\ Begin(w)
  /\ work' = [work EXCEPT ![w] = "locking"]
  /\ met' = [met EXCEPT ![w] = Running # {}]
  /\ UNCHANGED <<call, killed>>

WorkerAcquires(w) ==
  /\ work[w] = "locking"
  /\ Try(w)
  /\ UNCHANGED taskVars

\* A mutant of Run: a worker that does not get the lock runs all the same.
RunAnyway(w) ==
  /\ work[w] = "locking" /\ pc[w] \in {"held", "failed"}
  /\ work' = [work EXCEPT ![w] = "running"]
  /\ UNCHANGED <<lockVars, call, queue, job, met, killed>>

Run(w) ==
  /\ work[w] = "locking" /\ pc[w] = "held"
  /\ work' = [work EXCEPT ![w] = "running"]
  /\ met' = [v \in Workers |-> met[v] \/ (v # w /\ work[v] = "locking")]
  /\ UNCHANGED <<lockVars, call, queue, job, killed>>

\* run returns or raises.
RunEnds(w) ==
  /\ work[w] = "running"
  /\ Exit(w)
  /\ work' = [work EXCEPT ![w] = "leaving"]
  /\ UNCHANGED <<call, queue, job, met, killed>>

Finish(w) ==
  /\ work[w] = "leaving"
  /\ Del(w)
  /\ work' = [work EXCEPT ![w] = "idle"]
  /\ job' = [job EXCEPT ![w] = NoCall]
  /\ met' = [met EXCEPT ![w] = FALSE]
  /\ UNCHANGED <<call, queue, killed>>

\* Reject(requeue=False): the message is dropped.
RejectMessage(w) ==
  /\ work[w] = "locking" /\ pc[w] = "failed"
  /\ Del(w)
  /\ work' = [work EXCEPT ![w] = "idle"]
  /\ job' = [job EXCEPT ![w] = NoCall]
  /\ met' = [met EXCEPT ![w] = FALSE]
  /\ UNCHANGED <<call, queue, killed>>

-----------------------------------------------------------------------------
\* A process is killed while it has to do with the lock.
CallerKilled(c) ==
  /\ Crash(c)
  /\ call' = [call EXCEPT ![c] = "raised"]
  /\ killed' = TRUE
  /\ UNCHANGED <<queue, work, job, met>>

WorkerKilled(w) ==
  /\ Crash(w)
  /\ work' = [work EXCEPT ![w] = "idle"]
  /\ job' = [job EXCEPT ![w] = NoCall]
  /\ met' = [met EXCEPT ![w] = FALSE]
  /\ killed' = TRUE
  /\ UNCHANGED <<call, queue>>

UniqNext ==
  \/ \E c \in Callers :
       \/ Call(c) \/ CallAcquires(c) \/ CallRejected(c) \/ Publish(c)
       \/ PublishFails(c) \/ CallEnds(c) \/ CallReturns(c) \/ CallerKilled(c)
  \/ \E w \in Workers :
       \/ \E c \in Callers : Take(w, c)
       \/ WorkerAcquires(w) \/ Run(w) \/ RunEnds(w) \/ Finish(w)
       \/ RejectMessage(w) \/ WorkerKilled(w)
  \/ Tick /\ UNCHANGED taskVars

UniqSpec == UniqInit /\ [][UniqNext]_vars

-----------------------------------------------------------------------------
\* A task with uniq=True runs in one worker at a time: two run it only if one
\* has lost its key to the second delete of a call or run that was over, or to
\* the end of one that had lost its own.
UniqueRun == \A v, w \in Running \ robbed : v = w

\* The same in full, which no run lists: the second delete lets a worker in
\* beside the one whose key it has removed.
UniqueRunAlways == \A v, w \in Running : v = w

\* Calls and runs that return or raise, in whatever order and with whatever
\* errors, leave no key behind: the task is not blocked when nobody is at it.
\* Only a process that is killed can leave one.
NoKeyLeaks == (\A l \in Lockers : pc[l] = "idle") /\ ~killed => value = NoOne

\* "This task is currently performed by another worker": a message is dropped
\* only if another worker was running the task during the wait for the lock
\* (or a killed process left its key behind).
RejectTellsTruth ==
  [][\A w \in Workers : RejectMessage(w) => met[w] \/ killed]_vars
=============================================================================
