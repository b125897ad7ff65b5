---------------------------- MODULE SingletonBeat ----------------------------
(***************************************************************************)
(* SingletonDatabaseScheduler of vstutils/celery_beat_scheduler.py: every  *)
(* beat process runs the same schedule, and the one that gets the lock     *)
(* Lock.SCHEDULER sends the tasks that are due.  The lock is taken once    *)
(* and never looked at again: each tick touches the key and goes on.       *)
(*                                                                         *)
(* A locker of VstLock is a beat process; its Lock object lives in the     *)
(* attribute scheduler_lock, close() releases it and the end of the        *)
(* process destroys it, which deletes the key a second time: other         *)
(* processes can step between the two.                                     *)
(***************************************************************************)
EXTENDS VstLock, FiniteSets, Sequences

CONSTANTS
  Entries,     \* the entries of the schedule
  MaxOutages   \* bound: processes that die or are shut down in a behaviour

ASSUME BeatAssumption == MaxOutages \in Nat /\ IsFiniteSet(Entries)

VARIABLES
  mode,     \* what each process is doing
  due,      \* the entries at the top of a process's heap whose time has
            \*   come, the earliest first
  outages   \* processes that have died or been shut down

beatVars == <<mode, due, outages>>
vars == <<lockVars, beatVars>>

Modes == {"down", "fresh", "standby", "locking", "leading", "ticking", "closing"}

\* Some entries in some order, each at most once.
Backlogs ==
  {q \in UNION {[1..k -> Entries] : k \in 0..Cardinality(Entries)} :
     \A i, j \in DOMAIN q : q[i] = q[j] => i = j}

Overdue(s) == {due[s][i] : i \in DOMAIN due[s]}

BeatTypeOK ==
  /\ TypeOK
  /\ mode \in [Lockers -> Modes]
  /\ due \in [Lockers -> Backlogs]
  /\ outages \in 0..MaxOutages

BeatInit ==
  /\ Init
  /\ mode = [s \in Lockers |-> "down"]
  /\ due = [s \in Lockers |-> <<>>]
  /\ outages = 0

Become(s, m) == mode' = [mode EXCEPT ![s] = m]

-----------------------------------------------------------------------------
\* A beat process starts with the entries that became due while it was down.
Start(s) ==
  /\ mode[s] = "down"
  /\ Become(s, "fresh")
  /\ \E overdue \in Backlogs : due' = [due EXCEPT ![s] = overdue]
  /\ UNCHANGED <<lockVars, outages>>

\* The first tick: every entry that is due is popped, reserved for its next
\* time and pushed back, and nothing is sent.
DiscardOverdue(s) ==
  /\ mode[s] = "fresh"
  /\ Become(s, "standby")
  /\ due' = [due EXCEPT ![s] = <<>>]
  /\ UNCHANGED <<lockVars, outages>>

\* A later tick without a lock tries to take it ...
TryLock(s) ==
  /\ mode[s] = "standby"
  /\ Begin(s)
  /\ Become(s, "locking")
  /\ UNCHANGED <<due, outages>>

Acquire(s) ==
  /\ mode[s] = "locking"
  /\ Try(s)
  /\ UNCHANGED beatVars

\* A mutant of Refused: a tick without the lock discards what has come due, as
\* the first one does.
RefusedDiscards(s) ==
  /\ mode[s] = "locking"
  /\ pc[s] = "failed"
  /\ Del(s)
  /\ Become(s, "standby")
  /\ due' = [due EXCEPT ![s] = <<>>]
  /\ UNCHANGED outages

\* ... and comes back in 60 seconds if another process has it.
Refused(s) ==
  /\ mode[s] = "locking"
  /\ pc[s] = "failed"
  /\ Del(s)
  /\ Become(s, "standby")
  /\ UNCHANGED <<due, outages>>

\* A mutant of Elected: the refused scheduler goes on to tick.
ElectedAnyway(s) ==
  /\ mode[s] = "locking"
  /\ pc[s] \in {"held", "failed"}
  /\ Become(s, "leading")
  /\ UNCHANGED <<lockVars, due, outages>>

Elected(s) ==
  /\ mode[s] = "locking"
  /\ pc[s] = "held"
  /\ Become(s, "leading")
  /\ UNCHANGED <<lockVars, due, outages>>

\* A tick with a lock touches the key, whoever's it is by now, ...
Touch(s) ==
  /\ mode[s] = "leading"
  /\ Prolong(s)
  /\ Become(s, "ticking")
  /\ UNCHANGED <<due, outages>>

\* ... and runs the tick of the base class, which sends one due task.
Send(s) ==
  /\ mode[s] = "ticking"
  /\ \/ due[s] # <<>> /\ due' = [due EXCEPT ![s] = Tail(@)]
     \/ due[s] = <<>> /\ UNCHANGED due
  /\ Become(s, "leading")
  /\ UNCHANGED <<lockVars, outages>>

\* The time of an entry comes, in the heap of every process by itself.
ComesDue(s, e) ==
  /\ mode[s] \in Modes \ {"down", "closing"}
  /\ e \notin Overdue(s)
  /\ due' = [due EXCEPT ![s] = Append(@, e)]
  /\ UNCHANGED <<lockVars, mode, outages>>

-----------------------------------------------------------------------------
\* close(): the lock is released if there is one, then the process ends.
Close(s) ==
  /\ outages < MaxOutages
  /\ \/ mode[s] \in {"fresh", "standby"} /\ UNCHANGED lockVars
     \/ mode[s] = "leading" /\ Exit(s)
  /\ Become(s, "closing")
  /\ outages' = outages + 1
  /\ UNCHANGED due

\* The end of the process, in which __del__ deletes the key once more.
Terminate(s) ==
  /\ mode[s] = "closing"
  /\ IF pc[s] = "exited" THEN Del(s) ELSE UNCHANGED lockVars
  /\ Become(s, "down")
  /\ UNCHANGED <<due, outages>>

\* The process dies without a word.
Die(s) ==
  /\ mode[s] # "down" /\ outages < MaxOutages
  /\ IF pc[s] # "idle" THEN Crash(s) ELSE UNCHANGED lockVars
  /\ Become(s, "down")
  /\ outages' = outages + 1
  /\ UNCHANGED due

Run(s) ==
  \/ Start(s) \/ DiscardOverdue(s) \/ TryLock(s) \/ Acquire(s)
  \/ Refused(s) \/ Elected(s) \/ Touch(s) \/ Send(s) \/ Terminate(s)

Time == Tick /\ UNCHANGED beatVars

BeatNext ==
  \/ \E s \in Lockers :
       \/ Run(s) \/ Close(s) \/ Die(s)
       \/ \E e \in Entries : ComesDue(s, e)
  \/ Time

BeatSpec == BeatInit /\ [][BeatNext]_vars

Wins(s, Step(_)) == mode[s] = "locking" /\ Step(s) /\ UNCHANGED beatVars

\* Beat's service loop keeps ticking, a process that ended is started again
\* and time passes.  The naps of Lock.__init__ are random, so a process that
\* finds the key free again and again adds it some time, and one that gets as
\* far as the check again and again is in time for it once.
BeatFairSpec ==
  /\ BeatSpec
  /\ WF_vars(Time)
  /\ \A s \in Lockers :
       WF_vars(Run(s)) /\ SF_vars(Wins(s, Add)) /\ SF_vars(Wins(s, Verify))

-----------------------------------------------------------------------------
Leaders == {s \in Lockers : mode[s] \in {"leading", "ticking"}}

\* The scheduler is a singleton: two processes are past the lock and send tasks
\* only if one has lost its key to the second delete of a process that was shut
\* down, or to the release of one that had lost its own.
OneLeader == \A s, t \in Leaders \ robbed : s = t

\* The class's promise in full, which no run lists: a third process leads beside
\* the successor whose key the second delete has removed.
OneLeaderAlways == \A s, t \in Leaders : s = t

\* The schedule survives its leader: whatever dies or is shut down, once the
\* outages are over some process leads again and goes on leading.
Failover == <>[](Leaders # {})

\* Nothing that has come due is lost: after the first tick an entry leaves the
\* heap of a process only as the earliest one, in a tick of a leader that sends
\* it, so the backlog of a standby outlasts its waiting; and a leader works off
\* its own, one task per tick, whatever comes due meanwhile.
DueIsSent ==
  /\ [][\A s \in Lockers : \A e \in Overdue(s) \ Overdue(s)' :
          \/ mode[s] \in {"down", "fresh"}
          \/ mode[s] = "ticking" /\ e = due[s][1]]_vars
  /\ \A s \in Lockers : \A e \in Entries :
       (s \in Leaders /\ e \in Overdue(s)) ~> (s \notin Leaders \/ e \notin Overdue(s))
=============================================================================
