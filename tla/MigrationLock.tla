---------------------------- MODULE MigrationLock ----------------------------
(***************************************************************************)
(* DockerCommand.migrate of vstutils/management/commands/_base.py: the     *)
(* nodes of a deployment start together, each runs migrate on its          *)
(* databases under one shared lock and tries again when an attempt fails.  *)
(*                                                                         *)
(* The with statement binds its Lock object to the local name "lock",      *)
(* which survives the attempt: the object of an attempt that got the lock  *)
(* is destroyed, and releases again, when a later attempt rebinds the name *)
(* or when migrate returns.  A node therefore has two Lock objects, the    *)
(* one it is using and the one the name still refers to.  The third one,   *)
(* which is never created, stands for those of the node's killed           *)
(* containers: a payload is a uuid4, which no later object has again.      *)
(***************************************************************************)
EXTENDS VstLock

CONSTANTS
  Nodes,      \* the application processes that migrate on start
  Databases,  \* how many databases databases_to_migrate yields
  Attempts    \* options["attempts"]

ASSUME MigrationAssumption ==
  /\ Lockers = Nodes \X {0, 1, 2}
  /\ Databases \in Nat
  /\ Attempts \in Nat

VARIABLES
  step,     \* where each node is in migrate
  slot,     \* which of its two Lock objects the node is using
  tried,    \* attempts it has finished
  done      \* databases migrated in the current attempt

nodeVars == <<step, slot, tried, done>>
migrationVars == <<lockVars, nodeVars>>

Steps == {"start", "locking", "migrating", "migrated", "failed", "success", "gaveup"}

Using(n) == <<n, slot[n]>>
Bound(n) == <<n, 1 - slot[n]>>
Own(n) == {Using(n), Bound(n)}
Orphaned(n) == <<n, 2>>

MigrationTypeOK ==
  /\ TypeOK
  /\ step \in [Nodes -> Steps]
  /\ slot \in [Nodes -> {0, 1}]
  /\ tried \in [Nodes -> 0..Attempts]
  /\ done \in [Nodes -> 0..Databases]

MigrationInit ==
  /\ Init
  /\ step = [n \in Nodes |-> "start"]
  /\ slot = [n \in Nodes |-> 0]
  /\ tried = [n \in Nodes |-> 0]
  /\ done = [n \in Nodes |-> 0]

NodeGoto(n, s) == step' = [step EXCEPT ![n] = s]

-----------------------------------------------------------------------------
\* The next turn of the for loop creates a Lock object.
Attempt(n) ==
  /\ step[n] \in {"start", "failed"} /\ tried[n] < Attempts
  /\ Begin(Using(n))
  /\ NodeGoto(n, "locking")
  /\ done' = [done EXCEPT ![n] = 0]
  /\ UNCHANGED <<slot, tried>>

\* Lock.__init__ of that object runs.
Acquire(n) ==
  /\ step[n] = "locking"
  /\ Try(Using(n))
  /\ UNCHANGED nodeVars

\* A mutant of Refused: a refusal is not counted as an attempt.
RefusedUncounted(n) ==
  /\ step[n] = "locking"
  /\ pc[Using(n)] = "failed"
  /\ Del(Using(n))
  /\ NodeGoto(n, "failed")
  /\ UNCHANGED <<slot, tried, done>>

\* AcquireLockException, caught like any other: the name keeps its object.
Refused(n) ==
  /\ step[n] = "locking"
  /\ pc[Using(n)] = "failed"
  /\ Del(Using(n))
  /\ NodeGoto(n, "failed")
  /\ tried' = [tried EXCEPT ![n] = @ + 1]
  /\ UNCHANGED <<slot, done>>

\* "as lock": the name is rebound and the object of an earlier attempt dies.
Bind(n) ==
  /\ step[n] = "locking"
  /\ pc[Using(n)] = "held"
  /\ IF pc[Bound(n)] = "exited" THEN Del(Bound(n)) ELSE UNCHANGED lockVars
  /\ NodeGoto(n, "migrating")
  /\ UNCHANGED <<slot, tried, done>>

\* The migrate subprocess of the next database succeeds.
MigrateNext(n) ==
  /\ step[n] = "migrating" /\ done[n] < Databases
  /\ done' = [done EXCEPT ![n] = @ + 1]
  /\ UNCHANGED <<lockVars, step, slot, tried>>

\* A mutant of MigrateFails: the failed attempt does not leave its with
\* statement, as when the traceback of the error keeps the object alive.
MigrateFailsInside(n) ==
  /\ step[n] = "migrating" /\ done[n] < Databases
  /\ NodeGoto(n, "failed")
  /\ slot' = [slot EXCEPT ![n] = 1 - @]
  /\ tried' = [tried EXCEPT ![n] = @ + 1]
  /\ UNCHANGED <<lockVars, done>>

\* It fails: check_call raises through the with statement.
MigrateFails(n) ==
  /\ step[n] = "migrating" /\ done[n] < Databases
  /\ Exit(Using(n))
  /\ NodeGoto(n, "failed")
  /\ slot' = [slot EXCEPT ![n] = 1 - @]
  /\ tried' = [tried EXCEPT ![n] = @ + 1]
  /\ UNCHANGED done

\* All databases are done: the with statement is left and the loop broken.
Migrated(n) ==
  /\ step[n] = "migrating" /\ done[n] = Databases
  /\ Exit(Using(n))
  /\ NodeGoto(n, "migrated")
  /\ slot' = [slot EXCEPT ![n] = 1 - @]
  /\ UNCHANGED <<tried, done>>

\* migrate returns, and with its frame goes the object the name refers to.
Return(n) ==
  /\ \/ step[n] = "migrated" /\ NodeGoto(n, "success")
     \/ step[n] \in {"start", "failed"} /\ tried[n] = Attempts /\ NodeGoto(n, "gaveup")
  /\ IF pc[Bound(n)] = "exited" THEN Del(Bound(n)) ELSE UNCHANGED lockVars
  /\ UNCHANGED <<slot, tried, done>>

\* The container is killed and started again.  A key it had stored stays.
Killed(n) ==
  /\ step[n] \notin {"start", "success", "gaveup"}
  /\ step' = [step EXCEPT ![n] = "start"]
  /\ tried' = [tried EXCEPT ![n] = 0]
  /\ done' = [done EXCEPT ![n] = 0]
  /\ pc' = [l \in Lockers |-> IF l[1] = n THEN "idle" ELSE pc[l]]
  /\ id' = [l \in Lockers |-> IF l[1] = n THEN FALSE ELSE id[l]]
  /\ waited' = [l \in Lockers |-> IF l[1] = n THEN 0 ELSE waited[l]]
  /\ slot' = [slot EXCEPT ![n] = 0]
  /\ robbed' = robbed \ Own(n)
  /\ value' = IF value \in Own(n) THEN Orphaned(n) ELSE value
  /\ UNCHANGED ttl

Migrate(n) ==
  \/ Attempt(n) \/ Acquire(n) \/ Refused(n) \/ Bind(n)
  \/ MigrateNext(n) \/ MigrateFails(n) \/ Migrated(n) \/ Return(n)

MigrationNext ==
  \/ \E n \in Nodes : Migrate(n) \/ Killed(n)
  \/ Tick /\ UNCHANGED nodeVars

\* migrate runs on, and so does time; nobody has to kill a container.
MigrationSpec ==
  /\ MigrationInit /\ [][MigrationNext]_migrationVars
  /\ WF_migrationVars(Tick /\ UNCHANGED nodeVars)
  /\ \A n \in Nodes : WF_migrationVars(Migrate(n))

-----------------------------------------------------------------------------
\* "Migration process still locked by another application process": migrate
\* runs on one node at a time.
OneMigrator ==
  \A n, m \in Nodes : step[n] = "migrating" /\ step[m] = "migrating" => n = m

\* A node that has finished migrate, in either way, leaves no key for the others
\* to wait on, unless it is the key of an earlier container that was killed.
FinishedLeavesNoKey ==
  \A n \in Nodes : step[n] \in {"success", "gaveup"} => value \notin Own(n)

\* The start of a node is not held up for ever by the others: its attempts
\* end in success or are used up, unless the container is restarted.
MigrationEnds ==
  \A n \in Nodes :
    step[n] = "locking" ~> step[n] \in {"success", "gaveup", "start"}
=============================================================================
