-------------------------- MODULE Commands_proofs --------------------------
(***************************************************************************)
(* The commands that run other processes, which share no state: the web    *)
(* command over its services, the executor over its child processes, and   *)
(* migrate on the start of a container.                                    *)
(***************************************************************************)
EXTENDS Supervisor, Executor, MigrationLock, VstLock_proofs, SequenceTheorems, TLAPS

(***************************************************************************)
(* The web command, with one service or two.                               *)
(***************************************************************************)

\* The services' and the signals' actions are small: the type invariant
\* follows from each by expanding it.
\* Every variable of the supervisor keeps its type, with one service or two.
THEOREM SupTypeCorrect == SupSpec => []SupTypeOK
<1>1. SupInit => SupTypeOK
  BY ServicesAssumption DEF SupInit, SupTypeOK, Services, NoService
<1>2. SupTypeOK /\ [SupNext]_supVars => SupTypeOK'
  <2> SUFFICES ASSUME SupTypeOK, [SupNext]_supVars
               PROVE  SupTypeOK'
    OBVIOUS
  <2> USE DEF SupTypeOK, LoopGoto, BecomeChild
  <2>1. CASE UNCHANGED supVars
    BY <2>1 DEF supVars
  <2>2. ASSUME NEW s \in Services, Serve(s) \/ ChildEnds(s)
        PROVE  SupTypeOK'
    <3>1. CASE Register(s)
      BY <3>1 DEF Register
    <3>2. CASE Started(s)
      BY <3>2 DEF Started
    <3>3. CASE SpawnFails(s)
      BY <3>3 DEF SpawnFails
    <3>4. CASE Wake(s)
      BY <3>4 DEF Wake
    <3>5. CASE CancelTask(s)
      BY <3>5 DEF CancelTask, Terminate
    <3>6. CASE Stopped(s)
      BY <3>6 DEF Stopped
    <3>7. CASE StopTimesOut(s)
      BY <3>7 DEF StopTimesOut
    <3>8. CASE ChildEnds(s)
      BY <3>8 DEF ChildEnds
    <3> QED
      BY <2>2, <3>1, <3>2, <3>3, <3>4, <3>5, <3>6, <3>7, <3>8 DEF Serve
  <2>3. ASSUME NEW s \in Services, NEW sig \in {"stop", "hup"}, StopRuns(s, sig)
        PROVE  SupTypeOK'
    BY <2>3 DEF StopRuns, Terminate
  <2>4. CASE StopSignal
    BY <2>4 DEF StopSignal
  <2>5. CASE HupSignal
    BY <2>5 DEF HupSignal
  <2>6. CASE Interrupt \/ FirstCompleted \/ End
    BY <2>6 DEF Interrupt, FirstCompleted, End
  <2> QED
    BY <2>1, <2>2, <2>3, <2>4, <2>5, <2>6 DEF SupNext
<1> QED
  BY <1>1, <1>2, PTL DEF SupSpec

-----------------------------------------------------------------------------
\* A child lives only while its service waits for it or stops it, and the
\* command ends only after every service.
ChildHasKeeper ==
  \A s \in Services : child[s] \in Live => loop[s] \in {"waiting", "stopping"}

AllReturned == main = "ended" => \A s \in Services : loop[s] = "returned"

KeepInv == SupTypeOK /\ ChildHasKeeper /\ AllReturned

LEMMA KeepStep == KeepInv /\ SupTypeOK' /\ [SupNext]_supVars => KeepInv'
<1> SUFFICES ASSUME KeepInv, SupTypeOK', [SupNext]_supVars
             PROVE  ChildHasKeeper' /\ AllReturned'
  BY DEF KeepInv
<1> USE DEF KeepInv, SupTypeOK, ChildHasKeeper, AllReturned, Live, LoopGoto, BecomeChild
<1>1. CASE UNCHANGED supVars
  BY <1>1 DEF supVars
<1>2. ASSUME NEW s \in Services, Serve(s) \/ ChildEnds(s)
      PROVE  ChildHasKeeper' /\ AllReturned'
  <2>1. CASE Register(s)
    BY <2>1 DEF Register
  <2>2. CASE Started(s)
    BY <2>2 DEF Started
  <2>3. CASE SpawnFails(s)
    BY <2>3 DEF SpawnFails
  <2>4. CASE Wake(s)
    BY <2>4 DEF Wake
  <2>5. CASE CancelTask(s)
    BY <2>5 DEF CancelTask, Terminate
  <2>6. CASE Stopped(s)
    BY <2>6 DEF Stopped
  <2>7. CASE StopTimesOut(s) \/ ChildEnds(s)
    BY <2>7 DEF StopTimesOut, ChildEnds
  <2> QED
    BY <1>2, <2>1, <2>2, <2>3, <2>4, <2>5, <2>6, <2>7 DEF Serve
<1>3. ASSUME NEW s \in Services, NEW sig \in {"stop", "hup"}, StopRuns(s, sig)
      PROVE  ChildHasKeeper' /\ AllReturned'
  BY <1>3 DEF StopRuns, Terminate
<1>4. CASE StopSignal \/ HupSignal
  BY <1>4 DEF StopSignal, HupSignal
<1>5. CASE Interrupt \/ FirstCompleted \/ End
  BY <1>5 DEF Interrupt, FirstCompleted, End
<1> QED
  BY <1>1, <1>2, <1>3, <1>4, <1>5 DEF SupNext

\* When the command has ended no child runs on: handle_processes cancels and
\* awaits every service, and a service returns only without a live child.
THEOREM NoOrphan == SupSpec => []NoChildLeftBehind
<1>1. SupInit => ChildHasKeeper /\ AllReturned
  BY DEF SupInit, ChildHasKeeper, AllReturned, Live
<1>2. KeepInv => NoChildLeftBehind
  BY DEF KeepInv, ChildHasKeeper, AllReturned, NoChildLeftBehind
<1> QED
  BY <1>1, <1>2, KeepStep, SupTypeCorrect, PTL DEF SupSpec, KeepInv

-----------------------------------------------------------------------------
\* As long as nothing has told the command to end, no service has been told
\* either, and none has returned or is being stopped.
Undisturbed ==
  told = {} /\ ~broken =>
    /\ main = "running"
    /\ \A s \in Services : ~exiting[s] /\ loop[s] \notin {"stopping", "returned"}

\* Crashing children and SIGHUP alone never end the command: run_process
\* leaves its loop only by should_exit, a cancellation or an error.
THEOREM EndsOnlyWhenTold == SupSpec => []OnlyToldEnds
<1>1. SupInit => Undisturbed
  BY Zenon DEF SupInit, Undisturbed
<1>2. SupTypeOK /\ Undisturbed /\ [SupNext]_supVars => Undisturbed'
  <2> SUFFICES ASSUME SupTypeOK, Undisturbed, [SupNext]_supVars, told' = {}, ~broken'
               PROVE  main' = "running"
                      /\ \A s \in Services : ~exiting'[s] /\ loop'[s] \notin {"stopping", "returned"}
    BY DEF Undisturbed
  <2> USE DEF SupTypeOK, LoopGoto
  <2>1. told = {} /\ ~broken
    <3>1. CASE UNCHANGED supVars
      BY <3>1 DEF supVars
    <3>2. ASSUME NEW s \in Services, Serve(s) \/ ChildEnds(s)
          PROVE  told = {} /\ ~broken
      BY <3>2 DEF Serve, ChildEnds, Register, Started, SpawnFails, Wake, CancelTask,
                  Stopped, StopTimesOut
    <3>3. ASSUME NEW s \in Services, NEW sig \in {"stop", "hup"}, StopRuns(s, sig)
          PROVE  told = {} /\ ~broken
      BY <3>3 DEF StopRuns
    <3>4. CASE StopSignal \/ HupSignal \/ Interrupt \/ FirstCompleted \/ End
      BY <3>4 DEF StopSignal, HupSignal, Interrupt, FirstCompleted, End
    <3> QED
      BY <3>1, <3>2, <3>3, <3>4 DEF SupNext
  <2>2. /\ main = "running"
        /\ \A s \in Services : ~exiting[s] /\ loop[s] \notin {"stopping", "returned"}
    BY <2>1 DEF Undisturbed
  <2>3. CASE UNCHANGED supVars
    BY <2>2, <2>3 DEF supVars
  <2>4. ASSUME NEW s \in Services, Serve(s) \/ ChildEnds(s)
        PROVE  /\ main' = "running" /\ exiting' = exiting
               /\ \/ loop' = loop
                  \/ \E label \in {"starting", "waiting"} : LoopGoto(s, label)
    BY <2>2, <2>4 DEF Serve, ChildEnds, Register, Started, SpawnFails, Wake, CancelTask,
                      Cancelled, Stopped, StopTimesOut
  <2>5. ASSUME NEW s \in Services, NEW sig \in {"stop", "hup"}, StopRuns(s, sig)
        PROVE  UNCHANGED <<main, exiting, loop>>
    BY <2>5 DEF StopRuns
  <2>6. CASE HupSignal
    BY <2>2, <2>6 DEF HupSignal
  <2>7. ~(StopSignal \/ Interrupt \/ FirstCompleted \/ End)
    BY <2>1, <2>2 DEF StopSignal, Interrupt, FirstCompleted, End
  <2> QED
    BY <2>2, <2>3, <2>4, <2>5, <2>6, <2>7 DEF SupNext
<1>3. Undisturbed => OnlyToldEnds
  BY DEF Undisturbed, OnlyToldEnds
<1> QED
  BY <1>1, <1>2, <1>3, SupTypeCorrect, PTL DEF SupSpec

-----------------------------------------------------------------------------
(***************************************************************************)
(* migrate, on any number of nodes.  The lock is used in with statements,  *)
(* and its keys may run out: nothing is assumed of the environment.        *)
(***************************************************************************)

LockObjects == Nodes \X {0, 1}

\* An object whose payload is stored has not been through a release.
StoredByLiving == \A l \in LockObjects : value = l => pc[l] \in {"settle", "held"}

HolderMayDelete == \A l \in LockObjects : pc[l] = "held" => id[l]

\* How far a node is tells how far its two objects are.
ObjectsFollowSteps ==
  \A n \in Nodes :
    /\ step[n] = "locking" => pc[Using(n)] \in Acquiring \cup {"held", "failed"}
    /\ step[n] = "migrating" => pc[Using(n)] = "held" /\ pc[Bound(n)] = "idle"
    /\ step[n] \notin {"locking", "migrating"} => pc[Using(n)] = "idle"
    /\ pc[Bound(n)] \in {"idle", "exited"}

AttemptsLeft == \A n \in Nodes : step[n] \in {"locking", "migrating"} => tried[n] < Attempts

MigrationInv ==
  MigrationTypeOK /\ StoredByLiving /\ HolderMayDelete /\ ObjectsFollowSteps /\ AttemptsLeft

LEMMA TwoObjects ==
  ASSUME MigrationTypeOK, NEW n \in Nodes
  PROVE  /\ Own(n) = {n} \X {0, 1} /\ Own(n) \subseteq LockObjects
         /\ Using(n) \in LockObjects /\ Bound(n) \in LockObjects /\ Using(n) # Bound(n)
         /\ LockObjects \subseteq Lockers /\ Orphaned(n) \in Lockers \ LockObjects
<1>1. slot[n] \in {0, 1} /\ Using(n) = <<n, slot[n]>> /\ Bound(n) = <<n, 1 - slot[n]>>
  BY DEF MigrationTypeOK, Using, Bound
<1>2. CASE slot[n] = 0
  BY <1>1, <1>2, MigrationAssumption DEF Own, LockObjects, Orphaned
<1>3. CASE slot[n] = 1
  BY <1>1, <1>3, MigrationAssumption DEF Own, LockObjects, Orphaned
<1> QED
  BY <1>1, <1>2, <1>3

\* A node's objects are no other node's.
LEMMA ObjectsApart ==
  ASSUME MigrationTypeOK, NEW n \in Nodes, NEW m \in Nodes, m # n
  PROVE  {Using(m), Bound(m)} \cap {Using(n), Bound(n), Orphaned(n)} = {}
BY DEF Using, Bound, Orphaned

\* What the steps of Lock do to the key and to the other objects.
LEMMA ObjectStep ==
  ASSUME TypeOK, NEW l \in LockObjects, LockObjects \subseteq Lockers,
         StoredByLiving, HolderMayDelete,
         \/ Begin(l) \/ Try(l) \/ Exit(l) \/ Del(l)
  PROVE  /\ StoredByLiving' /\ HolderMayDelete'
         /\ \A k \in Lockers \ {l} : pc'[k] = pc[k]
<1> USE LockAssumption DEF TypeOK, StoredByLiving, HolderMayDelete, Goto, KeepKey
<1>1. CASE Begin(l)
  BY <1>1 DEF Begin
<1>2. CASE Add(l) \/ Write(l)
  BY <1>2 DEF Add, Write, Store
<1>3. CASE LookUp(l) \/ Overwritten(l) \/ GiveUp(l)
  BY <1>3 DEF LookUp, Overwritten, GiveUp, CanTry
<1>4. CASE Verify(l)
  BY <1>4 DEF Verify
<1>5. CASE Exit(l)
  BY <1>5 DEF Exit, Release, Remove
<1>6. CASE Del(l)
  BY <1>6, MigrationAssumption DEF Del, Destructible, Release, Remove
<1> QED
  BY <1>1, <1>2, <1>3, <1>4, <1>5, <1>6 DEF Try

LEMMA MigrationInvInit == MigrationInit => MigrationInv
<1> SUFFICES ASSUME MigrationInit PROVE MigrationInv
  OBVIOUS
<1>1. MigrationTypeOK
  BY TypeInit, MigrationAssumption DEF MigrationInit, MigrationTypeOK, Steps
<1>2. \A n \in Nodes : Using(n) \in Lockers /\ Bound(n) \in Lockers
  BY <1>1, TwoObjects
<1> QED
  BY <1>1, <1>2, LockAssumption, MigrationAssumption
  DEF MigrationInv, MigrationInit, Init, StoredByLiving, HolderMayDelete, ObjectsFollowSteps,
      AttemptsLeft, LockObjects

LEMMA NodeStepKeepsType == ASSUME MigrationInv, [MigrationNext]_migrationVars PROVE MigrationTypeOK'
<1> USE MigrationAssumption
    DEF MigrationInv, MigrationTypeOK, AttemptsLeft, NodeGoto, Steps
<1>1. ASSUME NEW n \in Nodes, Migrate(n) PROVE MigrationTypeOK'
  <2>1. [Next]_lockVars
    <3>1. Using(n) \in Lockers /\ Bound(n) \in Lockers
      BY TwoObjects
    <3> QED
      BY <1>1, <3>1 DEF Migrate, Attempt, Acquire, Refused, Bind, MigrateNext, MigrateFails,
           Migrated, Return, Next
  <2>2. TypeOK'
    BY <2>1, TypeStep
  <2>3. CASE Attempt(n) \/ Acquire(n)
    BY <2>2, <2>3 DEF Attempt, Acquire, nodeVars
  <2>4. CASE Refused(n) \/ Bind(n)
    BY <2>2, <2>4 DEF Refused, Bind
  <2>5. CASE MigrateNext(n) \/ Migrated(n)
    BY <2>2, <2>5 DEF MigrateNext, Migrated
  <2>6. CASE MigrateFails(n) \/ Return(n)
    BY <2>2, <2>6 DEF MigrateFails, Return
  <2> QED
    BY <1>1, <2>3, <2>4, <2>5, <2>6 DEF Migrate
<1>2. ASSUME NEW n \in Nodes, Killed(n) PROVE MigrationTypeOK'
  <2>1. Own(n) \subseteq Lockers /\ Orphaned(n) \in Lockers
    BY TwoObjects
  <2> QED
    <3>1. value' \in Lockers \cup {NoOne} /\ ttl' \in 0..Timeout
      BY <1>2, <2>1 DEF Killed, TypeOK
    <3>2. pc' \in [Lockers -> PC] /\ id' \in [Lockers -> BOOLEAN]
      BY <1>2 DEF Killed, TypeOK, PC
    <3>3. waited' \in [Lockers -> 0..(Repeat + 1)] /\ robbed' \subseteq Lockers
      BY <1>2, LockAssumption DEF Killed, TypeOK
    <3>4. /\ step' \in [Nodes -> Steps] /\ slot' \in [Nodes -> {0, 1}]
          /\ tried' \in [Nodes -> 0..Attempts] /\ done' \in [Nodes -> 0..Databases]
      BY <1>2 DEF Killed
    <3> QED
      BY <3>1, <3>2, <3>3, <3>4 DEF TypeOK
<1>3. ASSUME Tick /\ UNCHANGED nodeVars PROVE MigrationTypeOK'
  BY <1>3, TypeStep DEF nodeVars, Next
<1>4. CASE UNCHANGED migrationVars
  BY <1>4, TypeStep DEF migrationVars, nodeVars
<1> QED
  BY <1>1, <1>2, <1>3, <1>4 DEF MigrationNext

\* One step of a node's code; another node's state speaks of other objects.
LEMMA NodeStepInv ==
  ASSUME MigrationInv, MigrationTypeOK', NEW n \in Nodes, Migrate(n)
  PROVE  MigrationInv'
<1> USE DEF MigrationInv
<1> DEFINE u == Using(n)
           b == Bound(n)
<1>1. /\ u \in LockObjects /\ b \in LockObjects /\ u # b
      /\ LockObjects \subseteq Lockers /\ TypeOK
  BY TwoObjects DEF MigrationTypeOK
<1>2. /\ StoredByLiving' /\ HolderMayDelete'
      /\ \A k \in Lockers \ {u, b} : pc'[k] = pc[k]
  <2>1. \/ Begin(u) \/ Try(u) \/ Exit(u) \/ Del(u) \/ Del(b)
        \/ UNCHANGED lockVars
    BY <1>1 DEF Migrate, Attempt, Acquire, Refused, Bind, MigrateNext, MigrateFails, Migrated,
         Return
  <2>2. CASE Begin(u) \/ Try(u) \/ Exit(u) \/ Del(u)
    BY <1>1, <2>2, ObjectStep
  <2>3. CASE Del(b)
    BY <1>1, <2>3, ObjectStep
  <2>4. CASE UNCHANGED lockVars
    BY <2>4 DEF lockVars, StoredByLiving, HolderMayDelete
  <2> QED
    BY <2>1, <2>2, <2>3, <2>4
<1>3. /\ step' = [step EXCEPT ![n] = step'[n]]
      /\ slot' = [slot EXCEPT ![n] = slot'[n]]
      /\ tried' = [tried EXCEPT ![n] = tried'[n]]
  BY DEF Migrate, Attempt, Acquire, Refused, Bind, MigrateNext, MigrateFails, Migrated,
       Return, NodeGoto, nodeVars, MigrationTypeOK
<1>4. AttemptsLeft'
  <2>1. step'[n] \in {"locking", "migrating"} => tried'[n] < Attempts
    BY DEF Migrate, Attempt, Acquire, Refused, Bind, MigrateNext, MigrateFails, Migrated,
         Return, NodeGoto, nodeVars, MigrationTypeOK, AttemptsLeft
  <2> QED
    BY <1>3, <2>1 DEF AttemptsLeft, MigrationTypeOK
<1>5. ASSUME NEW m \in Nodes, m # n
      PROVE  /\ step'[m] = step[m] /\ Using(m)' = Using(m) /\ Bound(m)' = Bound(m)
             /\ pc'[Using(m)] = pc[Using(m)] /\ pc'[Bound(m)] = pc[Bound(m)]
  <2>1. step'[m] = step[m] /\ slot'[m] = slot[m]
    BY <1>3, <1>5 DEF MigrationTypeOK
  <2>2. Using(m) \in Lockers \ {u, b} /\ Bound(m) \in Lockers \ {u, b}
    BY <1>5, ObjectsApart, TwoObjects
  <2> QED
    BY <1>2, <2>1, <2>2 DEF Using, Bound
<1>6. /\ step'[n] = "locking" => pc'[Using(n)'] \in Acquiring \cup {"held", "failed"}
      /\ step'[n] = "migrating" => pc'[Using(n)'] = "held" /\ pc'[Bound(n)'] = "idle"
      /\ step'[n] \notin {"locking", "migrating"} => pc'[Using(n)'] = "idle"
      /\ pc'[Bound(n)'] \in {"idle", "exited"}
  <2> USE <1>1 DEF ObjectsFollowSteps, NodeGoto, Acquiring
  <2>0. slot[n] \in {0, 1} /\ pc \in [Lockers -> PC]
    BY DEF MigrationTypeOK, TypeOK
  <2>1. slot'[n] = slot[n] => Using(n)' = u /\ Bound(n)' = b
    BY DEF Using, Bound
  <2>2. slot'[n] = 1 - slot[n] => Using(n)' = b /\ Bound(n)' = u
    BY <2>0 DEF Using, Bound
  <2>3. CASE Attempt(n)
    BY <2>0, <2>1, <2>3 DEF Attempt, Begin, Goto, MigrationTypeOK
  <2>4. CASE Acquire(n)
    <3>1. pc'[u] \in Acquiring \cup {"held", "failed"} /\ pc'[b] = pc[b]
      BY <2>0, <2>4 DEF Acquire, Try, Add, LookUp, Write, Verify, Overwritten, GiveUp, Goto
    <3> QED
      BY <2>1, <2>4, <3>1 DEF Acquire, nodeVars
  <2>5. CASE Refused(n)
    BY <2>0, <2>1, <2>5 DEF Refused, Del, Goto, MigrationTypeOK
  <2>6. CASE Bind(n)
    <3>1. pc'[u] = "held" /\ pc'[b] = "idle"
      BY <2>0, <2>6 DEF Bind, Del, Goto, lockVars
    <3> QED
      BY <2>1, <2>6, <3>1 DEF Bind, MigrationTypeOK
  <2>7. CASE MigrateNext(n)
    BY <2>1, <2>7 DEF MigrateNext, lockVars
  <2>8. CASE MigrateFails(n) \/ Migrated(n)
    <3>1. pc'[u] = "exited" /\ pc'[b] = pc[b]
      BY <2>0, <2>8 DEF MigrateFails, Migrated, Exit, Goto
    <3>2. slot'[n] = 1 - slot[n] /\ step'[n] \in {"failed", "migrated"}
      BY <2>8 DEF MigrateFails, Migrated, MigrationTypeOK
    <3>3. pc[b] = "idle"
      BY <2>8 DEF MigrateFails, Migrated
    <3> QED
      BY <2>2, <3>1, <3>2, <3>3
  <2>9. CASE Return(n)
    BY <2>0, <2>1, <2>9 DEF Return, Del, Goto, lockVars, MigrationTypeOK
  <2> QED
    BY <2>3, <2>4, <2>5, <2>6, <2>7, <2>8, <2>9 DEF Migrate
<1>7. ObjectsFollowSteps'
  BY <1>5, <1>6 DEF ObjectsFollowSteps
<1> QED
  BY <1>2, <1>4, <1>7

\* The container is restarted: its objects are gone, and its key is orphaned.
LEMMA KilledInv ==
  ASSUME MigrationInv, MigrationTypeOK', NEW n \in Nodes, Killed(n)
  PROVE  MigrationInv'
<1> USE DEF MigrationInv
<1>1. \A l \in Lockers : pc'[l] = IF l[1] = n THEN "idle" ELSE pc[l]
  BY DEF Killed
<1>2. StoredByLiving' /\ HolderMayDelete'
  <2>1. \A l \in LockObjects : l \in Lockers /\ (l[1] = n => l \in Own(n))
    BY TwoObjects DEF LockObjects
  <2>2. Orphaned(n) \notin LockObjects
    BY TwoObjects
  <2>3. \A l \in LockObjects : value' = l => value = l /\ l[1] # n
    BY <2>1, <2>2 DEF Killed
  <2>4. StoredByLiving'
    BY <1>1, <2>1, <2>3 DEF StoredByLiving
  <2>5. HolderMayDelete'
    BY <1>1, <2>1 DEF HolderMayDelete, Killed
  <2> QED
    BY <2>4, <2>5
<1>3. ObjectsFollowSteps'
  <2>1. \A m \in Nodes : /\ Using(m)' \in Lockers /\ Using(m)'[1] = m
                         /\ Bound(m)' \in Lockers /\ Bound(m)'[1] = m
    BY MigrationAssumption DEF Using, Bound, MigrationTypeOK
  <2>2. pc'[Using(n)'] = "idle" /\ pc'[Bound(n)'] = "idle" /\ step'[n] = "start"
    BY <1>1, <2>1 DEF Killed, MigrationTypeOK
  <2>3. ASSUME NEW m \in Nodes, m # n
        PROVE  /\ step'[m] = step[m] /\ Using(m)' = Using(m) /\ Bound(m)' = Bound(m)
               /\ pc'[Using(m)'] = pc[Using(m)] /\ pc'[Bound(m)'] = pc[Bound(m)]
    <3>1. step'[m] = step[m] /\ slot'[m] = slot[m]
      BY <2>3 DEF Killed, MigrationTypeOK
    <3> QED
      BY <1>1, <2>1, <2>3, <3>1 DEF Using, Bound
  <2> QED
    BY <2>2, <2>3 DEF ObjectsFollowSteps
<1>4. AttemptsLeft'
  BY DEF AttemptsLeft, Killed, MigrationTypeOK
<1> QED
  BY <1>2, <1>3, <1>4

LEMMA MigrationInvNext == ASSUME MigrationInv, [MigrationNext]_migrationVars PROVE MigrationInv'
<1>1. MigrationTypeOK'
  BY NodeStepKeepsType
<1>2. ASSUME NEW n \in Nodes, Migrate(n) PROVE MigrationInv'
  BY <1>1, <1>2, NodeStepInv
<1>3. ASSUME NEW n \in Nodes, Killed(n) PROVE MigrationInv'
  BY <1>1, <1>3, KilledInv
<1>4. ASSUME \/ Tick /\ UNCHANGED nodeVars
             \/ UNCHANGED migrationVars
      PROVE  MigrationInv'
  <2>1. pc' = pc /\ id' = id /\ value' \in {value, NoOne} /\ nodeVars' = nodeVars
    BY <1>4 DEF Tick, Remove, migrationVars, lockVars
  <2>2. LockObjects \subseteq Lockers
    BY MigrationAssumption DEF LockObjects
  <2> QED
    BY <1>1, <2>1, <2>2, LockAssumption
    DEF MigrationInv, StoredByLiving, HolderMayDelete, ObjectsFollowSteps, AttemptsLeft,
        Using, Bound, nodeVars
<1> QED
  BY <1>2, <1>3, <1>4 DEF MigrationNext

LEMMA MigrationInvariance == MigrationSpec => []MigrationInv
BY MigrationInvInit, MigrationInvNext, PTL DEF MigrationSpec

\* Nodes, their objects and the key keep their types, however long migrations
\* take and whichever containers are killed.
THEOREM MigrationTypeCorrect == MigrationSpec => []MigrationTypeOK
BY MigrationInvariance, PTL DEF MigrationInv

\* A node whose start has ended, in success or with its attempts used up, has
\* left no key that another node would wait for, on any number of nodes and
\* however the lives of keys and the lengths of migrations relate.
THEOREM NoKeyAfterStart == MigrationSpec => []FinishedLeavesNoKey
<1>1. MigrationInv => FinishedLeavesNoKey
  <2> SUFFICES ASSUME MigrationInv, NEW n \in Nodes, step[n] \in {"success", "gaveup"},
                      value \in Own(n)
               PROVE  FALSE
    BY DEF FinishedLeavesNoKey
  <2>1. pc[value] \in {"idle", "exited"}
    BY DEF MigrationInv, ObjectsFollowSteps, Own
  <2>2. value \in LockObjects
    BY TwoObjects DEF MigrationInv
  <2> QED
    BY <2>1, <2>2 DEF MigrationInv, StoredByLiving
<1> QED
  BY <1>1, MigrationInvariance, PTL

\* The second release of an object whose with statement has been left deletes a
\* key of another node (Migration_retry), but an object that was refused never
\* deletes one, not even when the container dies.
THEOREM RefusedStartRemovesNothing == MigrationSpec => LoserNeverRemoves
<1> DEFINE Kept == value # NoOne /\ value' = NoOne /\ ttl > 1
                     => \E l \in Lockers : id[l] /\ pc'[l] \in {"exited", "idle"}
<1>1. ASSUME MigrationInv, [MigrationNext]_migrationVars PROVE [Kept]_lockVars
  <2>1. ASSUME NEW n \in Nodes, Migrate(n) PROVE [Next]_lockVars
    <3>1. Using(n) \in Lockers /\ Bound(n) \in Lockers
      BY <1>1, TwoObjects DEF MigrationInv
    <3> QED
      BY <2>1, <3>1 DEF Migrate, Attempt, Acquire, Refused, Bind, MigrateNext, MigrateFails,
           Migrated, Return, Next
  <2>2. ASSUME NEW n \in Nodes, Killed(n) PROVE value # NoOne => value' # NoOne
    <3>1. Orphaned(n) # NoOne
      BY <1>1, TwoObjects, LockAssumption DEF MigrationInv
    <3> QED
      BY <2>2, <3>1 DEF Killed
  <2>3. ASSUME Tick \/ UNCHANGED migrationVars PROVE [Next]_lockVars
    BY <2>3 DEF Next, migrationVars
  <2>4. [Next]_lockVars => [Kept]_lockVars
    BY <1>1, RemovalStep DEF MigrationInv, MigrationTypeOK
  <2> QED
    BY <1>1, <2>1, <2>2, <2>3, <2>4 DEF MigrationNext
<1> QED
  BY <1>1, MigrationInvariance, PTL DEF MigrationSpec, LoserNeverRemoves

-----------------------------------------------------------------------------
(***************************************************************************)
(* The executor, for any number of calls of any lengths on one object.     *)
(***************************************************************************)

\* The lines that have been written, or lost.
Written(e) == IF reader[e] = "writing" THEN read[e] - 1 ELSE read[e]

\* Who has not had to share the output is alone with it.
Alone == \A e \in Runs \ mixed : UsesOutput(e) => Sharing(e) = {}

\* A call that has not been started has read nothing, and one whose reader came to
\* the end of the output has read all of it.
ReadersFollowPhases ==
  \A e \in Runs :
    /\ phase[e] \in {"idle", "pre"} => reader[e] = "ended" /\ read[e] = 0
    /\ phase[e] \in {"run", "passed", "failed", "returned", "called"} /\ reader[e] = "ended"
         => AtEof(e)
    /\ phase[e] \in {"returned", "called"} => reader[e] = "ended"
    /\ reader[e] = "writing" => read[e] > 0

LostWasRead == \A l \in lost : l[2] \in 1..Written(l[1])

\* What an unshared output holds while it is being filled.
OutputGrows == \A e \in Runs \ mixed : UsesOutput(e) => Whole(output, e, Written(e))

ExecInv ==
  /\ ExecTypeOK /\ Alone /\ ReadersFollowPhases /\ LostWasRead /\ OutputGrows
  /\ OutputIsWhole

LEMMA ExecInvInit == ExecInit => ExecInv
BY LinesAssumption
   DEF ExecInit, ExecInv, ExecTypeOK, Child, NoChild, Alone, UsesOutput, ReadersFollowPhases,
       LostWasRead, OutputGrows, OutputIsWhole

LEMMA ProcessStep ==
  ASSUME process \in [Runs -> Child], \A f \in Runs : process[f].printed \leq Lines[f],
         NEW e \in Runs, PrintLine(e) \/ Close(e) \/ Collect(e)
  PROVE  /\ process' \in [Runs -> Child]
         /\ \A f \in Runs : process'[f].printed \in process[f].printed..Lines[f]
<1> USE LinesAssumption DEF Child
<1>1. CASE PrintLine(e)
  BY <1>1 DEF PrintLine
<1>2. CASE Close(e)
  <2>1. process' \in [Runs -> Child]
    BY <1>2 DEF Close
  <2>2. \A f \in Runs : process'[f].printed = process[f].printed /\ process[f].printed \in Nat
    BY <1>2 DEF Close
  <2> QED
    BY <2>1, <2>2
<1>3. CASE Collect(e)
  BY <1>3 DEF Collect, Statuses
<1> QED
  BY <1>1, <1>2, <1>3

LEMMA ExecTypeStep == ASSUME ExecTypeOK, ExecNext PROVE ExecTypeOK'
<1> SUFFICES ASSUME NEW e \in Runs, \/ Step(e) \/ Execute(e) \/ HookFails(e) \/ SpawnRaises(e)
                                    \/ DecodeFails(e) \/ ReaderStopped(e) \/ HandlerEnds(e)
                                    \/ Outside(e)
             PROVE  ExecTypeOK'
  BY DEF ExecNext
<1> USE LinesAssumption DEF ExecTypeOK, Child, Statuses, execHistory
<1>1. CASE Outside(e)
  <2>1. process' \in [Runs -> Child]
    BY <1>1, ProcessStep DEF Outside
  <2>2. \A f \in Runs : process'[f].printed \in process[f].printed..Lines[f]
    BY <1>1, ProcessStep DEF Outside
  <2>3. UNCHANGED <<handled, phase, read, reader, watcher, output, outcome, mixed, lost>>
    BY <1>1 DEF Outside
  <2>4. \A f \in Runs : read[f] \in 0..process'[f].printed /\ process'[f].printed \leq Lines[f]
    <3>1. \A f \in Runs : process[f].printed \in Nat /\ read[f] \in 0..process[f].printed
      OBVIOUS
    <3> QED
      BY <2>2, <3>1
  <2> QED
    BY <2>1, <2>3, <2>4
<1>2. CASE Execute(e) \/ HookFails(e)
  BY <1>2 DEF Execute, HookFails
<1>3. CASE SpawnRaises(e)
  BY <1>3 DEF SpawnRaises, Cleared, Sharing
<1>4. CASE Spawn(e)
  <2>1. process' \in [Runs -> Child] /\ \A f \in Runs : process'[f].printed = process[f].printed
    BY <1>4 DEF Spawn
  <2>2. /\ phase' \in [Runs -> {"idle", "pre", "run", "passed", "failed", "returned", "called", "raised"}]
        /\ reader' \in [Runs -> {"reading", "writing", "ended", "failed"}]
        /\ watcher' \in [Runs -> {"looping", "ended", "failed"}]
        /\ \A f \in Runs \ {e} : phase'[f] = phase[f] /\ reader'[f] = reader[f] /\ watcher'[f] = watcher[f]
        /\ phase'[e] = "run"
    BY <1>4 DEF Spawn
  <2>3. output' \in Seq(Runs \X Nat) /\ mixed' \subseteq Runs /\ UNCHANGED <<handled, read, outcome, lost>>
    BY <1>4 DEF Spawn, Cleared, Sharing
  <2> QED
    BY <2>1, <2>2, <2>3
<1>5. CASE GatherFails(e)
  BY <1>5 DEF GatherFails
<1>10. CASE Finish(e)
  <2>1. outcome' \in [Runs -> Seq(Runs \X Nat)]
    BY <1>10 DEF Finish
  <2>2. /\ phase' \in [Runs -> {"idle", "pre", "run", "passed", "failed", "returned", "called", "raised"}]
        /\ \A f \in Runs \ {e} : phase'[f] = phase[f]
        /\ phase'[e] \in {"called", "returned"}
    BY <1>10 DEF Finish
  <2> QED
    BY <1>10, <2>1, <2>2 DEF Finish
<1>6. CASE Judge(e)
  BY <1>6 DEF Judge, Gathered
<1>7. CASE ReadLine(e) \/ DecodeFails(e)
  <2>1. \A f \in Runs : read'[f] \in 0..process[f].printed
    <3>1. CASE ReadLine(e)
      <4>1. read[e] < process[e].printed /\ \A f \in Runs \ {e} : read'[f] = read[f]
        BY <3>1 DEF ReadLine
      <4>2. process[e].printed \in Nat /\ read[e] \in 0..process[e].printed
        OBVIOUS
      <4>3. read' = [read EXCEPT ![e] = @ + 1]
        BY <3>1 DEF ReadLine
      <4> QED
        BY <4>1, <4>2, <4>3
    <3>2. CASE DecodeFails(e)
      BY <3>2 DEF DecodeFails
    <3> QED
      BY <1>7, <3>1, <3>2
  <2>2. /\ reader' \in [Runs -> {"reading", "writing", "ended", "failed"}]
        /\ \A f \in Runs : phase[f] \in {"passed", "failed"} => f # e /\ reader'[f] = reader[f]
    BY <1>7 DEF ReadLine, DecodeFails
  <2>4. read' \in [Runs -> Nat]
    <3>1. read[e] + 1 \in Nat
      OBVIOUS
    <3>2. read' = [read EXCEPT ![e] = read[e] + 1] \/ read' = read
      BY <1>7 DEF ReadLine, DecodeFails
    <3> QED
      BY <3>1, <3>2
  <2>3. UNCHANGED <<handled, phase, process, watcher, output, outcome, mixed, lost>>
    BY <1>7 DEF ReadLine, DecodeFails
  <2> QED
    BY <2>1, <2>2, <2>3, <2>4
<1>8. CASE WriteLine(e)
  <2>1. read[e] \in Nat /\ <<e, read[e]>> \in Runs \X Nat
    OBVIOUS
  <2>2. output' \in Seq(Runs \X Nat) /\ lost' \subseteq Runs \X Nat
    <3>1. CASE output' = Append(output, <<e, read[e]>>) /\ UNCHANGED lost
      BY <2>1, <3>1, AppendProperties
    <3>2. CASE lost' = lost \cup {<<e, read[e]>>} /\ UNCHANGED output
      BY <2>1, <3>2
    <3> QED
      BY <1>8, <3>1, <3>2 DEF WriteLine
  <2>3. /\ reader' \in [Runs -> {"reading", "writing", "ended", "failed"}]
        /\ \A f \in Runs : phase[f] \in {"passed", "failed"} => f # e /\ reader'[f] = reader[f]
    BY <1>8 DEF WriteLine
  <2>4. UNCHANGED <<handled, phase, process, read, watcher, outcome, mixed>>
    BY <1>8 DEF WriteLine
  <2> QED
    BY <2>2, <2>3, <2>4
<1>9. CASE ReaderEnds(e) \/ ReaderStopped(e) \/ HandlerEnds(e)
  BY <1>9 DEF ReaderEnds, ReaderStopped, HandlerEnds
<1> QED
  BY <1>1, <1>2, <1>3, <1>4, <1>5, <1>10, <1>6, <1>7, <1>8, <1>9 DEF Step

\* A step of a call.
StepOf(e) ==
  \/ Step(e) \/ Execute(e) \/ HookFails(e) \/ SpawnRaises(e) \/ DecodeFails(e)
  \/ ReaderStopped(e) \/ HandlerEnds(e) \/ Outside(e)

\* It leaves the others' processes and coroutines alone; only the output, which may
\* be theirs too, is cleared and written to.
LEMMA OthersKeep ==
  ASSUME ExecTypeOK, NEW e \in Runs, StepOf(e), NEW f \in Runs \ {e}
  PROVE  /\ phase'[f] = phase[f] /\ process'[f] = process[f] /\ read'[f] = read[f]
         /\ reader'[f] = reader[f] /\ outcome'[f] = outcome[f]
         /\ UsesOutput(f)' = UsesOutput(f) /\ Written(f)' = Written(f)
<1>1. /\ phase'[f] = phase[f] /\ process'[f] = process[f] /\ read'[f] = read[f]
      /\ reader'[f] = reader[f] /\ outcome'[f] = outcome[f]
  <2> USE DEF ExecTypeOK
  <2>1. CASE Outside(e)
    BY <2>1 DEF Outside, PrintLine, Close, Collect
  <2>2. CASE Spawn(e) \/ Judge(e) \/ Finish(e)
    BY <2>2 DEF Spawn, Judge, Finish
  <2>3. CASE Execute(e) \/ HookFails(e) \/ SpawnRaises(e) \/ GatherFails(e)
    BY <2>3 DEF Execute, HookFails, SpawnRaises, GatherFails
  <2>4. CASE ReadLine(e) \/ DecodeFails(e) \/ WriteLine(e)
    BY <2>4 DEF ReadLine, DecodeFails, WriteLine
  <2>5. CASE ReaderEnds(e) \/ ReaderStopped(e) \/ HandlerEnds(e)
    BY <2>5 DEF ReaderEnds, ReaderStopped, HandlerEnds
  <2> QED
    BY <2>1, <2>2, <2>3, <2>4, <2>5 DEF StepOf, Step
<1> QED
  BY <1>1 DEF UsesOutput, Written

\* A call starts to use the output when it is spawned.
LEMMA UseBegins ==
  ASSUME ExecInv, NEW e \in Runs, StepOf(e), UsesOutput(e)', ~UsesOutput(e)
  PROVE  Spawn(e)
BY DEF ExecInv, ExecTypeOK, ReadersFollowPhases, UsesOutput, StepOf, Step, Execute, HookFails,
     SpawnRaises, GatherFails, Judge, Finish, ReadLine, DecodeFails, WriteLine, ReaderEnds,
     ReaderStopped, HandlerEnds, Outside

LEMMA AloneStep == ASSUME ExecInv, NEW e \in Runs, StepOf(e) PROVE Alone'
<1>1. mixed \subseteq mixed'
  BY DEF StepOf, Step, Execute, HookFails, SpawnRaises, Spawn, GatherFails, Judge, Finish,
       ReadLine, DecodeFails, WriteLine, ReaderEnds, ReaderStopped, HandlerEnds, Outside,
       Cleared, execHistory
<1>2. \A f \in Runs \ {e} : UsesOutput(f)' = UsesOutput(f)
  BY OthersKeep DEF ExecInv
<1>3. CASE UsesOutput(e) \/ ~UsesOutput(e)'
  BY <1>1, <1>2, <1>3 DEF ExecInv, Alone, Sharing
<1>4. CASE UsesOutput(e)' /\ ~UsesOutput(e)
  <2>1. Spawn(e)
    BY <1>4, UseBegins
  <2>2. Sharing(e)' = Sharing(e)
    BY <1>2 DEF Sharing
  <2>3. Sharing(e) # {} => Sharing(e) \cup {e} \subseteq mixed'
    BY <2>1 DEF Spawn, Cleared
  <2>4. ASSUME NEW f \in Runs \ mixed', UsesOutput(f)' PROVE Sharing(f)' = {}
    <3>1. Sharing(e) = {}
      <4>1. CASE f = e
        BY <2>3, <2>4, <4>1
      <4>2. CASE f # e
        BY <1>2, <2>3, <2>4, <4>2 DEF Sharing
      <4> QED
        BY <4>1, <4>2
    <3>2. f = e
      BY <1>2, <2>4, <3>1 DEF Sharing
    <3> QED
      BY <2>2, <3>1, <3>2
  <2> QED
    BY <2>4 DEF Alone
<1> QED
  BY <1>3, <1>4

LEMMA EofStays == ASSUME ExecTypeOK, NEW e \in Runs, Outside(e), AtEof(e) PROVE AtEof(e)'
<1>1. read' = read /\ process[e] \in Child
  BY DEF Outside, ExecTypeOK
<1>2. CASE Close(e)
  <2>1. process'[e] = [process[e] EXCEPT !.open = FALSE]
    BY <1>2 DEF Close, ExecTypeOK
  <2>2. process'[e].open = FALSE /\ process'[e].printed = process[e].printed
    BY <1>1, <2>1 DEF Child
  <2> QED
    BY <1>1, <2>2 DEF AtEof
<1>3. CASE Collect(e)
  <2>1. PICK s \in Statuses : process'[e] = [process[e] EXCEPT !.returncode = s]
    BY <1>3 DEF Collect, ExecTypeOK
  <2>2. process'[e].open = process[e].open /\ process'[e].printed = process[e].printed
    BY <1>1, <2>1 DEF Child
  <2> QED
    BY <1>1, <2>2 DEF AtEof
<1>4. ~PrintLine(e)
  BY DEF PrintLine, AtEof
<1> QED
  BY <1>2, <1>3, <1>4 DEF Outside

LEMMA FollowStep == ASSUME ExecInv, ExecTypeOK', NEW e \in Runs, StepOf(e) PROVE ReadersFollowPhases'
<1> USE DEF ExecInv, ReadersFollowPhases
<1>1. ASSUME NEW f \in Runs \ {e}
      PROVE  /\ phase'[f] = phase[f] /\ read'[f] = read[f] /\ reader'[f] = reader[f]
             /\ AtEof(f)' = AtEof(f)
  BY OthersKeep DEF AtEof
<1>2. ExecTypeOK
  OBVIOUS
<1>3. CASE Outside(e)
  <2>1. AtEof(e) => AtEof(e)'
    BY <1>2, <1>3, EofStays
  <2> QED
    BY <1>1, <1>3, <2>1 DEF Outside
<1>4. CASE Execute(e) \/ HookFails(e) \/ SpawnRaises(e) \/ GatherFails(e)
  BY <1>1, <1>4 DEF Execute, HookFails, SpawnRaises, GatherFails, AtEof, ExecTypeOK
<1>5. CASE Spawn(e) \/ Judge(e) \/ Finish(e)
  BY <1>1, <1>5 DEF Spawn, Judge, Finish, AtEof, ExecTypeOK
<1>6. CASE ReadLine(e) \/ DecodeFails(e)
  <2>1. reader[e] = "reading" /\ reader'[e] \in {"writing", "failed"} /\ phase' = phase
    BY <1>6 DEF ReadLine, DecodeFails, ExecTypeOK
  <2>2. reader'[e] = "writing" => read'[e] > 0
    BY <1>6 DEF ReadLine, DecodeFails, ExecTypeOK, Child
  <2> QED
    BY <1>1, <2>1, <2>2
<1>7. CASE WriteLine(e) \/ ReaderEnds(e) \/ ReaderStopped(e) \/ HandlerEnds(e)
  BY <1>1, <1>7 DEF WriteLine, ReaderEnds, ReaderStopped, HandlerEnds, AtEof, ExecTypeOK
<1> QED
  BY <1>3, <1>4, <1>5, <1>6, <1>7 DEF StepOf, Step

\* Only a line that is written, or lost, counts as written.
LEMMA WrittenStep ==
  ASSUME ExecInv, NEW e \in Runs, StepOf(e)
  PROVE  \/ /\ WriteLine(e) /\ reader[e] = "writing" /\ read[e] \in Nat \ {0}
            /\ Written(e) = read[e] - 1 /\ Written(e)' = read[e]
         \/ ~WriteLine(e) /\ Written(e)' = Written(e) /\ UNCHANGED lost
<1> USE DEF Written
<1>1. read[e] \in Nat /\ (reader[e] = "writing" => read[e] > 0)
  BY DEF ExecInv, ExecTypeOK, ReadersFollowPhases
<1>2. CASE WriteLine(e)
  <2>1. reader[e] = "writing" /\ reader'[e] = "reading" /\ read' = read
    BY <1>2 DEF WriteLine, ExecInv, ExecTypeOK
  <2> QED
    BY <1>1, <1>2, <2>1
<1>3. CASE ReadLine(e)
  <2>1. /\ reader[e] = "reading" /\ reader'[e] = "writing" /\ read'[e] = read[e] + 1
        /\ UNCHANGED lost
    BY <1>3 DEF ReadLine, execHistory, ExecInv, ExecTypeOK
  <2> QED
    BY <1>1, <2>1, <1>3 DEF WriteLine
<1>4. CASE DecodeFails(e) \/ ReaderEnds(e) \/ ReaderStopped(e)
  BY <1>4 DEF DecodeFails, ReaderEnds, ReaderStopped, WriteLine, execHistory, ExecInv, ExecTypeOK
<1>5. CASE Spawn(e)
  BY <1>5 DEF Spawn, WriteLine, ExecInv, ExecTypeOK, ReadersFollowPhases
<1>6. CASE Execute(e) \/ HookFails(e) \/ SpawnRaises(e) \/ GatherFails(e)
  <2>1. UNCHANGED <<reader, read, lost>>
    BY <1>6 DEF Execute, HookFails, SpawnRaises, GatherFails, execHistory
  <2> QED
    BY <2>1 DEF WriteLine, ExecInv, ExecTypeOK
<1>7. CASE Judge(e) \/ Finish(e) \/ HandlerEnds(e) \/ Outside(e)
  <2>1. UNCHANGED <<reader, read, lost>>
    BY <1>7 DEF Judge, Finish, HandlerEnds, Outside, execHistory
  <2> QED
    BY <2>1 DEF WriteLine, ExecInv, ExecTypeOK
<1> QED
  BY <1>2, <1>3, <1>4, <1>5, <1>6, <1>7 DEF StepOf, Step

LEMMA LostStep == ASSUME ExecInv, NEW e \in Runs, StepOf(e) PROVE LostWasRead'
<1>1. \A l \in lost : l \in Runs \X Nat /\ l[2] \in 1..Written(l[1])
  BY DEF ExecInv, ExecTypeOK, LostWasRead
<1>2. \A f \in Runs \ {e} : Written(f)' = Written(f)
  BY OthersKeep DEF ExecInv
<1>3. CASE ~WriteLine(e)
  BY <1>1, <1>2, <1>3, WrittenStep DEF LostWasRead
<1>4. CASE WriteLine(e)
  <2>1. lost' \subseteq lost \cup {<<e, read[e]>>}
    BY <1>4 DEF WriteLine
  <2>2. /\ read[e] \in Nat \ {0} /\ Written(e) = read[e] - 1 /\ Written(e)' = read[e]
    BY <1>4, WrittenStep
  <2> QED
    BY <1>1, <1>2, <2>1, <2>2 DEF LostWasRead
<1> QED
  BY <1>3, <1>4

\* The output is changed by who is started and by who writes.
LEMMA OutputStep ==
  ASSUME NEW e \in Runs, StepOf(e), ~Spawn(e), ~SpawnRaises(e), ~WriteLine(e)
  PROVE  UNCHANGED <<output, mixed, lost>>
BY DEF StepOf, Step, Execute, HookFails, GatherFails, Judge, Finish, ReadLine, DecodeFails,
     ReaderEnds, ReaderStopped, HandlerEnds, Outside, execHistory

LEMMA MixedGrows == ASSUME NEW e \in Runs, StepOf(e) PROVE mixed \subseteq mixed'
BY OutputStep DEF Spawn, SpawnRaises, Cleared, WriteLine

\* A whole output stays whole with the next line, ...
LEMMA NextLine ==
  ASSUME NEW e \in Runs, NEW n \in Nat, output \in Seq(Runs \X Nat), Whole(output, e, n),
         <<e, n + 1>> \notin lost, output' = Append(output, <<e, n + 1>>), UNCHANGED lost
  PROVE  Whole(output, e, n + 1)'
<1> DEFINE was == output
           now == Append(output, <<e, n + 1>>)
<1>1. /\ Len(was) \in Nat /\ DOMAIN was = 1..Len(was) /\ DOMAIN now = 1..(Len(was) + 1)
      /\ \A i \in 1..Len(was) : now[i] = was[i]
      /\ now[Len(was) + 1] = <<e, n + 1>>
  <2>1. <<e, n + 1>> \in Runs \X Nat
    OBVIOUS
  <2> HIDE DEF now
  <2>2. /\ now \in Seq(Runs \X Nat) /\ Len(now) = Len(was) + 1
        /\ \A i \in 1..Len(was) : now[i] = was[i]
        /\ now[Len(was) + 1] = <<e, n + 1>>
    BY <2>1, AppendProperties DEF now
  <2> QED
    BY <2>2
<1> HIDE DEF now, was
<1>2. {was[i] : i \in DOMAIN was} = {<<e, k>> : k \in 1..n} \ lost
  BY DEF Whole, was
<1>3. \A i, j \in DOMAIN was : i < j => was[i][2] < was[j][2]
  BY DEF Whole, was
<1>4. {now[i] : i \in DOMAIN now} = {was[i] : i \in DOMAIN was} \cup {<<e, n + 1>>}
  <2>1. DOMAIN now = DOMAIN was \cup {Len(was) + 1} /\ \A i \in DOMAIN was : now[i] = was[i]
    BY <1>1
  <2> QED
    BY <1>1, <2>1, Zenon
<1>5. {<<e, k>> : k \in 1..(n + 1)} \ lost = ({<<e, k>> : k \in 1..n} \ lost) \cup {<<e, n + 1>>}
  <2>1. 1..(n + 1) = 1..n \cup {n + 1}
    OBVIOUS
  <2>2. {<<e, k>> : k \in 1..(n + 1)} = {<<e, k>> : k \in 1..n} \cup {<<e, n + 1>>}
    BY <2>1
  <2> QED
    BY <2>2
<1>6. \A i \in DOMAIN was : was[i][2] \in 1..n
  BY <1>2
<1>7. \A i, j \in DOMAIN now : i < j => now[i][2] < now[j][2]
  <2> SUFFICES ASSUME NEW i \in DOMAIN now, NEW j \in DOMAIN now, i < j
               PROVE  now[i][2] < now[j][2]
    OBVIOUS
  <2>1. i \in DOMAIN was /\ now[i] = was[i]
    BY <1>1
  <2>2. CASE j \in DOMAIN was
    BY <1>1, <1>3, <2>1, <2>2
  <2>3. CASE j = Len(was) + 1
    BY <1>1, <1>6, <2>1, <2>3
  <2> QED
    BY <1>1, <2>2, <2>3
<1>8. output' = now /\ lost' = lost
  BY DEF now
<1> QED
  BY <1>2, <1>4, <1>5, <1>7, <1>8 DEF Whole

\* ... and without it, when it is lost.
LEMMA LostLine ==
  ASSUME NEW e \in Runs, NEW n \in Nat, Whole(output, e, n), lost' = lost \cup {<<e, n + 1>>},
         UNCHANGED output
  PROVE  Whole(output, e, n + 1)'
<1>1. {<<e, k>> : k \in 1..(n + 1)} \ lost' = {<<e, k>> : k \in 1..n} \ lost
  <2>1. 1..(n + 1) = 1..n \cup {n + 1} /\ n + 1 \notin 1..n
    OBVIOUS
  <2>2. {<<e, k>> : k \in 1..(n + 1)} = {<<e, k>> : k \in 1..n} \cup {<<e, n + 1>>}
    BY <2>1
  <2>3. <<e, n + 1>> \notin {<<e, k>> : k \in 1..n}
    BY <2>1
  <2> QED
    BY <2>2, <2>3
<1> QED
  BY <1>1 DEF Whole

LEMMA GrowStep == ASSUME ExecInv, NEW e \in Runs, StepOf(e) PROVE OutputGrows'
<1> SUFFICES ASSUME NEW f \in Runs \ mixed', UsesOutput(f)'
             PROVE  Whole(output, f, Written(f))'
  BY DEF OutputGrows
<1>1. f \notin mixed /\ ExecTypeOK
  BY MixedGrows DEF ExecInv
<1>2. CASE f # e
  <2>1. UsesOutput(f) /\ Written(f)' = Written(f)
    BY <1>1, <1>2, OthersKeep
  <2>2. Whole(output, f, Written(f)) /\ ~UsesOutput(e)
    BY <1>1, <1>2, <2>1 DEF ExecInv, OutputGrows, Alone, Sharing
  <2>3. ~WriteLine(e)
    BY <2>2 DEF WriteLine, UsesOutput
  <2>4. ~Spawn(e) /\ ~SpawnRaises(e)
    BY <1>2, <2>1 DEF Spawn, SpawnRaises, Cleared, Sharing
  <2> QED
    BY <2>1, <2>2, <2>3, <2>4, OutputStep DEF Whole
<1>3. CASE f = e /\ UsesOutput(e)
  <2>1. Whole(output, e, Written(e))
    BY <1>1, <1>3 DEF ExecInv, OutputGrows
  <2>2. ~Spawn(e) /\ ~SpawnRaises(e)
    BY <1>3 DEF Spawn, SpawnRaises, UsesOutput, ExecInv, ReadersFollowPhases
  <2>3. CASE WriteLine(e)
    <3>1. PICK n \in Nat : Written(e) = n /\ n + 1 = read[e] /\ Written(e)' = n + 1
      <4>1. read[e] - 1 \in Nat /\ (read[e] - 1) + 1 = read[e]
        BY <2>3, WrittenStep
      <4> QED
        BY <2>3, <4>1, WrittenStep
    <3>2. <<e, n + 1>> \notin lost
      BY <3>1 DEF ExecInv, LostWasRead
    <3>3. output \in Seq(Runs \X Nat)
      BY <1>1 DEF ExecTypeOK
    <3>4. CASE output' = Append(output, <<e, read[e]>>) /\ UNCHANGED lost
      BY <1>3, <2>1, <3>1, <3>2, <3>3, <3>4, NextLine
    <3>5. CASE lost' = lost \cup {<<e, read[e]>>} /\ UNCHANGED output
      BY <1>3, <2>1, <3>1, <3>5, LostLine
    <3> QED
      BY <2>3, <3>4, <3>5 DEF WriteLine
  <2>4. CASE ~WriteLine(e)
    <3>1. UNCHANGED <<output, lost>> /\ Written(e)' = Written(e)
      BY <2>2, <2>4, OutputStep, WrittenStep
    <3> QED
      BY <1>3, <2>1, <3>1 DEF Whole
  <2> QED
    BY <2>3, <2>4
<1>4. CASE f = e /\ ~UsesOutput(e)
  <2>1. Spawn(e)
    BY <1>4, UseBegins
  <2>2. output' = <<>> /\ Written(e)' = 0
    <3>1. read'[e] = 0 /\ reader'[e] = "reading" /\ output' = <<>>
      BY <1>1, <2>1 DEF Spawn, Cleared, ExecInv, ReadersFollowPhases, ExecTypeOK
    <3> QED
      BY <3>1 DEF Written
  <2>3. {<<e, k>> : k \in 1..0} = {}
    OBVIOUS
  <2> QED
    BY <1>4, <2>2, <2>3 DEF Whole
<1> QED
  BY <1>2, <1>3, <1>4

\* What a call has returned or raised is not touched any more.
LEMMA WholeStep == ASSUME ExecInv, NEW e \in Runs, StepOf(e) PROVE OutputIsWhole'
<1> SUFFICES ASSUME NEW f \in Runs \ mixed', phase'[f] \in {"returned", "failed", "called"}
             PROVE  Whole(outcome[f], f, process[f].printed)'
  BY DEF OutputIsWhole
<1>1. f \notin mixed /\ ExecTypeOK
  BY MixedGrows DEF ExecInv
<1>2. CASE f # e
  <2>1. phase'[f] = phase[f] /\ outcome'[f] = outcome[f] /\ process'[f] = process[f]
    BY <1>1, <1>2, OthersKeep
  <2>2. Whole(outcome[f], f, process[f].printed)
    BY <1>1, <2>1 DEF ExecInv, OutputIsWhole
  <2>3. lost \subseteq lost' /\ lost' \ lost \subseteq {<<e, read[e]>>}
    BY OutputStep DEF WriteLine, Spawn, SpawnRaises
  <2>4. {<<f, k>> : k \in 1..process[f].printed} \ lost' = {<<f, k>> : k \in 1..process[f].printed} \ lost
    BY <1>2, <2>3
  <2> QED
    BY <2>1, <2>2, <2>4 DEF Whole
<1>3. CASE f = e /\ phase[e] \in {"run", "passed"}
  <2>1. Judge(e) \/ Finish(e)
    BY <1>1, <1>3 DEF StepOf, Step, Execute, HookFails, SpawnRaises, Spawn, GatherFails, ReadLine,
       DecodeFails, WriteLine, ReaderEnds, ReaderStopped, HandlerEnds, Outside, ExecTypeOK
  <2>2. reader[e] = "ended" /\ UNCHANGED <<process, lost>>
    BY <1>1, <1>3, <2>1 DEF Judge, Finish, Gathered, ExecTypeOK, execHistory
  <2>3. Written(e) = process[e].printed
    BY <1>3, <2>2 DEF ExecInv, ReadersFollowPhases, AtEof, Written
  <2>4. outcome'[e] = output
    BY <1>1, <1>3, <2>1 DEF Judge, Finish, ExecTypeOK
  <2>5. Whole(output, e, Written(e))
    BY <1>1, <1>3 DEF ExecInv, OutputGrows, UsesOutput
  <2> QED
    BY <1>3, <2>2, <2>3, <2>4, <2>5 DEF Whole
<1>4. CASE f = e /\ phase[e] \in {"failed", "returned", "called"}
  <2>1. reader[e] = "ended"
    BY <1>1, <1>4 DEF ExecInv, ExecTypeOK, ReadersFollowPhases
  <2>2. Whole(outcome[e], e, process[e].printed)
    BY <1>1, <1>4 DEF ExecInv, OutputIsWhole
  <2>3. ~WriteLine(e) /\ ~Spawn(e) /\ ~SpawnRaises(e)
    BY <1>4, <2>1 DEF WriteLine, Spawn, SpawnRaises
  <2>4. outcome'[e] = outcome[e]
    BY <1>1, <1>4, <2>1 DEF StepOf, Step, Execute, HookFails, SpawnRaises, Spawn, GatherFails, Judge,
       Finish, ReadLine, DecodeFails, WriteLine, ReaderEnds, ReaderStopped, HandlerEnds, Outside,
       ExecTypeOK
  <2>5. process'[e].printed = process[e].printed
    <3>1. CASE Outside(e)
      <4>1. AtEof(e)
        BY <1>4, <2>1 DEF ExecInv, ReadersFollowPhases
      <4>2. AtEof(e)' /\ read' = read
        BY <1>1, <3>1, <4>1, EofStays DEF Outside
      <4> QED
        BY <4>1, <4>2 DEF AtEof
    <3>2. CASE ~Outside(e)
      BY <2>3, <3>2 DEF StepOf, Step, Execute, HookFails, GatherFails, Judge,
         Finish, ReadLine, DecodeFails, ReaderEnds, ReaderStopped, HandlerEnds
    <3> QED
      BY <3>1, <3>2
  <2> QED
    BY <1>4, <2>2, <2>3, <2>4, <2>5, OutputStep DEF Whole
<1>5. CASE f = e /\ phase[e] \in {"idle", "pre", "raised"}
  BY <1>1, <1>5 DEF StepOf, Step, Execute, HookFails, SpawnRaises, Spawn, GatherFails, Judge, Finish,
     ReadLine, DecodeFails, WriteLine, ReaderEnds, ReaderStopped, HandlerEnds, Outside, ExecTypeOK
<1> QED
  BY <1>1, <1>2, <1>3, <1>4, <1>5 DEF ExecTypeOK

LEMMA ExecInvNext == ASSUME ExecInv, [ExecNext]_execVars PROVE ExecInv'
<1>1. CASE ExecNext
  <2>1. ExecTypeOK'
    BY <1>1, ExecTypeStep DEF ExecInv
  <2>2. PICK e \in Runs : StepOf(e)
    BY <1>1 DEF ExecNext, StepOf
  <2> QED
    BY <2>1, <2>2, AloneStep, FollowStep, LostStep, GrowStep, WholeStep DEF ExecInv
<1>2. CASE UNCHANGED execVars
  BY <1>2 DEF ExecInv, ExecTypeOK, Alone, Sharing, UsesOutput, ReadersFollowPhases, AtEof,
     LostWasRead, Written, OutputGrows, OutputIsWhole, Whole, execVars, execHistory
<1> QED
  BY <1>1, <1>2

LEMMA ExecInvariance == ExecSpec => []ExecInv
BY ExecInvInit, ExecInvNext, PTL DEF ExecSpec

\* Calls, processes and coroutines keep their types, and a call is judged only
\* when both of its coroutines have ended.
THEOREM ExecTypeCorrect == ExecSpec => []ExecTypeOK
BY ExecInvariance, PTL DEF ExecInv

\* However the process, its output, the thread that writes a line and the two
\* coroutines interleave, a call that had the output for itself gets every line
\* its process has printed, in order.
THEOREM WholeOutput == ExecSpec => []OutputIsWhole
BY ExecInvariance, PTL DEF ExecInv

=============================================================================
