-------------------------- MODULE UniqTask_proofs --------------------------
(***************************************************************************)
(* For any numbers of callers and workers: a unique task runs in one       *)
(* worker at a time if its lock is soundly used, those left out that the   *)
(* second delete of a finished call or run has robbed, and in every        *)
(* environment no key is left behind as long as no process is killed.      *)
(***************************************************************************)
EXTENDS UniqTask, VstLock_proofs

\* A worker runs the task only while its Lock object is past the check.
RunnerHolds == \A w \in Running : pc[w] = "held"

WorkType == work \in [Workers -> {"idle", "locking", "running", "leaving"}]

UniqInv == ExclusionInv /\ RunnerHolds /\ WorkType

\* The lock's steps that leave every process alive.
LiveStep ==
  \/ \E l \in Lockers : Begin(l) \/ Try(l) \/ Exit(l) \/ Del(l)
  \/ Tick

\* To the lock, a step of a caller or a worker is a step of its locker, and a
\* crash is noted in killed.
LEMMA UniqStepsLock ==
  UniqNext => /\ [Next]_lockVars
              /\ LiveStep \/ UNCHANGED lockVars \/ killed'
<1> USE UniqAssumption
<1>1. ASSUME NEW c \in Callers,
             \/ Call(c) \/ CallAcquires(c) \/ CallRejected(c) \/ Publish(c)
             \/ PublishFails(c) \/ CallEnds(c) \/ CallReturns(c)
      PROVE  LiveStep \/ UNCHANGED lockVars
  BY <1>1 DEF Call, CallAcquires, CallRejected, Publish, PublishFails, CallEnds,
              CallReturns, LiveStep
<1>2. ASSUME NEW w \in Workers,
             \/ \E c \in Callers : Take(w, c)
             \/ WorkerAcquires(w) \/ Run(w) \/ RunEnds(w) \/ Finish(w) \/ RejectMessage(w)
      PROVE  LiveStep \/ UNCHANGED lockVars
  BY <1>2 DEF Take, WorkerAcquires, Run, RunEnds, Finish, RejectMessage, LiveStep
<1>3. ASSUME NEW c \in Callers, CallerKilled(c) PROVE Next /\ killed'
  BY <1>3 DEF CallerKilled, Next
<1>4. ASSUME NEW w \in Workers, WorkerKilled(w) PROVE Next /\ killed'
  BY <1>4 DEF WorkerKilled, Next
<1>5. LiveStep => Next
  BY DEF LiveStep, Next
<1>6. Tick => LiveStep
  BY DEF LiveStep
<1> QED
  BY <1>1, <1>2, <1>3, <1>4, <1>5, <1>6 DEF UniqNext

LEMMA RunnerStep ==
  ASSUME UniqInv, UniqNext
  PROVE  RunnerHolds' /\ WorkType'
<1> USE UniqAssumption DEF UniqInv, RunnerHolds, WorkType, Running, ExclusionInv, TypeOK
<1>1. ASSUME NEW l \in Lockers,
             Begin(l) \/ Try(l) \/ Exit(l) \/ Del(l) \/ Crash(l)
      PROVE  \A m \in Lockers \ {l} : pc'[m] = pc[m]
  BY <1>1 DEF Begin, Try, Add, LookUp, Write, Verify, Overwritten, GiveUp, Exit, Del,
              Crash, Goto
<1>2. ASSUME NEW c \in Callers,
             \/ Call(c) \/ CallAcquires(c) \/ CallRejected(c) \/ Publish(c)
             \/ PublishFails(c) \/ CallEnds(c) \/ CallReturns(c) \/ CallerKilled(c)
      PROVE  RunnerHolds' /\ WorkType'
  <2>1. work' = work /\ \A w \in Workers : pc'[w] = pc[w]
    <3>1. work' = work
      BY <1>2 DEF Call, CallAcquires, CallRejected, Publish, PublishFails, CallEnds,
                  CallReturns, CallerKilled, taskVars
    <3>2. \/ Begin(c) \/ Try(c) \/ Exit(c) \/ Del(c) \/ Crash(c)
          \/ UNCHANGED lockVars
      BY <1>2 DEF Call, CallAcquires, CallRejected, Publish, PublishFails, CallEnds,
                  CallReturns, CallerKilled
    <3> QED
      BY <3>1, <3>2, <1>1 DEF lockVars
  <2> QED
    BY <2>1
<1>3. ASSUME NEW w \in Workers, Run(w) PROVE RunnerHolds' /\ WorkType'
  BY <1>3 DEF Run, lockVars
<1>4. ASSUME NEW w \in Workers,
             \/ \E c \in Callers : Take(w, c)
             \/ WorkerAcquires(w) \/ RunEnds(w) \/ Finish(w) \/ RejectMessage(w)
             \/ WorkerKilled(w)
      PROVE  RunnerHolds' /\ WorkType'
  <2>1. /\ work'[w] # "running"
        /\ \A v \in Workers \ {w} : work'[v] = work[v]
        /\ WorkType'
    BY <1>4 DEF Take, WorkerAcquires, RunEnds, Finish, RejectMessage, WorkerKilled, taskVars
  <2>2. \/ Begin(w) \/ Try(w) \/ Exit(w) \/ Del(w) \/ Crash(w) \/ UNCHANGED lockVars
    BY <1>4 DEF Take, WorkerAcquires, RunEnds, Finish, RejectMessage, WorkerKilled
  <2>3. \A v \in Workers \ {w} : pc'[v] = pc[v]
    BY <1>1, <2>2 DEF lockVars
  <2> QED
    BY <2>1, <2>3
<1>5. ASSUME Tick /\ UNCHANGED taskVars PROVE RunnerHolds' /\ WorkType'
  BY <1>5 DEF Tick, taskVars
<1> QED
  BY <1>2, <1>3, <1>4, <1>5 DEF UniqNext

\* Of the workers that no second delete has robbed of their key, one at a time
\* runs a task with uniq=True.
THEOREM UniqueRunning == ASSUME SoundUse PROVE UniqSpec => []UniqueRun
<1>1. UniqInit => UniqInv
  BY ExclusionInit DEF UniqInit, UniqInv, RunnerHolds, Running, WorkType
<1>2. UniqInv /\ [UniqNext]_vars => UniqInv'
  <2> SUFFICES ASSUME UniqInv, [UniqNext]_vars PROVE UniqInv'
    OBVIOUS
  <2>1. CASE UniqNext
    BY <2>1, UniqStepsLock, ExclusionStep, RunnerStep DEF UniqInv
  <2>2. CASE UNCHANGED vars
    <3>1. ExclusionInv'
      BY <2>2, ExclusionStep DEF UniqInv, vars
    <3> QED
      BY <2>2, <3>1 DEF UniqInv, RunnerHolds, Running, WorkType, vars, lockVars, taskVars
  <2> QED
    BY <2>1, <2>2
<1>3. UniqInv => UniqueRun
  BY UniqAssumption
  DEF UniqInv, ExclusionInv, HolderOwnsKey, Inside, RunnerHolds, UniqueRun, Running
<1> QED
  BY <1>1, <1>2, <1>3, PTL DEF UniqSpec

-----------------------------------------------------------------------------
\* The wrappers around apply_async and run use the lock only as utils.py lets
\* them: all the steps of callers and workers together are a behaviour of the
\* lock, so that whatever is proved of the lock holds of unique tasks.
THEOREM TasksUseTheLock == UniqSpec => Spec
<1>1. UniqInit => Init
  BY DEF UniqInit
<1>2. [UniqNext]_vars => [Next]_lockVars
  BY UniqStepsLock DEF vars
<1> QED
  BY <1>1, <1>2, PTL DEF UniqSpec, Spec

\* Hence, where the lock is soundly used, callers and workers enter the section
\* of their task one at a time, with their own payload under its key until they
\* end, or until the two deletes of another's with statement have taken it.
THEOREM TasksImplementSection ==
  ASSUME SoundUse PROVE UniqSpec => SectionSpec /\ []HolderOwnsKey
BY TasksUseTheLock, LockImplementsSection, HolderOwnership, PTL

-----------------------------------------------------------------------------
\* A stored key belongs to a locker that is checking it or inside.
KeyHasOwner == \A l \in Lockers : value = l => pc[l] \in {"settle", "held"}

LeakInv == TypeOK /\ IdMeansVerified /\ (~killed => KeyHasOwner)

\* Without a crash, keys keep their owners in every environment: each way out
\* of the section deletes, and each write is followed by a check.
LEMMA OwnerStep ==
  ASSUME TypeOK, IdMeansVerified, KeyHasOwner, LiveStep
  PROVE  KeyHasOwner'
<1> USE LockAssumption DEF TypeOK, IdMeansVerified, KeyHasOwner, KeepKey, Store, Remove,
        Release, Goto
<1>1. ASSUME NEW l \in Lockers, Begin(l) PROVE KeyHasOwner'
  BY <1>1 DEF Begin
<1>2. ASSUME NEW l \in Lockers, Try(l) PROVE KeyHasOwner'
  <2>1. CASE Add(l) \/ Write(l)
    BY <2>1 DEF Add, Write
  <2>2. CASE LookUp(l) \/ GiveUp(l)
    BY <2>2 DEF LookUp, GiveUp, CanTry
  <2>3. CASE Verify(l)
    BY <2>3 DEF Verify
  <2>4. CASE Overwritten(l)
    BY <2>4 DEF Overwritten
  <2> QED
    BY <1>2, <2>1, <2>2, <2>3, <2>4 DEF Try
<1>3. ASSUME NEW l \in Lockers, Exit(l) PROVE KeyHasOwner'
  BY <1>3 DEF Exit
<1>4. ASSUME NEW l \in Lockers, Del(l) PROVE KeyHasOwner'
  BY <1>4 DEF Del, Destructible
<1>5. ASSUME Tick PROVE KeyHasOwner'
  BY <1>5 DEF Tick
<1> QED
  BY <1>1, <1>2, <1>3, <1>4, <1>5 DEF LiveStep

LEMMA IdStep ==
  ASSUME TypeOK, IdMeansVerified, [Next]_lockVars
  PROVE  IdMeansVerified'
<1> USE DEF TypeOK, IdMeansVerified, Goto
<1>1. ASSUME NEW l \in Lockers, Begin(l) \/ Del(l) \/ Crash(l) PROVE IdMeansVerified'
  BY <1>1 DEF Begin, Del, Crash
<1>2. ASSUME NEW l \in Lockers, Add(l) \/ LookUp(l) \/ Write(l) \/ Overwritten(l) \/ GiveUp(l)
      PROVE  IdMeansVerified'
  BY <1>2 DEF Add, LookUp, Write, Overwritten, Slept, GiveUp, CanTry
<1>3. ASSUME NEW l \in Lockers, Verify(l) \/ Prolong(l) \/ Exit(l) PROVE IdMeansVerified'
  BY <1>3 DEF Verify, Prolong, Exit
<1>4. Tick \/ UNCHANGED lockVars => IdMeansVerified'
  BY DEF Tick, lockVars
<1> QED
  BY <1>1, <1>2, <1>3, <1>4 DEF Next, Try

\* Nobody at the task and nobody killed: no key, in every environment.
THEOREM NoLeaks == UniqSpec => []NoKeyLeaks
<1>1. UniqInit => LeakInv
  BY TypeInit, LockAssumption DEF UniqInit, Init, LeakInv, IdMeansVerified, KeyHasOwner
<1>2. LeakInv /\ [UniqNext]_vars => LeakInv'
  <2> SUFFICES ASSUME LeakInv, [UniqNext]_vars PROVE LeakInv'
    OBVIOUS
  <2>1. [Next]_lockVars
    BY UniqStepsLock DEF vars
  <2>2. TypeOK' /\ IdMeansVerified'
    BY <2>1, TypeStep, IdStep DEF LeakInv
  <2>3. CASE UniqNext
    <3>1. killed => killed'
      BY <2>3 DEF UniqNext, Call, CallAcquires, CallRejected, Publish, PublishFails,
                  CallEnds, CallReturns, CallerKilled, Take, WorkerAcquires, Run,
                  RunEnds, Finish, RejectMessage, WorkerKilled, taskVars
    <3>2. ~killed' => KeyHasOwner'
      BY <2>3, <3>1, UniqStepsLock, OwnerStep DEF LeakInv, KeyHasOwner, lockVars
    <3> QED
      BY <2>2, <3>2 DEF LeakInv
  <2>4. CASE UNCHANGED vars
    BY <2>2, <2>4 DEF LeakInv, KeyHasOwner, vars, lockVars, taskVars
  <2> QED
    BY <2>3, <2>4
<1>3. LeakInv => NoKeyLeaks
  BY DEF LeakInv, TypeOK, KeyHasOwner, NoKeyLeaks
<1> QED
  BY <1>1, <1>2, <1>3, PTL DEF UniqSpec

-----------------------------------------------------------------------------
(* Types *)

LEMMA UniqTypeStep == ASSUME UniqTypeOK, [UniqNext]_vars PROVE UniqTypeOK'
<1>. DEFINE Calls == call' \in [Callers -> CallStates] /\ queue' \subseteq Callers
            Work == work' \in [Workers -> {"idle", "locking", "running", "leaving"}]
            Jobs == job' \in [Workers -> Callers \cup {NoCall}]
            History == met' \in [Workers -> BOOLEAN] /\ killed' \in BOOLEAN
<1>. USE DEF UniqTypeOK, CallStates
<1>1. TypeOK'
  BY UniqStepsLock, TypeStep DEF vars
<1>2. ASSUME NEW c \in Callers,
             \/ Call(c) \/ CallAcquires(c) \/ CallRejected(c) \/ Publish(c)
             \/ PublishFails(c) \/ CallEnds(c) \/ CallReturns(c) \/ CallerKilled(c)
      PROVE  Calls /\ Work /\ Jobs /\ History
  BY <1>2 DEF Call, CallAcquires, CallRejected, Publish, PublishFails, CallEnds,
              CallReturns, CallerKilled, taskVars
<1>3. ASSUME NEW w \in Workers, NEW c \in Callers, Take(w, c)
      PROVE  Calls /\ Work /\ Jobs /\ History
  BY <1>3 DEF Take
<1>4. ASSUME NEW w \in Workers, Run(w) PROVE Calls /\ Work /\ Jobs /\ History
  BY <1>4 DEF Run
<1>5. ASSUME NEW w \in Workers,
             WorkerAcquires(w) \/ RunEnds(w) \/ Finish(w) \/ RejectMessage(w) \/ WorkerKilled(w)
      PROVE  Calls /\ Work /\ Jobs /\ History
  BY <1>5 DEF WorkerAcquires, RunEnds, Finish, RejectMessage, WorkerKilled, taskVars
<1>6. UNCHANGED taskVars => Calls /\ Work /\ Jobs /\ History
  BY DEF taskVars
<1>. QED
  BY <1>1, <1>2, <1>3, <1>4, <1>5, <1>6 DEF UniqNext, vars

\* Calls, messages and workers keep their types in every environment.
THEOREM UniqTypeCorrect == UniqSpec => []UniqTypeOK
<1>1. UniqInit => UniqTypeOK
  BY TypeInit DEF UniqInit, UniqTypeOK, CallStates
<1>. QED
  BY <1>1, UniqTypeStep, PTL DEF UniqSpec
=============================================================================
