------------------------ MODULE SingletonBeat_proofs ------------------------
(***************************************************************************)
(* The beat scheduler is a singleton for any number of beat processes, if  *)
(* the lock is soundly used: no leader stalls until its key is gone.  What *)
(* is left out are the leaders that the second delete of an orderly        *)
(* shut-down, or what follows from one, has robbed of their key.           *)
(***************************************************************************)
EXTENDS SingletonBeat, VstLock_proofs, FiniteSetTheorems, SequenceTheorems

\* A process leads only while its Lock object is past the check.
LeaderHolds == \A s \in Leaders : pc[s] = "held"

BeatInv == ExclusionInv /\ LeaderHolds /\ mode \in [Lockers -> Modes]

LEMMA BeatInvInit == BeatInit => BeatInv
BY ExclusionInit DEF BeatInit, BeatInv, LeaderHolds, Leaders, Modes

\* To the lock, a step of a beat process is a step of its locker.
LEMMA BeatStepsLock == BeatNext => [Next]_lockVars
<1> SUFFICES ASSUME BeatNext PROVE Next \/ UNCHANGED lockVars
  OBVIOUS
<1>1. ASSUME NEW s \in Lockers, Run(s) PROVE Next \/ UNCHANGED lockVars
  BY <1>1 DEF Run, Start, DiscardOverdue, TryLock, Acquire, Refused, Elected,
              Touch, Send, Terminate, Next
<1>2. ASSUME NEW s \in Lockers, Close(s) \/ Die(s) PROVE Next \/ UNCHANGED lockVars
  BY <1>2 DEF Close, Die, Next
<1>3. ASSUME NEW s \in Lockers, NEW e \in Entries, ComesDue(s, e)
      PROVE  UNCHANGED lockVars
  BY <1>3 DEF ComesDue
<1>4. Time => Next
  BY DEF Time, Next
<1> QED
  BY <1>1, <1>2, <1>3, <1>4 DEF BeatNext

LEMMA LeaderStep ==
  ASSUME SoundUse, BeatInv, BeatNext
  PROVE  LeaderHolds' /\ mode' \in [Lockers -> Modes]
<1> USE DEF BeatInv, LeaderHolds, Leaders, Modes, Become, ExclusionInv, TypeOK
<1>1. ASSUME NEW s \in Lockers, Start(s) \/ DiscardOverdue(s)
      PROVE  LeaderHolds' /\ mode' \in [Lockers -> Modes]
  BY <1>1 DEF Start, DiscardOverdue, lockVars
<1>2. ASSUME NEW s \in Lockers, TryLock(s)
      PROVE  LeaderHolds' /\ mode' \in [Lockers -> Modes]
  BY <1>2 DEF TryLock, Begin, Goto
<1>3. ASSUME NEW s \in Lockers, Acquire(s)
      PROVE  LeaderHolds' /\ mode' \in [Lockers -> Modes]
  <2>1. \A t \in Lockers \ {s} : pc'[t] = pc[t]
    BY <1>3 DEF Acquire, Try, Add, LookUp, Write, Verify, Overwritten, GiveUp, Goto
  <2> QED
    BY <1>3, <2>1 DEF Acquire, beatVars
<1>4. ASSUME NEW s \in Lockers, Refused(s)
      PROVE  LeaderHolds' /\ mode' \in [Lockers -> Modes]
  BY <1>4 DEF Refused, Del, Goto
<1>5. ASSUME NEW s \in Lockers, Elected(s)
      PROVE  LeaderHolds' /\ mode' \in [Lockers -> Modes]
  BY <1>5 DEF Elected, lockVars
<1>6. ASSUME NEW s \in Lockers, Touch(s) \/ Send(s)
      PROVE  LeaderHolds' /\ mode' \in [Lockers -> Modes]
  BY <1>6 DEF Touch, Prolong, Send, lockVars
<1>7. ASSUME NEW s \in Lockers, Terminate(s)
      PROVE  LeaderHolds' /\ mode' \in [Lockers -> Modes]
  BY <1>7 DEF Terminate, Del, Goto, lockVars
<1>8. ASSUME NEW s \in Lockers, Close(s)
      PROVE  LeaderHolds' /\ mode' \in [Lockers -> Modes]
  BY <1>8 DEF Close, Exit, Goto, lockVars
<1>9. ASSUME NEW s \in Lockers, Die(s)
      PROVE  LeaderHolds' /\ mode' \in [Lockers -> Modes]
  BY <1>9 DEF Die, Crash, Goto, lockVars
<1>10. ASSUME NEW s \in Lockers, NEW e \in Entries, ComesDue(s, e)
       PROVE  LeaderHolds' /\ mode' \in [Lockers -> Modes]
  BY <1>10 DEF ComesDue, lockVars
<1>11. ASSUME Time PROVE LeaderHolds' /\ mode' \in [Lockers -> Modes]
  BY <1>11 DEF Time, Tick, beatVars
<1> QED
  BY <1>1, <1>2, <1>3, <1>4, <1>5, <1>6, <1>7, <1>8, <1>9, <1>10, <1>11
  DEF BeatNext, Run

\* Of the processes that no second delete has robbed of their key, one at a
\* time is past the lock and sends tasks.
THEOREM SingletonLeader == ASSUME SoundUse PROVE BeatSpec => []OneLeader
<1>1. BeatInv /\ [BeatNext]_vars => BeatInv'
  <2> SUFFICES ASSUME BeatInv, [BeatNext]_vars PROVE BeatInv'
    OBVIOUS
  <2>1. CASE BeatNext
    BY <2>1, BeatStepsLock, ExclusionStep, LeaderStep DEF BeatInv
  <2>2. CASE UNCHANGED vars
    <3>1. ExclusionInv'
      BY <2>2, ExclusionStep DEF BeatInv, vars
    <3> QED
      BY <2>2, <3>1 DEF BeatInv, LeaderHolds, Leaders, vars, lockVars, beatVars
  <2> QED
    BY <2>1, <2>2
<1>2. BeatInv => OneLeader
  BY DEF BeatInv, ExclusionInv, HolderOwnsKey, LeaderHolds, OneLeader, Inside, Leaders
<1> QED
  BY BeatInvInit, <1>1, <1>2, PTL DEF BeatSpec

\* A beat process takes, touches and gives up the lock only by the steps of a
\* Lock object: what is proved of the lock holds of the scheduler.
THEOREM BeatUsesTheLock == BeatSpec => Spec
<1>1. BeatInit => Init
  BY DEF BeatInit
<1>2. [BeatNext]_vars => [Next]_lockVars
  BY BeatStepsLock DEF vars
<1> QED
  BY <1>1, <1>2, PTL DEF BeatSpec, Spec

-----------------------------------------------------------------------------
(* Types *)

\* A heap's overdue entries are distinct, so one more still fits the bound.
LEMMA BacklogsGrow ==
  ASSUME NEW q \in Backlogs, NEW e \in Entries, \A i \in DOMAIN q : q[i] # e
  PROVE  Append(q, e) \in Backlogs
<1>1. PICK k \in 0..Cardinality(Entries) : q \in [1..k -> Entries]
  BY DEF Backlogs
<1>2. Cardinality(Entries) \in Nat
  BY BeatAssumption, FS_CardinalityType
<1>3. k \in Nat /\ DOMAIN q = 1..k /\ Len(q) = k /\ q \in Seq(Entries)
  BY <1>1, <1>2
<1>4. k < Cardinality(Entries)
  <2>1. q \in Injection(1..k, Entries \ {e})
    <3>1. q \in [1..k -> Entries \ {e}]
      BY <1>1, <1>3
    <3>2. \A i, j \in 1..k : q[i] = q[j] => i = j
      BY <1>3 DEF Backlogs
    <3>. QED
      BY <3>1, <3>2 DEF Injection, IsInjective
  <2>2. IsFiniteSet(Entries \ {e}) /\ Cardinality(Entries \ {e}) = Cardinality(Entries) - 1
    BY BeatAssumption, FS_RemoveElement
  <2>3. IsFiniteSet(1..k) /\ Cardinality(1..k) = k
    BY <1>3, FS_Interval
  <2>4. Cardinality(1..k) \leq Cardinality(Entries \ {e})
    BY <2>1, <2>2, FS_Injection
  <2>. QED
    BY <1>2, <1>3, <2>2, <2>3, <2>4
<1>5. Append(q, e) \in [1..(k + 1) -> Entries] /\ k + 1 \in 0..Cardinality(Entries)
  <2>1. Append(q, e) \in Seq(Entries) /\ Len(Append(q, e)) = k + 1
    BY <1>3, AppendProperties
  <2>2. Append(q, e) \in [1..(k + 1) -> Entries]
    BY <2>1, LenProperties
  <2>. QED
    BY <1>2, <1>3, <1>4, <2>2
<1>6. \A i, j \in 1..(k + 1) : Append(q, e)[i] = Append(q, e)[j] => i = j
  BY <1>3 DEF Backlogs
<1>7. DOMAIN Append(q, e) = 1..(k + 1)
  BY <1>5
<1>. QED
  BY <1>5, <1>6, <1>7 DEF Backlogs

LEMMA BacklogsShrink ==
  ASSUME NEW q \in Backlogs, q # <<>>
  PROVE  Tail(q) \in Backlogs
<1>1. PICK k \in 0..Cardinality(Entries) : q \in [1..k -> Entries]
  BY DEF Backlogs
<1>2. Cardinality(Entries) \in Nat
  BY BeatAssumption, FS_CardinalityType
<1>3. k \in Nat /\ DOMAIN q = 1..k /\ Len(q) = k /\ q \in Seq(Entries)
  BY <1>1, <1>2
<1>4. k # 0
  BY <1>3
<1>5. Tail(q) \in [1..(k - 1) -> Entries] /\ k - 1 \in 0..Cardinality(Entries)
  <2>1. Tail(q) \in Seq(Entries) /\ Len(Tail(q)) = k - 1
    BY <1>3, HeadTailProperties
  <2>2. Tail(q) \in [1..(k - 1) -> Entries]
    BY <2>1, LenProperties
  <2>. QED
    BY <1>2, <1>3, <1>4, <2>2
<1>6. \A i \in 1..(k - 1) : Tail(q)[i] = q[i + 1]
  BY <1>3, <1>4
<1>7. \A i, j \in 1..(k - 1) : Tail(q)[i] = Tail(q)[j] => i = j
  BY <1>3, <1>6 DEF Backlogs
<1>. QED
  BY <1>5, <1>7 DEF Backlogs

LEMMA NoBacklog == <<>> \in Backlogs
<1>1. 0 \in 0..Cardinality(Entries)
  BY BeatAssumption, FS_CardinalityType
<1>2. <<>> \in [1..0 -> Entries] /\ DOMAIN <<>> = {}
  OBVIOUS
<1>. QED
  BY <1>1, <1>2 DEF Backlogs

LEMMA BeatTypeStep == ASSUME BeatTypeOK, [BeatNext]_vars PROVE BeatTypeOK'
<1>1. TypeOK'
  BY BeatStepsLock, TypeStep DEF BeatTypeOK, vars
<1>. DEFINE Own == mode' \in [Lockers -> Modes] /\ outages' \in 0..MaxOutages
            Heaps == due' \in [Lockers -> Backlogs]
<1>. USE DEF Become
<1>2. Own
  <2>. USE BeatAssumption DEF BeatTypeOK, Modes
  <2>1. ASSUME NEW s \in Lockers, Run(s) PROVE Own
    BY <2>1 DEF Run, Start, DiscardOverdue, TryLock, Acquire, Refused, Elected, Touch, Send,
                Terminate, beatVars
  <2>2. ASSUME NEW s \in Lockers, Close(s) \/ Die(s) PROVE Own
    BY <2>2 DEF Close, Die
  <2>3. ASSUME NEW s \in Lockers, NEW e \in Entries, ComesDue(s, e) PROVE Own
    BY <2>3 DEF ComesDue
  <2>4. Time \/ UNCHANGED vars => Own
    BY DEF Time, vars, beatVars
  <2>. QED
    BY <2>1, <2>2, <2>3, <2>4 DEF BeatNext
<1>3. Heaps
  <2>. USE DEF BeatTypeOK
  <2>1. ASSUME NEW s \in Lockers, Start(s) PROVE Heaps
    BY <2>1 DEF Start
  <2>2. ASSUME NEW s \in Lockers, DiscardOverdue(s) PROVE Heaps
    BY <2>2, NoBacklog DEF DiscardOverdue
  <2>3. ASSUME NEW s \in Lockers, Send(s) PROVE Heaps
    BY <2>3, BacklogsShrink DEF Send
  <2>4. ASSUME NEW s \in Lockers, NEW e \in Entries, ComesDue(s, e) PROVE Heaps
    <3>1. Append(due[s], e) \in Backlogs
      BY <2>4, BacklogsGrow DEF ComesDue, Overdue
    <3>. QED
      BY <2>4, <3>1 DEF ComesDue
  <2>5. ASSUME NEW s \in Lockers,
               \/ TryLock(s) \/ Acquire(s) \/ Refused(s) \/ Elected(s) \/ Touch(s)
               \/ Terminate(s) \/ Close(s) \/ Die(s)
        PROVE  Heaps
    BY <2>5 DEF TryLock, Acquire, Refused, Elected, Touch, Terminate, Close, Die, beatVars
  <2>6. Time \/ UNCHANGED vars => Heaps
    BY DEF Time, vars, beatVars
  <2>. QED
    BY <2>1, <2>2, <2>3, <2>4, <2>5, <2>6 DEF BeatNext, Run
<1>. QED
  BY <1>1, <1>2, <1>3 DEF BeatTypeOK

\* Every beat process keeps a heap whose overdue entries are distinct, a mode
\* it can be in, and the lock its types, however the lock is used.
THEOREM BeatTypeCorrect == BeatSpec => []BeatTypeOK
<1>1. BeatInit => BeatTypeOK
  BY TypeInit, NoBacklog, BeatAssumption DEF BeatInit, BeatTypeOK, Modes
<1>. QED
  BY <1>1, BeatTypeStep, PTL DEF BeatSpec
=============================================================================
