--------------------------- MODULE VstLock_proofs ---------------------------
(***************************************************************************)
(* What VstLock guarantees for every set of lockers, every key lifetime    *)
(* and every waiting time.                                                 *)
(*                                                                         *)
(* Type correctness, and that a locker that was refused removes no key,    *)
(* need no condition.  Exclusion needs two: the sleep after the add makes  *)
(* up for a cache without an atomic add, and sections end before the key   *)
(* does.  It is then broken only by the deletes of objects that have been  *)
(* released before, or have lost their key that way: whoever such a delete *)
(* robs is what the theorems leave out, and nothing else.                  *)
(***************************************************************************)
EXTENDS VstLock, TLAPS

\* What exclusion asks of the cache and of the code that uses the lock.
SoundUse ==
  /\ AtomicAdd \/ SettleOutlasts
  /\ Punctual

\* The lockers inside that have not lost their key.
Rightful == Inside \ robbed

\* With an atomic add nobody is between the look-up and the write; with the
\* other one, nobody is there while somebody is rightfully inside.
NoLateWrite ==
  \A w \in Lockers : pc[w] = "write" => ~AtomicAdd /\ Rightful = {}

\* self.id tells exactly the objects whose deletes do delete.
IdMeansVerified == \A l \in Lockers : id[l] <=> pc[l] \in {"held", "exited"}

\* A stored key has lifetime left.
StoredIsLive == value = NoOne <=> ttl = 0

\* The inductive invariant: HolderOwnsKey with what keeps it true.
ExclusionInv ==
  /\ TypeOK /\ StoredIsLive /\ IdMeansVerified
  /\ HolderOwnsKey /\ NoLateWrite
  /\ robbed \subseteq Inside

-----------------------------------------------------------------------------
LEMMA TypeInit == Init => TypeOK
BY LockAssumption DEF Init, TypeOK, PC

LEMMA TypeStep == TypeOK /\ [Next]_lockVars => TypeOK'
<1> SUFFICES ASSUME TypeOK, [Next]_lockVars PROVE TypeOK'
  OBVIOUS
<1> USE LockAssumption DEF TypeOK, PC, KeepKey, Store, Remove, Release, Goto, Robbery, Inside
<1>1. ASSUME NEW l \in Lockers, Begin(l) PROVE TypeOK'
  BY <1>1 DEF Begin
<1>2. ASSUME NEW l \in Lockers, Try(l) PROVE TypeOK'
  <2>1. CASE Add(l) \/ Write(l)
    BY <2>1 DEF Add, Write, CanTry
  <2>2. CASE LookUp(l) \/ Overwritten(l) \/ GiveUp(l)
    BY <2>2 DEF LookUp, Overwritten, GiveUp, CanTry
  <2>3. CASE Verify(l)
    BY <2>3 DEF Verify
  <2> QED
    BY <1>2, <2>1, <2>2, <2>3 DEF Try
<1>3. ASSUME NEW l \in Lockers, Prolong(l) PROVE TypeOK'
  BY <1>3 DEF Prolong
<1>4. ASSUME NEW l \in Lockers, Exit(l) PROVE TypeOK'
  BY <1>4 DEF Exit
<1>5. ASSUME NEW l \in Lockers, Del(l) PROVE TypeOK'
  BY <1>5 DEF Del, Destructible
<1>6. ASSUME NEW l \in Lockers, Crash(l) PROVE TypeOK'
  BY <1>6 DEF Crash
<1>7. ASSUME Tick PROVE TypeOK'
  BY <1>7 DEF Tick, Waited, Acquiring
<1>8. CASE UNCHANGED lockVars
  BY <1>8 DEF lockVars
<1> QED
  BY <1>1, <1>2, <1>3, <1>4, <1>5, <1>6, <1>7, <1>8 DEF Next

\* The key, the labels and the waiting times of Lock stay what they are
\* declared to be, whatever the cache and however the lock is used.
THEOREM TypeCorrect == Spec => []TypeOK
BY TypeInit, TypeStep, PTL DEF Spec

LEMMA RemovalStep ==
  ASSUME TypeOK, [Next]_lockVars, value # NoOne, value' = NoOne, ttl > 1
  PROVE  \E l \in Lockers : id[l] /\ pc'[l] \in {"exited", "idle"}
<1> USE LockAssumption DEF TypeOK, Goto, KeepKey, Store
<1>1. ASSUME NEW l \in Lockers, Exit(l) \/ Del(l)
      PROVE  id[l] /\ pc'[l] \in {"exited", "idle"}
  <2>1. Release(l) /\ (Goto(l, "exited") \/ Goto(l, "idle"))
    BY <1>1 DEF Exit, Del
  <2> QED
    BY <2>1, Zenon DEF Release
<1>2. ASSUME NEW l \in Lockers, Begin(l) \/ Try(l) \/ Prolong(l) \/ Crash(l) PROVE FALSE
  BY <1>2 DEF Begin, Try, Add, LookUp, Write, Verify, Overwritten, GiveUp, Prolong, Crash
<1>3. ~Tick /\ ~UNCHANGED lockVars
  BY DEF Tick, lockVars
<1> QED
  BY <1>1, <1>2, <1>3 DEF Next

\* In every environment only an object that has verified the lock removes a
\* key whose lifetime is not over: __del__ of a refused Lock deletes nothing.
THEOREM RefusedRemovesNothing == Spec => LoserNeverRemoves
<1>1. TypeOK /\ [Next]_lockVars
      => [value # NoOne /\ value' = NoOne /\ ttl > 1
            => \E l \in Lockers : id[l] /\ pc'[l] \in {"exited", "idle"}]_lockVars
  BY RemovalStep
<1> QED
  BY <1>1, TypeCorrect, PTL DEF Spec, LoserNeverRemoves

-----------------------------------------------------------------------------
LEMMA ExclusionInit == Init => ExclusionInv
BY TypeInit
DEF Init, ExclusionInv, StoredIsLive, IdMeansVerified, HolderOwnsKey, NoLateWrite, Rightful, Inside

\* What a release leaves: the others stay inside, and who of them keeps its key
\* or was not robbed before is still rightful.
LEMMA ReleaseStep ==
  ASSUME ExclusionInv, NEW l \in Lockers, Exit(l) \/ Del(l)
  PROVE  /\ Inside' = Inside \ {l}
         /\ robbed' \subseteq Inside'
         /\ Rightful' \subseteq Rightful
         /\ HolderOwnsKey'
<1> USE DEF ExclusionInv, TypeOK
<1>1. Release(l) /\ Robbery(l) /\ (Goto(l, "exited") \/ Goto(l, "idle"))
  BY DEF Exit, Del
<1>2. Inside' = Inside \ {l}
  BY <1>1 DEF Goto, Inside
<1>3. robbed \ {l} \subseteq robbed' /\ robbed' \subseteq Inside \ {l}
  BY <1>1 DEF Robbery, Inside
<1>4. Rightful' \subseteq Rightful \ {l}
  BY <1>2, <1>3 DEF Rightful
<1>5. ASSUME NEW h \in Rightful' PROVE value' = h
  <2>1. h \in Rightful /\ h # l /\ value = h
    BY <1>4, <1>5 DEF Rightful, HolderOwnsKey
  <2>2. CASE ~id[l]
    BY <1>1, <2>1, <2>2 DEF Release, KeepKey
  <2>3. CASE id[l] /\ (pc[l] = "exited" \/ l \in robbed)
    <3>1. h \in robbed'
      BY <1>1, <2>1, <2>3 DEF Robbery, Rightful
    <3> QED
      BY <3>1, <1>5 DEF Rightful
  <2>4. CASE id[l] /\ pc[l] # "exited" /\ l \notin robbed
    <3>1. l \in Rightful
      BY <2>4 DEF IdMeansVerified, Rightful, Inside
    <3> QED
      BY <3>1, <2>1 DEF HolderOwnsKey, Rightful
  <2> QED
    BY <2>2, <2>3, <2>4
<1> QED
  BY <1>2, <1>3, <1>4, <1>5 DEF HolderOwnsKey, Rightful

\* Each step of a locker, and the passing of time, keep the payload of whoever
\* is rightfully inside under the key when the lock is soundly used.
LEMMA ExclusionStep ==
  ASSUME SoundUse, ExclusionInv, [Next]_lockVars
  PROVE  ExclusionInv'
<1> USE LockAssumption DEF KeepKey, Store, Remove, Release, Goto
<1>1. TypeOK'
  BY TypeStep DEF ExclusionInv
<1>2. ASSUME NEW l \in Lockers, Begin(l) PROVE ExclusionInv'
  BY <1>1, <1>2
  DEF Begin, ExclusionInv, TypeOK, StoredIsLive, IdMeansVerified, HolderOwnsKey, NoLateWrite,
      Rightful, Inside
<1>3. ASSUME NEW l \in Lockers, Try(l) PROVE ExclusionInv'
  <2> USE <1>1 DEF ExclusionInv, TypeOK, StoredIsLive, IdMeansVerified, HolderOwnsKey,
          NoLateWrite, Rightful, Inside
  <2>1. CASE Add(l)
    BY <2>1 DEF Add, CanTry
  <2>2. CASE LookUp(l)
    BY <2>2 DEF LookUp, CanTry
  <2>3. CASE Write(l)
    BY <2>3 DEF Write
  <2>4. CASE Verify(l)
    BY <2>4 DEF Verify, Slept, SoundUse
  <2>5. CASE Overwritten(l)
    BY <2>5 DEF Overwritten, Slept
  <2>6. CASE GiveUp(l)
    BY <2>6 DEF GiveUp
  <2> QED
    BY <1>3, <2>1, <2>2, <2>3, <2>4, <2>5, <2>6 DEF Try
<1>4. ASSUME NEW l \in Lockers, Prolong(l) PROVE ExclusionInv'
  BY <1>1, <1>4
  DEF Prolong, ExclusionInv, TypeOK, StoredIsLive, IdMeansVerified, HolderOwnsKey, NoLateWrite,
      Rightful, Inside
<1>5. ASSUME NEW l \in Lockers, Exit(l) \/ Del(l) PROVE ExclusionInv'
  <2>1. HolderOwnsKey' /\ robbed' \subseteq Inside' /\ Rightful' \subseteq Rightful
    BY <1>5, ReleaseStep
  <2>2. StoredIsLive'
    BY <1>5 DEF Exit, Del, StoredIsLive, ExclusionInv
  <2>3. IdMeansVerified'
    BY <1>5 DEF Exit, Del, IdMeansVerified, ExclusionInv, TypeOK
  <2>4. \A w \in Lockers : pc'[w] = "write" => pc[w] = "write"
    BY <1>5 DEF Exit, Del, ExclusionInv, TypeOK
  <2>5. NoLateWrite'
    BY <2>1, <2>4 DEF NoLateWrite, ExclusionInv
  <2> QED
    BY <1>1, <2>1, <2>2, <2>3, <2>5 DEF ExclusionInv
<1>6. ASSUME NEW l \in Lockers, Crash(l) PROVE ExclusionInv'
  BY <1>1, <1>6
  DEF Crash, ExclusionInv, TypeOK, StoredIsLive, IdMeansVerified, HolderOwnsKey, NoLateWrite,
      Rightful, Inside
<1>7. ASSUME Tick PROVE ExclusionInv'
  <2>1. UNCHANGED <<pc, id, robbed>> /\ Inside' = Inside /\ Rightful' = Rightful
    BY <1>7 DEF Tick, Inside, Rightful
  <2>2. Inside # {} => ttl # 1
    BY <1>7 DEF Tick, SoundUse, Inside
  <2>3. HolderOwnsKey'
    BY <1>7, <2>1, <2>2 DEF Tick, Rightful, HolderOwnsKey, ExclusionInv
  <2>4. StoredIsLive'
    BY <1>7 DEF Tick, ExclusionInv, TypeOK, StoredIsLive
  <2> QED
    BY <1>1, <2>1, <2>3, <2>4 DEF ExclusionInv, IdMeansVerified, NoLateWrite
<1>8. CASE UNCHANGED lockVars
  BY <1>1, <1>8
  DEF lockVars, ExclusionInv, StoredIsLive, IdMeansVerified, HolderOwnsKey, NoLateWrite,
      Rightful, Inside
<1> QED
  BY <1>2, <1>3, <1>4, <1>5, <1>6, <1>7, <1>8 DEF Next

\* The payload under the key is that of whoever is inside and has not been
\* robbed by a delete of an object past its section, or of one so robbed: apart
\* from these, no release and no prolong touches another locker's key.
THEOREM HolderOwnership == ASSUME SoundUse PROVE Spec => []HolderOwnsKey
<1>1. ExclusionInv /\ [Next]_lockVars => ExclusionInv'
  BY ExclusionStep
<1>2. ExclusionInv => HolderOwnsKey
  BY DEF ExclusionInv
<1> QED
  BY ExclusionInit, <1>1, <1>2, PTL DEF Spec

\* The docstring's promise: of those that have not been robbed, one locker at a
\* time is inside.
THEOREM MutualExclusion == ASSUME SoundUse PROVE Spec => []Mutex
<1>1. HolderOwnsKey => Mutex
  BY DEF HolderOwnsKey, Mutex
<1> QED
  BY HolderOwnership, <1>1, PTL

\* Where second deletes rob nobody, which is up to the code that uses the lock,
\* the docstring's promise holds as it is written.
THEOREM StrictExclusion ==
  ASSUME SoundUse PROVE Spec /\ [](robbed = {}) => [](\A l, m \in Inside : l = m)
<1>1. Mutex /\ robbed = {} => \A l, m \in Inside : l = m
  BY DEF Mutex
<1> QED
  BY MutualExclusion, <1>1, PTL
-----------------------------------------------------------------------------
\* A release takes the releasing locker out of the section, or the one it robs.
LEMMA ReleaseLeaves ==
  ASSUME ExclusionInv, NEW l \in Lockers, Exit(l) \/ Del(l)
  PROVE  \E c \in Lockers : Rightful' \in {Rightful, Rightful \ {c}}
<1> USE DEF ExclusionInv, TypeOK
<1>1. Robbery(l) /\ Inside' = Inside \ {l}
  BY ReleaseStep DEF Exit, Del
<1>2. CASE id[l] /\ (pc[l] = "exited" \/ l \in robbed)
  <2>1. l \notin Rightful
    BY <1>2 DEF Rightful, Inside
  <2>2. robbed' = (robbed \cup (Inside \cap {value})) \ {l}
    BY <1>1, <1>2 DEF Robbery
  <2>3. Rightful' = Rightful \ {value}
    BY <1>1, <2>1, <2>2 DEF Rightful
  <2> QED
    BY <2>3 DEF Rightful, Inside
<1>3. CASE ~(id[l] /\ (pc[l] = "exited" \/ l \in robbed))
  <2>1. robbed' = robbed \ {l}
    BY <1>1, <1>3 DEF Robbery
  <2> QED
    BY <1>1, <2>1 DEF Rightful
<1> QED
  BY <1>2, <1>3

\* Begin, waiting, prolonging and time do not change who is inside.
LEMMA StepOnSection ==
  ASSUME SoundUse, ExclusionInv, [Next]_lockVars
  PROVE  [Section!Next]_Rightful
<1> USE DEF ExclusionInv, TypeOK, Goto, HolderOwnsKey
<1>1. ASSUME NEW l \in Lockers, Verify(l) PROVE Section!Next
  <2>1. Rightful = {}
    <3> SUFFICES ASSUME NEW h \in Rightful PROVE FALSE
      OBVIOUS
    <3>1. value = l /\ pc[l] = "settle" /\ pc[h] = "held" /\ value = h
      BY <1>1 DEF Verify, Slept, Rightful, Inside
    <3> QED
      BY <3>1
  <2>2. Rightful' = {l}
    <3>1. Inside' = Inside \cup {l} /\ robbed' = robbed /\ l \notin Inside
      BY <1>1 DEF Verify, Slept, Inside
    <3> QED
      BY <2>1, <3>1 DEF Rightful
  <2> QED
    BY <2>1, <2>2 DEF Section!Next, Section!Enter, Rightful
<1>2. ASSUME NEW c \in Lockers, Rightful' \in {Rightful, Rightful \ {c}}
      PROVE  [Section!Next]_Rightful
  <2>1. CASE c \in Rightful /\ Rightful' = Rightful \ {c}
    BY <2>1 DEF Section!Next, Section!Leave, Rightful
  <2>2. CASE Rightful' = Rightful \/ c \notin Rightful
    BY <1>2, <2>2
  <2> QED
    BY <1>2, <2>1, <2>2
<1>3. ASSUME NEW l \in Lockers, Exit(l) \/ Del(l) PROVE [Section!Next]_Rightful
  BY <1>2, <1>3, ReleaseLeaves
<1>4. ASSUME NEW l \in Lockers, Crash(l) PROVE [Section!Next]_Rightful
  <2>1. Rightful' = Rightful \ {l}
    BY <1>4 DEF Crash, Rightful, Inside
  <2> QED
    BY <1>2, <2>1
<1>5. ASSUME NEW l \in Lockers,
             Begin(l) \/ Add(l) \/ LookUp(l) \/ Write(l) \/ Overwritten(l) \/ GiveUp(l)
      PROVE  UNCHANGED Rightful
  <2>1. /\ pc[l] # "held" /\ pc' \in {[pc EXCEPT ![l] = s] : s \in PC \ {"held"}}
        /\ UNCHANGED robbed
    BY <1>5 DEF Begin, Add, LookUp, Write, Overwritten, Slept, GiveUp, CanTry, PC
  <2> QED
    BY <2>1 DEF PC, Rightful, Inside
<1>6. (\E l \in Lockers : Prolong(l)) \/ Tick \/ UNCHANGED lockVars => UNCHANGED Rightful
  BY DEF Prolong, Tick, Waited, lockVars, Rightful, Inside
<1> QED
  BY <1>1, <1>3, <1>4, <1>5, <1>6 DEF Next, Try

\* Soundly used, Lock implements the exclusive section: clients enter an
\* empty section only and every step of the code is an entry, a leave or
\* nothing to the section, where the one a second delete robs has left.
THEOREM LockImplementsSection == ASSUME SoundUse PROVE Spec => SectionSpec
<1>1. Init => Section!Init
  BY DEF Init, Section!Init, Inside
<1>2. ExclusionInv /\ [Next]_lockVars => ExclusionInv' /\ [Section!Next]_(Inside \ robbed)
  BY ExclusionStep, StepOnSection DEF Rightful
<1> QED
  BY ExclusionInit, <1>1, <1>2, PTL DEF Spec, SectionSpec, Section!Spec
=============================================================================
