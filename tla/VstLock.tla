------------------------------ MODULE VstLock ------------------------------
(***************************************************************************)
(* The lock of vstutils/utils.py: class Lock over class KVExchanger, on    *)
(* one lock id.  A locker is a Lock object; a freed object may be created  *)
(* again, so a locker stands for a process or thread that takes the lock   *)
(* any number of times.  Every cache call is an atomic step of its own.    *)
(*                                                                         *)
(* Time is relative: ttl is what is left of the key's lifetime and         *)
(* waited[l] what __init__ has already waited, so runs need no clock bound.*)
(*                                                                         *)
(* The payload is a fresh uuid4 per object.  The locker's name stands for  *)
(* it: an object compares the stored value only after its own write, so it *)
(* never meets the payload of an earlier object of the same locker.        *)
(*                                                                         *)
(* An object that has left its with statement, or been released, deletes   *)
(* the key once more when it is destroyed, and no delete looks at the      *)
(* payload.  Who loses its key to such a second delete is remembered in a  *)
(* history variable, for the properties to tell what the lock still does.  *)
(***************************************************************************)
EXTENDS Naturals

CONSTANTS
  Lockers,         \* the Lock objects created on the id
  NoOne,           \* the key is absent
  Timeout,         \* lifetime of the key
  Repeat,          \* how long __init__ keeps trying
  AtomicAdd,       \* cache.add is one step (memcached, redis, tarantool) or
                   \*   a look-up and then a write (file cache, the default)
  SettleOutlasts,  \* environment: no write of a started add is outlasted by
                   \*   the random sleep of another locker
  Punctual         \* environment: a locked section, and the check before it,
                   \*   end before the key does, and a waiting locker does
                   \*   not sleep through a free key

ASSUME LockAssumption ==
  /\ NoOne \notin Lockers
  /\ Timeout \in Nat \ {0}
  /\ Repeat \in Nat
  /\ {AtomicAdd, SettleOutlasts, Punctual} \subseteq BOOLEAN

VARIABLES
  value,   \* the locker whose payload is stored under the key
  ttl,     \* what is left of the key's lifetime, 0 when it is absent
  pc,      \* where each Lock object is in its life
  id,      \* self.id is not None
  waited,  \* time since the start of __init__, capped just above Repeat
  robbed   \* history: those inside whose key another's release has deleted,
           \*   a second one or one of a locker that had lost its own key

lockVars == <<value, ttl, pc, id, waited, robbed>>

PC == {"idle", "loop", "write", "settle", "held", "exited", "failed"}

Acquiring == {"loop", "write", "settle"}

TypeOK ==
  /\ value \in Lockers \cup {NoOne}
  /\ ttl \in 0..Timeout
  /\ pc \in [Lockers -> PC]
  /\ id \in [Lockers -> BOOLEAN]
  /\ waited \in [Lockers -> 0..(Repeat + 1)]
  /\ robbed \subseteq Lockers

Init ==
  /\ value = NoOne
  /\ ttl = 0
  /\ pc = [l \in Lockers |-> "idle"]
  /\ id = [l \in Lockers |-> FALSE]
  /\ waited = [l \in Lockers |-> 0]
  /\ robbed = {}

Inside == {l \in Lockers : pc[l] = "held"}

-----------------------------------------------------------------------------
\* The cache operations.

\* A mutant of Store: the timeout is lost, and the key never expires.
StoreForever(l) == value' = l /\ ttl' = 0

Store(l) == value' = l /\ ttl' = Timeout

Remove == value' = NoOne /\ ttl' = 0

KeepKey == UNCHANGED <<value, ttl>>

\* A mutant of Release: the test of self.id is dropped.
ReleaseUnguarded(l) == Remove

\* Lock.release(): deletes the key, whosever payload it holds.
Release(l) == IF id[l] THEN Remove ELSE KeepKey

\* The second delete of an object that is past its section, or the first of one
\* that has lost its key, deletes whatever the next locker has stored by now.
Robbery(l) ==
  LET astray == id[l] /\ (pc[l] = "exited" \/ l \in robbed)
  IN  robbed' = (robbed \cup (IF astray THEN Inside \cap {value} ELSE {})) \ {l}

Goto(l, label) == pc' = [pc EXCEPT ![l] = label]

-----------------------------------------------------------------------------
\* Lock.__init__.

Begin(l) ==
  /\ pc[l] = "idle"
  /\ Goto(l, "loop")
  /\ id' = [id EXCEPT ![l] = FALSE]
  /\ waited' = [waited EXCEPT ![l] = 0]
  /\ KeepKey /\ UNCHANGED robbed

\* The loop condition, and the nap before it, let the locker call add.
CanTry(l) == pc[l] = "loop" /\ waited[l] <= Repeat

\* A cache with an atomic add.  An add that finds the key only naps and loops.
Add(l) ==
  /\ AtomicAdd
  /\ CanTry(l)
  /\ value = NoOne
  /\ Store(l)
  /\ Goto(l, "settle")
  /\ UNCHANGED <<id, waited, robbed>>

\* The file cache's add: has_key and, as a later step, set.
LookUp(l) ==
  /\ ~AtomicAdd
  /\ CanTry(l)
  /\ value = NoOne
  /\ Goto(l, "write")
  /\ KeepKey /\ UNCHANGED <<id, waited, robbed>>

Write(l) ==
  /\ pc[l] = "write"
  /\ Store(l)
  /\ Goto(l, "settle")
  /\ UNCHANGED <<id, waited, robbed>>

\* The random sleep between the add and the check is over.
Slept(l) ==
  /\ pc[l] = "settle"
  /\ SettleOutlasts => \A m \in Lockers : pc[m] # "write"

Verify(l) ==
  /\ Slept(l)
  /\ value = l
  /\ id' = [id EXCEPT ![l] = TRUE]
  /\ Goto(l, "held")
  /\ KeepKey /\ UNCHANGED <<waited, robbed>>

Overwritten(l) ==
  /\ Slept(l)
  /\ value # l
  /\ Goto(l, "loop")
  /\ KeepKey /\ UNCHANGED <<id, waited, robbed>>

\* A mutant of GiveUp: the loop has no deadline.
GiveUpNever(l) == FALSE

\* The loop ends: AcquireLockException, self.id is still None.
GiveUp(l) ==
  /\ pc[l] = "loop" /\ waited[l] > Repeat
  /\ Goto(l, "failed")
  /\ KeepKey /\ UNCHANGED <<id, waited, robbed>>

-----------------------------------------------------------------------------
\* The rest of the object's life.

\* KVExchanger.prolong(): touch, which neither looks at the value nor
\* reports that the key is gone.
Prolong(l) ==
  /\ pc[l] = "held"
  /\ ttl' = IF value = NoOne THEN 0 ELSE Timeout
  /\ UNCHANGED <<value, pc, id, waited, robbed>>

\* Lock.__exit__ of a with statement, or a call of release(); self.id keeps its
\* value.
Exit(l) ==
  /\ pc[l] = "held"
  /\ Release(l) /\ Robbery(l)
  /\ Goto(l, "exited")
  /\ UNCHANGED <<id, waited>>

Destructible == {"held", "exited", "failed"}

\* Lock.__del__, which releases, once more if the object was released already.
Del(l) ==
  /\ pc[l] \in Destructible
  /\ Release(l) /\ Robbery(l)
  /\ Goto(l, "idle")
  /\ id' = [id EXCEPT ![l] = FALSE]
  /\ waited' = [waited EXCEPT ![l] = 0]

\* The process dies, or is killed in the sleep of __init__: no delete runs.
Crash(l) ==
  /\ pc[l] # "idle"
  /\ Goto(l, "idle")
  /\ id' = [id EXCEPT ![l] = FALSE]
  /\ waited' = [waited EXCEPT ![l] = 0]
  /\ robbed' = robbed \ {l}
  /\ KeepKey

-----------------------------------------------------------------------------
\* The waiting times one unit later.
Waited ==
  [l \in Lockers |-> IF pc[l] \in Acquiring /\ waited[l] <= Repeat
                     THEN waited[l] + 1 ELSE waited[l]]

\* One unit of time: the key ages and expires, the waiting loops wait.
Tick ==
  /\ Punctual => /\ ttl = 1 => \A l \in Lockers :
                                 pc[l] # "held" /\ ~(pc[l] = "settle" /\ value = l)
                 /\ value = NoOne => \A l \in Lockers : ~CanTry(l)
  /\ IF ttl = 1 THEN Remove
     ELSE ttl' = (IF ttl = 0 THEN 0 ELSE ttl - 1) /\ UNCHANGED value
  /\ waited' = Waited
  /\ UNCHANGED <<pc, id, robbed>>

\* What a locker's own code does next once __init__ has begun.
Try(l) ==
  \/ Add(l) \/ LookUp(l) \/ Write(l)
  \/ Verify(l) \/ Overwritten(l) \/ GiveUp(l)

Next ==
  \/ \E l \in Lockers :
       Begin(l) \/ Try(l) \/ Prolong(l) \/ Exit(l) \/ Del(l) \/ Crash(l)
  \/ Tick

Spec == Init /\ [][Next]_lockVars

-----------------------------------------------------------------------------
\* Properties.

\* The docstring of Lock, "only one thread will enter": two lockers are inside
\* only if a second delete has taken the key of one of them.
Mutex == \A l, m \in Inside \ robbed : l = m

\* Whoever is inside finds its own payload under the key, unless a second
\* delete has taken it: no write of a rival, no refused object, no expiry and
\* no first release of another ever does.
HolderOwnsKey == \A l \in Inside \ robbed : value = l

\* A locker that has been refused, or is still waiting, never removes a key:
\* an unexpired key disappears only in a release by an object that once
\* verified the lock (self.id is not None in Lock.release).
LoserNeverRemoves ==
  [][value # NoOne /\ value' = NoOne /\ ttl > 1
       => \E l \in Lockers : id[l] /\ pc'[l] \in {"exited", "idle"}]_lockVars

\* Lock.__init__ always returns or raises: its loop is bounded by repeat.
EveryAttemptEnds ==
  \A l \in Lockers : pc[l] \in Acquiring ~> pc[l] \notin Acquiring

\* The key a crashed process left behind, in its locked section or in the
\* sleep of __init__ before self.id is set, goes away in the end.
OrphanIsFreed ==
  \A l \in Lockers : (value = l /\ pc[l] = "idle") ~> (value # l \/ pc[l] # "idle")

\* With a sound cache and punctual sections the objects implement an
\* exclusive section, which a locker leaves at the latest when a second delete
\* has taken its key.
Section == INSTANCE ExclusiveSection WITH Clients <- Lockers, inside <- Inside \ robbed

SectionSpec == Section!Spec
=============================================================================
