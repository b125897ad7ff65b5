------------------------ MODULE Notifications_proofs ------------------------
(***************************************************************************)
(* What the notifications promise for any number of requests, objects and  *)
(* operations.  Served one at a time, requests leave the clients in sync   *)
(* and a refused POST is silent; overlapped in any way, they leave nothing *)
(* in the queue.                                                           *)
(***************************************************************************)
EXTENDS Notifications, TLAPS

-----------------------------------------------------------------------------
\* Types.  An operation that is under way has not been counted off yet.
OperationsLeft == \A r \in Requests : step[r] = "operating" => left[r] > 0

TypeInv == NotifyTypeOK /\ OperationsLeft

LEMMA TypeInit == Init => TypeInv
<1> SUFFICES ASSUME Init PROVE TypeInv
  OBVIOUS
<1>1. overlapped \in BOOLEAN /\ unsent \in BOOLEAN
  BY Zenon DEF Init
<1>2. left \in [Requests -> 0..MaxOps]
  BY NotifyAssumption DEF Init
<1> QED
  BY <1>1, <1>2 DEF Init, TypeInv, NotifyTypeOK, OperationsLeft, Steps

LEMMA TypeStep == TypeInv /\ [Next]_vars => TypeInv'
<1> SUFFICES ASSUME TypeInv, [Next]_vars PROVE TypeInv'
  OBVIOUS
<1> USE DEF TypeInv, NotifyTypeOK, OperationsLeft, Steps, Goto, requestVars, messageVars
<1>1. ASSUME NEW r \in Requests, Open(r) PROVE TypeInv'
  BY <1>1, NotifyAssumption DEF Open
<1>2. ASSUME NEW r \in Requests, NEW o \in Objects, Write(r, o) PROVE TypeInv'
  BY <1>2 DEF Write
<1>3. ASSUME NEW r \in Requests, OperationDone(r) PROVE TypeInv'
  BY <1>3, NotifyAssumption DEF OperationDone, Advance, CommitWrites
<1>4. ASSUME NEW r \in Requests, OperationFails(r) PROVE TypeInv'
  BY <1>4, NotifyAssumption DEF OperationFails, Advance, CommitWrites
<1>5. ASSUME NEW r \in Requests, Rollback(r) PROVE TypeInv'
  BY <1>5, NotifyAssumption DEF Rollback, CommitWrites
<1>6. ASSUME NEW r \in Requests, Commit(r) PROVE TypeInv'
  BY <1>6 DEF Commit, CommitWrites
<1>7. ASSUME NEW r \in Requests, ClearMessages(r) \/ TakeQueue(r) \/ SwapQueue(r)
      PROVE  TypeInv'
  BY <1>7 DEF ClearMessages, TakeQueue, SwapQueue
<1>8. ASSUME NEW r \in Requests, Publish(r) \/ PublishFails(r) PROVE TypeInv'
  BY <1>8 DEF Publish, PublishFails, Respond
<1>9. ASSUME NEW o \in Objects, Refetch(o) PROVE TypeInv'
  BY <1>9 DEF Refetch
<1>10. CASE UNCHANGED vars
  BY <1>10 DEF vars
<1> QED
  BY <1>1, <1>2, <1>3, <1>4, <1>5, <1>6, <1>7, <1>8, <1>9, <1>10 DEF Next, Proceed

\* The variables keep their types, whatever the requests do.
THEOREM NotifyTypeCorrect == Spec => []NotifyTypeOK
<1>1. TypeInv => NotifyTypeOK
  BY DEF TypeInv
<1> QED
  BY TypeInit, TypeStep, <1>1, PTL DEF Spec

-----------------------------------------------------------------------------
\* A message in the queue has a request that has still to empty it.
Untaken == {"operating", "committing", "clearing", "response", "swapping"}

QueueHasTaker == queue # {} => \E r \in Requests : step[r] \in Untaken

LEMMA TakerStep == TypeInv /\ QueueHasTaker /\ [Next]_vars => QueueHasTaker'
<1> SUFFICES ASSUME TypeInv, QueueHasTaker, [Next]_vars PROVE QueueHasTaker'
  OBVIOUS
<1> USE DEF TypeInv, NotifyTypeOK, QueueHasTaker, Untaken, Steps, Goto, requestVars, messageVars
<1>1. ASSUME NEW r \in Requests, Open(r) PROVE QueueHasTaker'
  BY <1>1 DEF Open
<1>2. ASSUME NEW r \in Requests, NEW o \in Objects, Write(r, o) PROVE QueueHasTaker'
  BY <1>2 DEF Write
<1>3. ASSUME NEW r \in Requests, OperationDone(r) \/ OperationFails(r) PROVE QueueHasTaker'
  BY <1>3 DEF OperationDone, OperationFails, Advance
<1>4. ASSUME NEW r \in Requests, Rollback(r) \/ Commit(r) PROVE QueueHasTaker'
  BY <1>4 DEF Rollback, Commit
<1>5. ASSUME NEW r \in Requests, ClearMessages(r) \/ TakeQueue(r) \/ SwapQueue(r)
      PROVE  QueueHasTaker'
  BY <1>5 DEF ClearMessages, TakeQueue, SwapQueue
<1>6. ASSUME NEW r \in Requests, Publish(r) \/ PublishFails(r) PROVE QueueHasTaker'
  BY <1>6 DEF Publish, PublishFails, Respond
<1>7. ASSUME NEW o \in Objects, Refetch(o) PROVE QueueHasTaker'
  BY <1>7 DEF Refetch
<1>8. CASE UNCHANGED vars
  BY <1>8 DEF vars
<1> QED
  BY <1>1, <1>2, <1>3, <1>4, <1>5, <1>6, <1>7, <1>8 DEF Next, Proceed

\* However requests overlap, no message waits in the queue for the next one.
THEOREM NothingWaits == Spec => []NothingLeftBehind
<1>1. Init => QueueHasTaker
  BY DEF Init, QueueHasTaker
<1>2. QueueHasTaker => NothingLeftBehind
  BY DEF QueueHasTaker, NothingLeftBehind, Untaken, Active
<1> QED
  BY TypeInit, TypeStep, TakerStep, <1>1, <1>2, PTL DEF Spec

-----------------------------------------------------------------------------
\* One request at a time.  What clients show in an old state is in a message
\* that is under way: published, in the queue or in a batch.
Covered(messages) == ~unsent => stale \subseteq messages

\* Only an open transaction has pending writes, and their messages wait.
Stage(r) ==
  /\ step[r] \in {"operating", "committing"} =>
       /\ pending[r] \subseteq queue
       /\ \/ kind[r] = "post" /\ Covered(told)
          \/ kind[r] = "put" /\ Covered(told \cup queue)
  /\ step[r] \notin {"operating", "committing"} => pending[r] = {}
  /\ step[r] = "committing" => kind[r] = "post"
  /\ step[r] = "clearing" => kind[r] = "refused" /\ Covered(told)
  /\ step[r] = "response" =>
       Covered(told \cup queue) /\ (kind[r] = "refused" => queue = {})
  /\ step[r] \in {"swapping", "publishing"} =>
       Covered(told \cup batch[r]) /\ (kind[r] = "refused" => batch[r] = {})

Alone == \A r, s \in Active : r = s

SerialInv ==
  ~overlapped =>
    /\ Alone
    /\ Active = {} => Covered(told)
    /\ \A r \in Requests : Stage(r)

\* A step of the only request is the only thing that matters to SerialInv.
LEMMA OneRequest ==
  ASSUME TypeInv, SerialInv, ~overlapped, ~overlapped',
         NEW r \in Requests, step[r] # "idle",
         NEW s, step' = [step EXCEPT ![r] = s],
         \A q \in Requests \ {r} : pending'[q] = pending[q],
         Stage(r)', s = "idle" => Covered(told)'
  PROVE  SerialInv'
<1>1. \A q \in Requests \ {r} : step[q] = "idle" /\ step'[q] = "idle"
  BY DEF SerialInv, Alone, Active, TypeInv, NotifyTypeOK
<1>2. \A q \in Requests : Stage(q)'
  BY <1>1 DEF Stage, SerialInv
<1>3. Active' \subseteq {r}
  BY <1>1 DEF Active
<1>4. Active' = {} => s = "idle"
  BY DEF Active, TypeInv, NotifyTypeOK
<1> QED
  BY <1>2, <1>3, <1>4 DEF SerialInv, Alone

LEMMA SerialStep == TypeInv /\ QueueHasTaker /\ SerialInv /\ [Next]_vars => SerialInv'
<1> SUFFICES ASSUME TypeInv, QueueHasTaker, SerialInv, [Next]_vars, ~overlapped'
             PROVE  SerialInv'
  BY DEF SerialInv
<1> USE DEF TypeInv, NotifyTypeOK, Steps, Goto, requestVars, messageVars
<1>1. ASSUME NEW r \in Requests, Open(r) PROVE SerialInv'
  <2>1. ~overlapped /\ Active = {}
    BY <1>1 DEF Open
  <2>2. queue = {} /\ Covered(told) /\ \A q \in Requests : step[q] = "idle" /\ pending[q] = {}
    BY <2>1 DEF QueueHasTaker, Untaken, SerialInv, Stage, Active
  <2>3. PICK k \in {"post", "put"} : kind' = [kind EXCEPT ![r] = k]
    BY <1>1 DEF Open
  <2>4. step' = [step EXCEPT ![r] = "operating"] /\ UNCHANGED <<pending, queue, batch, told, stale, unsent>>
    BY <1>1 DEF Open
  <2>5. Covered(told)' /\ Covered(told \cup queue)'
    BY <2>2, <2>4 DEF Covered
  <2>6. \A q \in Requests : Stage(q)'
    BY <2>2, <2>3, <2>4, <2>5 DEF Stage
  <2> QED
    BY <2>2, <2>4, <2>5, <2>6 DEF SerialInv, Alone, Active
<1>2. ASSUME NEW r \in Requests, NEW o \in Objects, Write(r, o) PROVE SerialInv'
  BY <1>2, OneRequest DEF Write, Stage, Covered, SerialInv
<1>3. ASSUME NEW r \in Requests, OperationDone(r) PROVE SerialInv'
  BY <1>3, OneRequest DEF OperationDone, Advance, CommitWrites, Stage, Covered, SerialInv
<1>4. ASSUME NEW r \in Requests, OperationFails(r) PROVE SerialInv'
  <2>1. PICK kept \in {{}, pending[r]} : CommitWrites(r, kept)
    BY <1>4 DEF OperationFails
  <2>2. ~overlapped /\ step[r] = "operating" /\ kind[r] = "put" /\ Stage(r)
    BY <1>4 DEF OperationFails, SerialInv
  <2>3. UNCHANGED <<kind, queue, batch, told, overlapped, unsent>>
    BY <1>4 DEF OperationFails
  <2>4. Covered(told \cup queue)'
    BY <2>1, <2>2, <2>3 DEF CommitWrites, Stage, Covered
  <2>5. pending' = [pending EXCEPT ![r] = {}]
    BY <2>1 DEF CommitWrites
  <2>6. PICK s \in {"operating", "response"} : step' = [step EXCEPT ![r] = s]
    BY <1>4, <2>2 DEF OperationFails, Advance
  <2>7. Stage(r)'
    BY <2>2, <2>3, <2>4, <2>5, <2>6 DEF Stage
  <2> QED
    BY <2>2, <2>3, <2>5, <2>6, <2>7, OneRequest
<1>5. ASSUME NEW r \in Requests, Rollback(r) PROVE SerialInv'
  BY <1>5, OneRequest DEF Rollback, CommitWrites, Stage, Covered, SerialInv
<1>6. ASSUME NEW r \in Requests, Commit(r) PROVE SerialInv'
  BY <1>6, OneRequest DEF Commit, CommitWrites, Stage, Covered, SerialInv
<1>7. ASSUME NEW r \in Requests, ClearMessages(r) PROVE SerialInv'
  BY <1>7, OneRequest DEF ClearMessages, Stage, Covered, SerialInv
<1>8. ASSUME NEW r \in Requests, TakeQueue(r) PROVE SerialInv'
  BY <1>8, OneRequest DEF TakeQueue, Stage, Covered, SerialInv
<1>9. ASSUME NEW r \in Requests, SwapQueue(r) PROVE SerialInv'
  BY <1>9, OneRequest DEF SwapQueue, Stage, Covered, SerialInv
<1>10. ASSUME NEW r \in Requests, Publish(r) \/ PublishFails(r) PROVE SerialInv'
  BY <1>10, OneRequest DEF Publish, PublishFails, Respond, Stage, Covered, SerialInv
<1>11. ASSUME NEW o \in Objects, Refetch(o) PROVE SerialInv'
  BY <1>11 DEF Refetch, SerialInv, Alone, Active, Stage, Covered
<1>12. CASE UNCHANGED vars
  BY <1>12 DEF vars, SerialInv, Alone, Active, Stage, Covered
<1> QED
  BY <1>1, <1>2, <1>3, <1>4, <1>5, <1>6, <1>7, <1>8, <1>9, <1>10, <1>11, <1>12
  DEF Next, Proceed

LEMMA SerialInit == Init => SerialInv
BY DEF Init, SerialInv, Alone, Active, Stage, Covered

\* A process that has served its requests one at a time has its clients in
\* sync whenever it rests.
THEOREM SerialSync == Spec => []SerialClientsInSync
<1>1. Init => QueueHasTaker
  BY DEF Init, QueueHasTaker
<1>2. SerialInv => SerialClientsInSync
  BY DEF SerialInv, SerialClientsInSync, ClientsInSync, Quiet, Covered
<1> QED
  BY TypeInit, TypeStep, TakerStep, SerialInit, SerialStep, <1>1, <1>2, PTL DEF Spec

\* A POST that was rolled back publishes nothing.
THEOREM RefusedPostSilence == Spec => RefusedPostIsSilent
<1>1. Init => QueueHasTaker
  BY DEF Init, QueueHasTaker
<1>2. SerialInv /\ [Next]_vars =>
        [\A r \in Requests :
           Publish(r) /\ kind[r] = "refused" /\ ~overlapped => batch[r] = {}]_vars
  BY DEF SerialInv, Stage, Publish
<1> QED
  BY TypeInit, TypeStep, TakerStep, SerialInit, SerialStep, <1>1, <1>2, PTL
  DEF Spec, RefusedPostIsSilent
=============================================================================
