--------------------------- MODULE Notifications ---------------------------
(***************************************************************************)
(* Change notifications (vstutils/models/cent_notify.py) and the requests  *)
(* they come from.  A process has one Notificator, made by the middleware  *)
(* FrontendChangesNotifications; every save or delete of a model, in       *)
(* whichever thread, is put into its queue, and every response is preceded *)
(* by asend(), which publishes all that is in the queue.                   *)
(*                                                                         *)
(* The requests are bulk requests of some operations, which is how the web *)
(* client talks to the server: POST wraps all operations in a transaction, *)
(* PUT each in its own.  Requests are served by threads of the process,    *)
(* the middlewares and asend() by its event loop.                          *)
(*                                                                         *)
(* A message only tells that an object has changed; the clients that show  *)
(* it then read it again.  Repeated messages of a batch are merged and     *)
(* their order has no effect, so the queue is a set of objects.            *)
(***************************************************************************)
EXTENDS Naturals

CONSTANTS
  Requests,    \* the requests a process serves, each any number of times
  Objects,     \* model instances
  AtomicSwap,  \* environment: no other thread runs between the two halves of
               \*   the statement with which asend() empties the queue
  MaxOps       \* bound: operations in a bulk request

ASSUME NotifyAssumption == MaxOps \in Nat \ {0} /\ AtomicSwap \in BOOLEAN

VARIABLES
  step,       \* where each request is
  kind,       \* how it was sent, "refused" once a POST has been rolled back
  left,       \* operations it has still to do
  pending,    \* objects written in its open transaction
  queue,      \* Notificator.queue
  batch,      \* what its asend() has taken from the queue
  told,       \* objects whose message has been published and not yet acted on
  stale,      \* objects that clients show in an older state than is committed
  overlapped, \* history: two requests have been in progress at once
  unsent      \* history: a batch could not be published

requestVars == <<step, kind, left, pending>>
messageVars == <<queue, batch, told>>
vars == <<requestVars, messageVars, stale, overlapped, unsent>>

Steps == {"idle", "operating", "committing", "clearing", "response", "swapping", "publishing"}

Active == {r \in Requests : step[r] # "idle"}

NotifyTypeOK ==
  /\ step \in [Requests -> Steps]
  /\ kind \in [Requests -> {"post", "put", "refused"}]
  /\ left \in [Requests -> 0..MaxOps]
  /\ pending \in [Requests -> SUBSET Objects]
  /\ queue \subseteq Objects
  /\ batch \in [Requests -> SUBSET Objects]
  /\ told \subseteq Objects
  /\ stale \subseteq Objects
  /\ overlapped \in BOOLEAN /\ unsent \in BOOLEAN

Init ==
  /\ step = [r \in Requests |-> "idle"]
  /\ kind = [r \in Requests |-> "put"]
  /\ left = [r \in Requests |-> 0]
  /\ pending = [r \in Requests |-> {}]
  /\ queue = {}
  /\ batch = [r \in Requests |-> {}]
  /\ told = {}
  /\ stale = {}
  /\ overlapped = FALSE
  /\ unsent = FALSE

Goto(r, s) == step' = [step EXCEPT ![r] = s]

-----------------------------------------------------------------------------
\* The endpoint.
Open(r) ==
  /\ step[r] = "idle"
  /\ Goto(r, "operating")
  /\ \E k \in {"post", "put"}, n \in 1..MaxOps :
       /\ kind' = [kind EXCEPT ![r] = k]
       /\ left' = [left EXCEPT ![r] = n]
  /\ overlapped' = (overlapped \/ Active # {})
  /\ UNCHANGED <<pending, messageVars, stale, unsent>>

\* An operation saves or deletes an object, and the signal handler appends
\* its message.  A row another open transaction has written is locked.
Write(r, o) ==
  /\ step[r] = "operating"
  /\ \A s \in Requests \ {r} : o \notin pending[s]
  /\ AtomicSwap => \A s \in Requests : step[s] # "swapping"
  /\ pending' = [pending EXCEPT ![r] = @ \cup {o}]
  /\ queue' = queue \cup {o}
  /\ UNCHANGED <<step, kind, left, batch, told, stale, overlapped, unsent>>

\* A transaction ends and these of its writes become visible.
CommitWrites(r, kept) ==
  /\ stale' = stale \cup kept
  /\ pending' = [pending EXCEPT ![r] = {}]

\* The next operation, or what follows the last one.
Advance(r) ==
  /\ left' = [left EXCEPT ![r] = @ - 1]
  /\ Goto(r, IF left[r] > 1 THEN "operating"
             ELSE IF kind[r] = "post" THEN "committing" ELSE "response")

OperationDone(r) ==
  /\ step[r] = "operating"
  /\ Advance(r)
  /\ IF kind[r] = "put" THEN CommitWrites(r, pending[r]) ELSE UNCHANGED <<pending, stale>>
  /\ UNCHANGED <<kind, messageVars, overlapped, unsent>>

\* A mutant of OperationFails: the error escapes, no response is made.
OperationFailsUnhandled(r) ==
  /\ step[r] = "operating" /\ kind[r] = "put"
  /\ left' = [left EXCEPT ![r] = 0]
  /\ Goto(r, "idle")
  /\ \E kept \in {{}, pending[r]} : CommitWrites(r, kept)
  /\ UNCHANGED <<kind, messageVars, overlapped, unsent>>

\* A failed operation of a PUT: its answer says so and the next one follows.
\* What it wrote stays only if the view that failed had no transaction.
OperationFails(r) ==
  /\ step[r] = "operating" /\ kind[r] = "put"
  /\ Advance(r)
  /\ \E kept \in {{}, pending[r]} : CommitWrites(r, kept)
  /\ UNCHANGED <<kind, messageVars, overlapped, unsent>>

\* A failed operation, or a failed commit, of a POST rolls everything back.
Rollback(r) ==
  /\ step[r] \in {"operating", "committing"} /\ kind[r] = "post"
  /\ CommitWrites(r, {})
  /\ kind' = [kind EXCEPT ![r] = "refused"]
  /\ left' = [left EXCEPT ![r] = 0]
  /\ Goto(r, "clearing")
  /\ UNCHANGED <<messageVars, overlapped, unsent>>

Commit(r) ==
  /\ step[r] = "committing"
  /\ CommitWrites(r, pending[r])
  /\ Goto(r, "response")
  /\ UNCHANGED <<kind, left, messageVars, overlapped, unsent>>

\* A mutant of ClearMessages: the queue is left as it is.
ClearNothing(r) ==
  /\ step[r] = "clearing"
  /\ Goto(r, "response")
  /\ UNCHANGED <<kind, left, pending, messageVars, stale, overlapped, unsent>>

\* post() drops the messages, all of them, before it answers 502.
ClearMessages(r) ==
  /\ step[r] = "clearing"
  /\ AtomicSwap => \A s \in Requests : step[s] # "swapping"
  /\ queue' = {}
  /\ Goto(r, "response")
  /\ UNCHANGED <<kind, left, pending, batch, told, stale, overlapped, unsent>>

-----------------------------------------------------------------------------
\* The middleware: asend().

\* A mutant of TakeQueue: the queue is emptied before it is copied.
TakeEmptied(r) ==
  /\ step[r] = "response" /\ \A s \in Requests : step[s] # "swapping"
  /\ queue' = {}
  /\ batch' = [batch EXCEPT ![r] = queue']
  /\ Goto(r, "swapping")
  /\ UNCHANGED <<kind, left, pending, told, stale, overlapped, unsent>>

\* tuple(self.queue); the event loop does not leave asend() before the
\* assignment that follows, the threads of other requests run on.
TakeQueue(r) ==
  /\ step[r] = "response" /\ \A s \in Requests : step[s] # "swapping"
  /\ batch' = [batch EXCEPT ![r] = queue]
  /\ Goto(r, "swapping")
  /\ UNCHANGED <<kind, left, pending, queue, told, stale, overlapped, unsent>>

\* self.queue = []
SwapQueue(r) ==
  /\ step[r] = "swapping"
  /\ queue' = {}
  /\ Goto(r, "publishing")
  /\ UNCHANGED <<kind, left, pending, batch, told, stale, overlapped, unsent>>

\* The batch is sent, and then the response.
Respond(r) ==
  /\ Goto(r, "idle")
  /\ batch' = [batch EXCEPT ![r] = {}]
  /\ UNCHANGED <<kind, left, pending, queue, stale, overlapped>>

Publish(r) ==
  /\ step[r] = "publishing"
  /\ told' = told \cup batch[r]
  /\ Respond(r)
  /\ UNCHANGED unsent

\* There is no client, or Centrifugo does not answer: the batch is dropped.
PublishFails(r) ==
  /\ step[r] = "publishing" /\ batch[r] # {}
  /\ unsent' = TRUE
  /\ Respond(r)
  /\ UNCHANGED told

-----------------------------------------------------------------------------
\* Clients that show the object read it again.
Refetch(o) ==
  /\ o \in told
  /\ told' = told \ {o}
  /\ stale' = stale \ {o}
  /\ UNCHANGED <<requestVars, queue, batch, overlapped, unsent>>

\* What a request does next of its own accord, apart from writing more.
Proceed(r) ==
  \/ OperationDone(r) \/ OperationFails(r) \/ Rollback(r) \/ Commit(r)
  \/ ClearMessages(r) \/ TakeQueue(r) \/ SwapQueue(r) \/ Publish(r) \/ PublishFails(r)

Next ==
  \/ \E r \in Requests :
       \/ Open(r) \/ Proceed(r)
       \/ \E o \in Objects : Write(r, o)
  \/ \E o \in Objects : Refetch(o)

Spec == Init /\ [][Next]_vars

\* Requests come to an end and clients do read what they are told to.
FairSpec ==
  /\ Spec
  /\ \A r \in Requests : WF_vars(Proceed(r))
  /\ \A o \in Objects : WF_vars(Refetch(o))

-----------------------------------------------------------------------------
Quiet == Active = {} /\ told = {}

\* "synchronized data updates": with no request in progress, every batch sent
\* and every message acted on, the clients show what the database holds.
ClientsInSync == Quiet /\ ~unsent => stale = {}

\* The same for a process that has served its requests one at a time.
SerialClientsInSync == ~overlapped => ClientsInSync

\* However requests overlap, no message waits in the queue for the next
\* request to come: the last response takes everything with it.
NothingLeftBehind == Active = {} => queue = {}

\* A POST that was rolled back tells nobody of changes nobody can see.
RefusedPostIsSilent ==
  [][\A r \in Requests :
       Publish(r) /\ kind[r] = "refused" /\ ~overlapped => batch[r] = {}]_vars

\* A change is seen in the end.
ChangeIsSeen ==
  \A o \in Objects : o \in stale ~> (o \notin stale \/ overlapped \/ unsent)
=============================================================================
