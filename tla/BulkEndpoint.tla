----------------------------- MODULE BulkEndpoint -----------------------------
(***************************************************************************)
(* The bulk endpoint (vstutils/api/endpoint.py): a request is a list of    *)
(* operations that may use the results of each other.  POST wraps them in  *)
(* a transaction and stops at the first that fails, PUT commits each on    *)
(* its own, PATCH has a pool of threads work on them.                      *)
(*                                                                         *)
(* An operation reads or writes one row.  A reference to another result is *)
(* by its number (<<0[data][id]>>) or by the name the other gave with let; *)
(* names are unique.  Responses matter as far as they are of an operation  *)
(* and tell success; a reference into the response of a failure has no     *)
(* data to find.  The database locks a row for the transaction that has    *)
(* written it, and ends a wait for good with an error.                     *)
(***************************************************************************)
EXTENDS Naturals, Sequences, FiniteSets

CONSTANTS
  Requests,  \* bulk requests being served
  Rows,
  Programs,  \* the lists of operations that clients send
  Threads    \* BULK_THREADS

NoRow == "no row"  \* the operation reads

Operation(n) == [row : Rows \cup {NoRow}, by : {"none", "number", "name"}, to : 1..n]

ASSUME BulkAssumption ==
  /\ NoRow \notin Rows /\ Threads \in Nat
  /\ \A p \in Programs : p \in Seq(Operation(Len(p))) /\ p # <<>>

VARIABLES
  mode,     \* the method of each request
  ops,      \* its operations
  step,     \* of each operation
  results,  \* self.results: the number of an operation and what became of it
  named,    \* variables: operations whose result has got its name
  used,     \* the operation whose result a reference was replaced by
  pending,  \* what is written in the open transaction of a POST
  committed, \* the operations whose write has been committed
  answer    \* how the request ended

progress == <<step, named, used>>
vars == <<mode, ops, progress, results, pending, committed, answer>>

Steps == {"queued", "running", "invalid", "ok", "failed"}
Answers == {"none", "done", "200", "502", "lost"}

Numbers(r) == 1..Len(ops[r])
Writes(r) == {i \in Numbers(r) : ops[r][i].row # NoRow}
Saved(r) == {i \in Numbers(r) : <<r, i>> \in committed}
Locked(row, r) == \E q \in Requests \ {r} : \E i \in pending[q] : ops[q][i].row = row

Init ==
  /\ mode \in [Requests -> {"POST", "PUT", "PATCH"}]
  /\ ops \in [Requests -> Programs]
  /\ step = [r \in Requests |-> [i \in Numbers(r) |-> "queued"]]
  /\ results = [r \in Requests |-> <<>>]
  /\ named = [r \in Requests |-> {}]
  /\ used = [r \in Requests |-> [i \in Numbers(r) |-> 0]]
  /\ pending = [r \in Requests |-> {}]
  /\ committed = {}
  /\ answer = [r \in Requests |-> "none"]

\* POST and PUT, and PATCH without threads, have the dummy executor.
Parallel(r) == mode[r] = "PATCH" /\ Threads > 0

Running(r) == {i \in Numbers(r) : step[r][i] = "running"}

\* A mutant of Due: the next operation is taken before the last is in results.
DueEarly(r, i) ==
  /\ step[r][i] = "queued" /\ \A j \in 1..(i - 1) : step[r][j] # "queued"
  /\ IF Parallel(r) THEN Cardinality(Running(r)) < Threads ELSE Running(r) = {}

\* The executor takes the operations in order: one by one when the result of
\* the last has been taken, or as soon as a thread is free.
Due(r, i) ==
  /\ step[r][i] = "queued" /\ \A j \in 1..(i - 1) : step[r][j] # "queued"
  /\ IF Parallel(r) THEN Cardinality(Running(r)) < Threads ELSE Len(results[r]) = i - 1

\* The result a reference finds at this moment, 0 if it finds none.
Found(r, op) ==
  CASE op.by = "number" -> IF op.to <= Len(results[r]) /\ results[r][op.to].status = "ok" THEN results[r][op.to].of ELSE 0
    [] op.by = "name" -> IF op.to \in named[r] THEN op.to ELSE 0
    [] OTHER -> 0

\* is_valid: templates are replaced; one that cannot be is an error of the
\* operation, with status 500.
Validate(r, i) ==
  /\ answer[r] = "none" /\ Due(r, i)
  /\ LET found == Found(r, ops[r][i])
     IN  /\ used' = [used EXCEPT ![r][i] = found]
         /\ step' = [step EXCEPT ![r][i] =
              IF ops[r][i].by = "none" \/ found > 0 THEN "running" ELSE "invalid"]
  /\ UNCHANGED <<mode, ops, results, named, pending, committed, answer>>

\* transaction.atomic of the method commits, or releases its savepoint in a POST.
Keep(r, i) ==
  /\ ~Locked(ops[r][i].row, r)
  /\ IF mode[r] = "POST"
     THEN pending' = [pending EXCEPT ![r] = @ \cup {i}] /\ UNCHANGED committed
     ELSE committed' = committed \cup {<<r, i>>} /\ UNCHANGED pending

\* The view has done it, and the result gets its name.
Succeed(r, i) ==
  /\ answer[r] = "none" /\ i \in Running(r)
  /\ step' = [step EXCEPT ![r][i] = "ok"]
  /\ named' = [named EXCEPT ![r] = @ \cup {i}]
  /\ IF i \in Writes(r) THEN Keep(r, i) ELSE UNCHANGED <<pending, committed>>
  /\ UNCHANGED <<mode, ops, results, used, answer>>

\* It has not.  An exception undoes what the view had written; an error it
\* answers with is no exception, and a response is read, or cannot be, when the
\* method has ended.
Fail(r, i, written) ==
  /\ answer[r] = "none" /\ i \in Running(r)
  /\ step' = [step EXCEPT ![r][i] = "failed"]
  /\ IF written THEN i \in Writes(r) /\ Keep(r, i) ELSE UNCHANGED <<pending, committed>>
  /\ UNCHANGED <<mode, ops, results, named, used, answer>>

\* A mutant of Ended: an error of validation is caught by nobody.
EndedServed(r, i) == step[r][i] \in {"ok", "failed"}

Ended(r, i) == step[r][i] \in {"ok", "failed", "invalid"}

Result(r, i) == [of |-> i, status |-> step[r][i]]

Rollback(r) == pending' = [pending EXCEPT ![r] = {}]

\* A mutant of Take: results in the order in which operations end.
TakeEarliest(r) ==
  /\ answer[r] = "none"
  /\ \E i \in Numbers(r) :
       /\ Ended(r, i) /\ \A k \in 1..Len(results[r]) : results[r][k].of # i
       /\ results' = [results EXCEPT ![r] = Append(@, Result(r, i))]
       /\ IF mode[r] = "POST" /\ step[r][i] # "ok"
          THEN Rollback(r) /\ answer' = [answer EXCEPT ![r] = "502"]
          ELSE UNCHANGED <<pending, answer>>
  /\ UNCHANGED <<mode, ops, progress, committed>>

\* A mutant of Take: a transaction tolerates failures (allow_fail).
TakeAny(r) ==
  /\ answer[r] = "none"
  /\ \E i \in Numbers(r) :
       /\ i = Len(results[r]) + 1 /\ Ended(r, i)
       /\ results' = [results EXCEPT ![r] = Append(@, Result(r, i))]
  /\ UNCHANGED <<mode, ops, progress, pending, committed, answer>>

\* The loop of put takes the next result, and raises TransactionStop.
Take(r) ==
  /\ answer[r] = "none"
  /\ \E i \in Numbers(r) :
       /\ i = Len(results[r]) + 1 /\ Ended(r, i)
       /\ results' = [results EXCEPT ![r] = Append(@, Result(r, i))]
       /\ IF mode[r] = "POST" /\ step[r][i] # "ok"
          THEN Rollback(r) /\ answer' = [answer EXCEPT ![r] = "502"]
          ELSE UNCHANGED <<pending, answer>>
  /\ UNCHANGED <<mode, ops, progress, committed>>

Complete(r) == answer[r] = "none" /\ Len(results[r]) = Len(ops[r])

\* A mutant of Commit: the response is made before the transaction has ended.
CommitLater(r) ==
  /\ Complete(r)
  /\ answer' = [answer EXCEPT ![r] = "200"]
  /\ Rollback(r)
  /\ UNCHANGED <<mode, ops, progress, results, committed>>

\* The end of the transaction of a POST; nothing is open in the others.
Commit(r) ==
  /\ Complete(r)
  /\ answer' = [answer EXCEPT ![r] = "done"]
  /\ committed' = committed \cup {<<r, i>> : i \in pending[r]}
  /\ Rollback(r)
  /\ UNCHANGED <<mode, ops, progress, results>>

\* A commit that fails is an exception like any other.
CommitFails(r) ==
  /\ Complete(r) /\ mode[r] = "POST"
  /\ answer' = [answer EXCEPT ![r] = "502"]
  /\ Rollback(r)
  /\ UNCHANGED <<mode, ops, progress, results, committed>>

Respond(r) ==
  /\ answer[r] = "done"
  /\ answer' = [answer EXCEPT ![r] = "200"]
  /\ UNCHANGED <<mode, ops, progress, results, pending, committed>>

\* The process of a request dies; its database rolls back what is open.
Die(r) ==
  /\ answer[r] \in {"none", "done"}
  /\ answer' = [answer EXCEPT ![r] = "lost"]
  /\ Rollback(r)
  /\ UNCHANGED <<mode, ops, progress, results, committed>>

Operate(r, i) ==
  Validate(r, i) \/ Succeed(r, i) \/ Fail(r, i, TRUE) \/ Fail(r, i, FALSE)

Next ==
  \E r \in Requests :
    \/ \E i \in Numbers(r) : Operate(r, i)
    \/ Take(r) \/ Commit(r) \/ CommitFails(r) \/ Respond(r) \/ Die(r)

Spec == Init /\ [][Next]_vars

\* Threads go on and the database answers in the end, if only with an error.
FairSpec ==
  /\ Spec
  /\ \A r \in Requests :
       WF_vars((\E i \in Numbers(r) : Operate(r, i)) \/ Take(r) \/ Commit(r) \/ Respond(r))

-----------------------------------------------------------------------------
\* The shape of the state; no more operations run at a time than have a thread.
BulkTypeOK ==
  /\ mode \in [Requests -> {"POST", "PUT", "PATCH"}] /\ ops \in [Requests -> Programs]
  /\ results \in [Requests -> Seq([of : Nat, status : Steps])]
  /\ pending \in [Requests -> SUBSET Nat] /\ committed \subseteq Requests \X Nat
  /\ answer \in [Requests -> Answers]
  /\ \A r \in Requests :
       /\ step[r] \in [Numbers(r) -> Steps]
       /\ used[r] \in [Numbers(r) -> Nat]
       /\ named[r] = {i \in Numbers(r) : step[r][i] = "ok"}
       /\ Cardinality(Running(r)) <= IF Parallel(r) THEN Threads ELSE 1

\* "all operations in one transaction": of a POST nothing is ever visible, or
\* everything is, and then all operations have ended and it is answered with
\* 200 unless its process dies.
AllOrNothing ==
  \A r \in Requests : mode[r] = "POST" =>
    Saved(r) = {} \/ (Saved(r) = Writes(r) /\ answer[r] \in {"done", "200", "lost"})

\* "you will get 200 status and must validate statuses on each operation
\* responses": the results are those of the operations, in their order; a
\* success has been saved, a request that is invalid has not been; a 502 tells
\* that nothing was written.  What a failed operation has written is left open.
AnswerTellsOutcome ==
  \A r \in Requests :
    /\ answer[r] = "200" =>
         /\ Len(results[r]) = Len(ops[r])
         /\ \A i \in Numbers(r) :
              /\ results[r][i].of = i
              /\ i \in Writes(r) /\ results[r][i].status = "ok" => i \in Saved(r)
              /\ results[r][i].status = "invalid" => i \notin Saved(r)
    /\ answer[r] = "502" => Saved(r) = {}

\* What no run checks, since the code does not keep it: a failed operation has
\* written nothing.
FailureWritesNothing ==
  \A r \in Requests : answer[r] = "200" =>
    \A i \in Numbers(r) : results[r][i].status = "failed" => i \notin Saved(r)

\* "you can insert result value of previous operations": where operations are
\* synchronous, one is invalid only if the operation it names has failed or
\* comes later.
PreviousResultsResolve ==
  \A r \in Requests : ~Parallel(r) =>
    \A i \in Numbers(r) : step[r][i] = "invalid" =>
      LET j == ops[r][i].to IN j >= i \/ step[r][j] # "ok"

\* And a reference that is replaced is replaced by the result it names, with
\* threads too.
ReferenceIsTheNamed ==
  \A r \in Requests : \A i \in Numbers(r) : used[r][i] \in {0, ops[r][i].to}

\* Every request is answered, with more operations than threads too.
EveryRequestEnds == \A r \in Requests : <>(answer[r] \notin {"none", "done"})
=============================================================================
