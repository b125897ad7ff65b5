--------------------------- MODULE RestApi_proofs ---------------------------
(***************************************************************************)
(* Two parts of the REST API, which share no state.  Nested querysets:     *)
(* both ways of get_parents and get_children return the whole subtree, for *)
(* any objects and any relation of theirs, finite or not.  The bulk        *)
(* endpoint: transactions, answers and references of any number of bulk    *)
(* requests, whatever their programs and however many threads there are.   *)
(***************************************************************************)
EXTENDS DeepNested, BulkEndpoint, FiniteSetTheorems, TLAPS

(***************************************************************************)
(* Nested querysets.                                                       *)
(***************************************************************************)

-----------------------------------------------------------------------------
(* Facts about the relation *)

LEMMA RelatedInNodes == ASSUME NEW S PROVE Related(S) \subseteq Nodes
BY DEF Related

LEMMA RelatedUnion == ASSUME NEW S, NEW T PROVE Related(S \cup T) = Related(S) \cup Related(T)
BY DEF Related

LEMMA RelatedMonotone == ASSUME NEW S, NEW T, S \subseteq T PROVE Related(S) \subseteq Related(T)
BY DEF Related

LEMMA RelatedEmpty == Related({}) = {}
BY DEF Related

\* What is below a set is below whatever is closed over it.
LEMMA BelowIsSmallest ==
  ASSUME NEW S, NEW T, T \subseteq Nodes, Closed(S, T)
  PROVE  Below(S) \subseteq T
BY DEF Below

LEMMA BelowIsClosed == ASSUME NEW S PROVE Closed(S, Below(S)) /\ Below(S) \subseteq Nodes
<1>1. Below(S) \subseteq Nodes
  BY DEF Below
<1>2. ASSUME NEW n \in Related(S) PROVE n \in Below(S)
  BY <1>2, RelatedInNodes DEF Below, Closed
<1>3. ASSUME NEW n \in Related(Below(S)) PROVE n \in Below(S)
  <2>1. n \in Nodes
    BY <1>3, RelatedInNodes
  <2>2. ASSUME NEW T \in SUBSET Nodes, Closed(S, T) PROVE n \in T
    <3>1. Below(S) \subseteq T
      BY <2>2, BelowIsSmallest
    <3>2. Related(Below(S)) \subseteq Related(T)
      BY <3>1, RelatedMonotone
    <3>. QED
      BY <1>3, <2>2, <3>2 DEF Closed
  <2>. QED
    BY <2>1, <2>2 DEF Below
<1>. QED
  BY <1>1, <1>2, <1>3 DEF Closed

-----------------------------------------------------------------------------
(* The inductive invariant *)

\* What the recursive query has found is below, and it still works on every
\* row whose relatives it has not got.
QueryInv ==
  cte => /\ Related(start) \subseteq rows /\ rows \subseteq Below(start)
         /\ Related(rows \ work) \subseteq rows

\* What the recursion has accumulated belongs there, and the relatives it has
\* not accumulated are the next level.
RecursionInv ==
  ~cte => /\ acc \cup level \subseteq Below(start) \cup start
          /\ start \subseteq acc \cup level
          /\ Related(acc) \subseteq acc \cup level

DoneInv ==
  done => IF cte THEN work = {} /\ result = Selected ELSE level = {} /\ result = Filtered

DeepInv == DeepTypeOK /\ QueryInv /\ RecursionInv /\ DoneInv

LEMMA DeepInvInit == DeepInit => DeepInv
<1>. SUFFICES ASSUME DeepInit PROVE DeepInv
  OBVIOUS
<1>1. Related(start) \subseteq Below(start)
  BY BelowIsClosed DEF Closed
<1>2. Related(start) \subseteq Nodes
  BY RelatedInNodes
<1>3. DeepTypeOK
  BY <1>2 DEF DeepInit, DeepTypeOK, FirstLevel
<1>4. QueryInv
  BY <1>1, RelatedEmpty DEF DeepInit, QueryInv
<1>5. RecursionInv
  BY RelatedEmpty DEF DeepInit, RecursionInv, FirstLevel
<1>. QED
  BY <1>3, <1>4, <1>5 DEF DeepInv, DoneInv, DeepInit

\* What is asked for stays, and so does what is below.
LEMMA BelowStays == ASSUME UNCHANGED question PROVE Below(start)' = Below(start)
<1>1. table' = table /\ start' = start /\ children' = children
  BY DEF question
<1>. QED
  BY <1>1 DEF Below, Closed, Related

LEMMA RecurseInv == ASSUME DeepInv, Recurse PROVE DeepInv'
<1>. USE DEF Recurse, question
<1>1. Related(work) \subseteq Nodes
  BY RelatedInNodes
<1>2. Related(work) \subseteq Below(start)
  <2>1. Related(work) \subseteq Related(Below(start))
    BY RelatedMonotone DEF DeepInv, QueryInv, DeepTypeOK
  <2>. QED
    BY <2>1, BelowIsClosed DEF Closed
<1>3. DeepTypeOK'
  BY <1>1 DEF DeepInv, DeepTypeOK, Added
<1>4. Below(start)' = Below(start)
  BY BelowStays, Zenon
<1>5. \A S : Related(S)' = Related(S)
  BY DEF Related
<1>6. QueryInv'
  <2>1. rows' \ work' = rows
    BY DEF Added, DeepInv, DeepTypeOK
  <2>2. rows = (rows \ work) \cup work
    BY DEF DeepInv, DeepTypeOK
  <2>3. Related(rows) = Related(rows \ work) \cup Related(work)
    BY <2>2, RelatedUnion
  <2>4. Related(rows) \subseteq rows'
    BY <2>3 DEF Added, DeepInv, QueryInv
  <2>5. Related(start)' \subseteq rows'
    BY <1>5 DEF DeepInv, QueryInv
  <2>6. rows' \subseteq Below(start)'
    BY <1>2, <1>4 DEF Added, DeepInv, QueryInv
  <2>7. Related(rows \ work)' \subseteq rows'
    BY <1>5, <2>1, <2>4 DEF Related
  <2>. QED
    BY <2>5, <2>6, <2>7 DEF QueryInv
<1>7. RecursionInv'
  BY DEF RecursionInv
<1>8. DoneInv'
  BY DEF DeepInv, DoneInv
<1>. QED
  BY <1>3, <1>6, <1>7, <1>8 DEF DeepInv

LEMMA DescendInv == ASSUME DeepInv, Descend PROVE DeepInv'
<1>. USE DEF Descend, question
<1>1. Related(Listed) \subseteq Nodes
  BY RelatedInNodes
<1>2. DeepTypeOK'
  BY <1>1 DEF DeepInv, DeepTypeOK, Listed
<1>3. Below(start)' = Below(start)
  BY BelowStays, Zenon
<1>4. RecursionInv'
  <2>1. Related(Listed) \subseteq Below(start)
    <3>1. Related(Listed) \subseteq Related(Below(start) \cup start)
      BY RelatedMonotone DEF DeepInv, RecursionInv, Listed
    <3>2. Related(Below(start) \cup start) = Related(Below(start)) \cup Related(start)
      BY RelatedUnion
    <3>. QED
      BY <3>1, <3>2, BelowIsClosed DEF Closed
  <2>2. acc' = acc \cup level
    BY DEF Listed
  <2>3. Related(acc') = Related(acc) \cup Related(Listed)
    BY RelatedUnion
  <2>4. Related(acc)' = Related(acc')
    BY DEF Related
  <2>. QED
    BY <1>3, <2>1, <2>2, <2>3, <2>4 DEF DeepInv, RecursionInv
<1>5. QueryInv'
  BY DEF QueryInv
<1>6. DoneInv'
  BY DEF DoneInv
<1>. QED
  BY <1>2, <1>4, <1>5, <1>6 DEF DeepInv

LEMMA ReturnInv == ASSUME DeepInv, Select \/ Filter PROVE DeepInv'
<1>. USE DEF Select, Filter, question
<1>1. start \subseteq Nodes /\ rows \subseteq Nodes /\ acc \subseteq Nodes
  BY DEF DeepInv, DeepTypeOK
<1>2. DeepTypeOK'
  <2>1. Selected \subseteq Nodes /\ Filtered \subseteq Nodes
    BY <1>1, Zenon DEF Selected, Filtered
  <2>2. result' \subseteq Nodes /\ done' \in BOOLEAN
    BY <2>1, Zenon
  <2>3. UNCHANGED <<table, start, children, current, cte, rows, work, acc, level>>
    BY Zenon
  <2>. HIDE DEF Select, Filter
  <2>. QED
    BY <2>2, <2>3, Zenon DEF DeepInv, DeepTypeOK
<1>3. Below(start)' = Below(start)
  BY BelowStays, Zenon
<1>4. QueryInv' /\ RecursionInv'
  BY <1>3 DEF DeepInv, QueryInv, RecursionInv, Related
<1>5. DoneInv'
  BY DEF DoneInv, Selected, Filtered
<1>. QED
  BY <1>2, <1>4, <1>5 DEF DeepInv

LEMMA DeepInvNext == ASSUME DeepInv, [DeepNext]_deepVars PROVE DeepInv'
<1>1. CASE UNCHANGED deepVars
  <2>. USE <1>1 DEF deepVars, question
  <2>1. Below(start)' = Below(start)
    BY BelowStays, Zenon
  <2>. QED
    BY <2>1 DEF DeepInv, DeepTypeOK, QueryInv, RecursionInv, DoneInv, Selected, Filtered, Related
<1>. QED
  BY <1>1, RecurseInv, DescendInv, ReturnInv DEF DeepNext

LEMMA DeepInvariance == DeepSpec => []DeepInv
BY DeepInvInit, DeepInvNext, PTL DEF DeepSpec

-----------------------------------------------------------------------------
(* The theorems *)

\* Every variable of both ways keeps its type, and only one way is taken.
THEOREM DeepTypeCorrect == DeepSpec => []DeepTypeOK
BY DeepInvariance, PTL DEF DeepInv

\* When the recursive query has no more rows to work on it has everything below.
LEMMA QueryIsComplete == ASSUME DeepInv, cte, work = {} PROVE rows = Below(start)
<1>1. Closed(start, rows)
  BY DEF DeepInv, QueryInv, Closed
<1>. QED
  BY <1>1, BelowIsSmallest DEF DeepInv, QueryInv, DeepTypeOK

\* So has the recursion when a level is empty, with the objects it began with.
LEMMA RecursionIsComplete == ASSUME DeepInv, ~cte, level = {} PROVE acc = Below(start) \cup start
<1>1. Related(acc) \subseteq acc /\ start \subseteq acc
  BY DEF DeepInv, RecursionInv
<1>2. Related(start) \subseteq Related(acc)
  BY <1>1, RelatedMonotone
<1>3. Closed(start, acc)
  BY <1>1, <1>2 DEF Closed
<1>. QED
  BY <1>1, <1>3, BelowIsSmallest DEF DeepInv, RecursionInv, DeepTypeOK

LEMMA ResultIsRight == ASSUME DeepInv PROVE SubtreeIsComplete /\ BothWaysAgree
<1>1. CASE done /\ cte
  <2>1. rows = Below(start) /\ result = rows \cup (IF current THEN start ELSE {})
    BY <1>1, QueryIsComplete DEF DeepInv, DoneInv, Selected
  <2>. QED
    BY <2>1 DEF SubtreeIsComplete, BothWaysAgree
<1>2. CASE done /\ ~cte
  <2>1. acc = Below(start) \cup start /\ result = IF current THEN acc ELSE acc \ start
    BY <1>2, RecursionIsComplete DEF DeepInv, DoneInv, Filtered
  <2>. QED
    BY <2>1 DEF SubtreeIsComplete, BothWaysAgree
<1>. QED
  BY <1>1, <1>2 DEF SubtreeIsComplete, BothWaysAgree

\* Whatever is related to what, nothing is missing and nothing is foreign.
THEOREM WholeSubtree == DeepSpec => []SubtreeIsComplete
BY DeepInvariance, ResultIsRight, PTL

\* And both ways return the same where the current objects are asked for, or
\* are not among their own relatives.
THEOREM SameAnswer == DeepSpec => []BothWaysAgree
BY DeepInvariance, ResultIsRight, PTL

(***************************************************************************)
(* The bulk endpoint.                                                      *)
(***************************************************************************)

\* Operations are taken in order.
InOrder(r) == \A i, j \in Numbers(r) : j < i /\ step[r][i] # "queued" => step[r][j] # "queued"

\* Results are those of the first operations, which have ended.
Taken(r) ==
  /\ Len(results[r]) <= Len(ops[r])
  /\ \A k \in 1..Len(results[r]) :
       results[r][k].of = k /\ Ended(r, k) /\ results[r][k].status = step[r][k]

\* Without threads only the operation after the last result can be at work.
OneByOne(r) ==
  ~Parallel(r) => \A i \in Numbers(r) : step[r][i] # "queued" => i <= Len(results[r]) + 1

Limited(r) == Cardinality(Running(r)) <= IF Parallel(r) THEN Threads ELSE 1

Referred(r) == \A i \in Numbers(r) : used[r][i] \in {0, ops[r][i].to}

Resolved(r) == ~Parallel(r) =>
  \A i \in Numbers(r) : step[r][i] = "invalid" =>
    ops[r][i].to >= i \/ step[r][ops[r][i].to] # "ok"

\* What has surely been written, and what may have been: an operation that has
\* failed may have written or not.
Done(r) == {i \in Writes(r) : step[r][i] = "ok"}
Tried(r) == {i \in Writes(r) : step[r][i] \in {"ok", "failed"}}

Good(r) == \A k \in 1..Len(results[r]) : results[r][k].status = "ok"

\* A POST keeps its writes pending until it has got all results.
Transaction(r) == mode[r] = "POST" =>
  /\ answer[r] = "none" =>
       Saved(r) = {} /\ Done(r) \subseteq pending[r] /\ pending[r] \subseteq Tried(r) /\ Good(r)
  /\ answer[r] \in {"done", "200"} => Saved(r) = Writes(r) /\ Good(r)
  /\ answer[r] = "502" => Saved(r) = {}
  /\ answer[r] = "lost" => Saved(r) \in {{}, Writes(r)}

Separate(r) == mode[r] # "POST" =>
  pending[r] = {} /\ answer[r] # "502" /\ Done(r) \subseteq Saved(r) /\ Saved(r) \subseteq Tried(r)

Full(r) == answer[r] \in {"done", "200"} => Len(results[r]) = Len(ops[r])

Shape(r) ==
  /\ step[r] \in [Numbers(r) -> Steps]
  /\ used[r] \in [Numbers(r) -> Nat]
  /\ named[r] = {i \in Numbers(r) : step[r][i] = "ok"}

\* What holds of each request by itself, in three parts.
Work(r) == Shape(r) /\ InOrder(r) /\ OneByOne(r) /\ Taken(r) /\ Limited(r)
References(r) == Referred(r) /\ Resolved(r)
Outcome(r) == Transaction(r) /\ Separate(r) /\ Full(r)

Functions ==
  /\ mode \in [Requests -> {"POST", "PUT", "PATCH"}] /\ ops \in [Requests -> Programs]
  /\ step = [r \in Requests |-> step[r]] /\ used = [r \in Requests |-> used[r]]
  /\ named = [r \in Requests |-> named[r]]
  /\ results \in [Requests -> Seq([of : Nat, status : Steps])]
  /\ pending \in [Requests -> SUBSET Nat] /\ committed \subseteq Requests \X Nat
  /\ answer \in [Requests -> Answers]

IInv == Functions /\ \A r \in Requests : Work(r) /\ References(r) /\ Outcome(r)

-----------------------------------------------------------------------------
USE BulkAssumption

\* A list of operations is finite, and each names one of them.
LEMMA Lengths ==
  ASSUME Functions, NEW r \in Requests
  PROVE  /\ Len(ops[r]) \in Nat \ {0}
         /\ \A i \in Numbers(r) : ops[r][i] \in Operation(Len(ops[r]))
<1>1. ops[r] \in Programs BY DEF Functions
<1>2. ops[r] \in Seq(Operation(Len(ops[r]))) /\ ops[r] # <<>> BY <1>1
<1> QED BY <1>2 DEF Numbers

LEMMA RunningIsFinite ==
  ASSUME Functions, NEW r \in Requests PROVE IsFiniteSet(Running(r))
<1>1. IsFiniteSet(Numbers(r)) BY Lengths, FS_Interval DEF Numbers
<1> QED BY <1>1, FS_Subset DEF Running

\* The part of the state that is request q's.
Same(q) ==
  /\ mode' = mode /\ ops' = ops
  /\ step'[q] = step[q] /\ results'[q] = results[q] /\ named'[q] = named[q] /\ used'[q] = used[q]
  /\ pending'[q] = pending[q] /\ answer'[q] = answer[q]
  /\ \A i \in Nat : <<q, i>> \in committed' <=> <<q, i>> \in committed

LEMMA Frame ==
  ASSUME NEW q \in Requests, Functions, Same(q), Work(q), References(q), Outcome(q)
  PROVE  Work(q)' /\ References(q)' /\ Outcome(q)'
<1>1. Numbers(q)' = Numbers(q) /\ Parallel(q)' = Parallel(q) /\ Running(q)' = Running(q)
  BY DEF Same, Numbers, Parallel, Running
<1>2. Writes(q)' = Writes(q) BY <1>1 DEF Same, Writes
<1>3. Numbers(q) \subseteq Nat BY Lengths DEF Numbers
<1>4. Saved(q)' = Saved(q) /\ Done(q)' = Done(q) /\ Tried(q)' = Tried(q)
  BY <1>1, <1>2, <1>3 DEF Same, Saved, Done, Tried
<1>5. Work(q)'
  <2>1. Shape(q)' BY <1>1 DEF Work, Shape, Same
  <2>2. InOrder(q)' /\ OneByOne(q)' BY <1>1 DEF Work, InOrder, OneByOne, Same
  <2>3. Taken(q)' BY DEF Work, Taken, Same, Ended
  <2>4. Limited(q)' BY <1>1 DEF Work, Limited
  <2> QED BY <2>1, <2>2, <2>3, <2>4 DEF Work
<1>6. References(q)' BY <1>1 DEF References, Referred, Resolved, Same
<1>7. Outcome(q)' BY <1>1, <1>2, <1>4 DEF Outcome, Transaction, Separate, Full, Good, Same
<1> QED BY <1>5, <1>6, <1>7

\* The invariant is kept if r's own share is, and the others are left alone.
LEMMA Step ==
  ASSUME IInv, NEW r \in Requests, Functions',
         \A q \in Requests \ {r} : Same(q),
         Work(r)', References(r)', Outcome(r)'
  PROVE  IInv'
<1>1. ASSUME NEW q \in Requests PROVE (Work(q) /\ References(q) /\ Outcome(q))'
  <2>1. CASE q = r BY <2>1
  <2>2. CASE q # r BY <2>2, Frame DEF IInv
  <2> QED BY <2>1, <2>2
<1> QED BY <1>1 DEF IInv

LEMMA ValidateStep ==
  ASSUME IInv, NEW r \in Requests, NEW i \in Numbers(r), Validate(r, i) PROVE IInv'
<1> DEFINE next == IF ops[r][i].by = "none" \/ Found(r, ops[r][i]) > 0 THEN "running" ELSE "invalid"
<1>0. Functions /\ Work(r) /\ References(r) /\ Outcome(r) BY DEF IInv
<1>1. /\ answer[r] = "none" /\ Due(r, i)
      /\ used' = [used EXCEPT ![r][i] = Found(r, ops[r][i])]
      /\ step' = [step EXCEPT ![r][i] = next]
      /\ UNCHANGED <<mode, ops, results, named, pending, committed, answer>>
  BY DEF Validate
<1>2. next \in {"running", "invalid"} OBVIOUS
<1> HIDE DEF next
<1>3. /\ ops[r][i].to \in Numbers(r)
      /\ ops[r][i].by \in {"none", "number", "name"}
  BY <1>0, Lengths DEF Operation, Numbers
<1>4. Found(r, ops[r][i]) \in {0, ops[r][i].to}
  <2>1. CASE ops[r][i].by = "number"
    BY <2>1, <1>0, <1>3 DEF Found, Work, Taken, Numbers
  <2>2. CASE ops[r][i].by # "number" BY <2>2, <1>3 DEF Found
  <2> QED BY <2>1, <2>2
<1>5. Functions'
  BY <1>0, <1>1 DEF Functions
<1>6. ASSUME NEW q \in Requests \ {r} PROVE Same(q)
  BY <1>0, <1>1, <1>6 DEF Functions, Same
<1>7. /\ Numbers(r)' = Numbers(r) /\ Parallel(r)' = Parallel(r) /\ Writes(r)' = Writes(r) /\ Saved(r)' = Saved(r)
      /\ step'[r] = [step[r] EXCEPT ![i] = next]
      /\ used'[r] = [used[r] EXCEPT ![i] = Found(r, ops[r][i])]
  BY <1>0, <1>1 DEF Functions, Numbers, Parallel, Writes, Saved
<1>8. /\ step[r] \in [Numbers(r) -> Steps] /\ step[r][i] = "queued"
      /\ \A j \in Numbers(r) : j < i => step[r][j] # "queued"
      /\ Numbers(r) \subseteq Nat \ {0}
  BY <1>0, <1>1, Lengths DEF Work, Shape, Due, Numbers
<1>9. Work(r)'
  <2>1. Shape(r)'
    BY <1>0, <1>1, <1>2, <1>3, <1>4, <1>7, <1>8 DEF Work, Shape, Steps, Numbers
  <2>2. InOrder(r)' BY <1>0, <1>2, <1>7, <1>8 DEF Work, InOrder
  <2>3. OneByOne(r)' BY <1>0, <1>1, <1>7, <1>8 DEF Work, OneByOne, Due
  <2>4. Taken(r)'
    BY <1>0, <1>1, <1>7, <1>8 DEF Work, Taken, Ended, Functions
  <2>5. Limited(r)'
    <3>1. Running(r)' \subseteq Running(r) \cup {i} BY <1>7, <1>8 DEF Running
    <3>2. i \notin Running(r) /\ IsFiniteSet(Running(r)) BY <1>0, <1>8, RunningIsFinite DEF Running
    <3>3. Cardinality(Running(r) \cup {i}) = Cardinality(Running(r)) + 1 /\ Cardinality(Running(r)) \in Nat
      BY <3>2, FS_AddElement, FS_CardinalityType
    <3>4. Cardinality(Running(r))' <= Cardinality(Running(r)) + 1 /\ Cardinality(Running(r))' \in Nat
      BY <3>1, <3>2, <3>3, FS_AddElement, FS_Subset, FS_CardinalityType
    <3>5. CASE Parallel(r) BY <3>3, <3>4, <3>5, <1>1, <1>7 DEF Due, Limited
    <3>6. CASE ~Parallel(r)
      <4>1. Running(r) = {}
        <5> SUFFICES ASSUME NEW k \in Numbers(r), step[r][k] = "running" PROVE FALSE
          BY DEF Running
        <5>1. Len(results[r]) \in Nat /\ Len(results[r]) = i - 1
          BY <3>6, <1>0, <1>1 DEF Due, Functions
        <5>2. i \in Nat /\ k \in Nat \ {0} BY <1>8
        <5>3. CASE k < i
          <6>1. k \in 1..Len(results[r]) BY <5>1, <5>2, <5>3
          <6> QED BY <6>1, <1>0 DEF Work, Taken, Ended
        <5>4. CASE k > i BY <5>2, <5>4, <1>0, <1>8 DEF Work, InOrder
        <5>5. CASE k = i BY <5>5, <1>8
        <5> QED BY <5>2, <5>3, <5>4, <5>5
      <4> QED BY <4>1, <3>4, <3>6, <1>7, FS_EmptySet DEF Limited
    <3> QED BY <3>5, <3>6
  <2> QED BY <2>1, <2>2, <2>3, <2>4, <2>5 DEF Work
<1>10. References(r)'
  <2>1. Referred(r)' BY <1>0, <1>1, <1>4, <1>7 DEF References, Referred, Work, Shape
  <2>2. Resolved(r)'
    <3> SUFFICES ASSUME ~Parallel(r), NEW j \in Numbers(r), step'[r][j] = "invalid"
                 PROVE  ops[r][j].to >= j \/ step'[r][ops[r][j].to] # "ok"
      BY <1>1, <1>7 DEF Resolved
    <3>1. \A k \in Numbers(r) : step'[r][k] = "ok" <=> step[r][k] = "ok" BY <1>2, <1>7, <1>8
    <3>2. ops[r][j].to \in Numbers(r) BY <1>0, Lengths DEF Operation, Numbers
    <3>3. CASE j # i BY <3>1, <3>2, <3>3, <1>0, <1>7, <1>8 DEF References, Resolved
    <3>4. CASE j = i
      <4>1. next = "invalid" BY <3>4, <1>7, <1>8
      <4>2. ops[r][i].by # "none" /\ ~(Found(r, ops[r][i]) > 0) BY <4>1 DEF next
      <4>3. CASE ops[r][i].to < i
        <5>1. Len(results[r]) = i - 1 BY <1>1 DEF Due
        <5>2. ops[r][i].to \in 1..Len(results[r]) BY <5>1, <4>3, <1>3, <1>8
        <5>3. CASE ops[r][i].by = "number"
          BY <5>2, <5>3, <4>2, <3>1, <3>4, <1>0, <1>3, <1>8 DEF Found, Work, Taken
        <5>4. CASE ops[r][i].by = "name"
          BY <5>4, <4>2, <3>1, <3>4, <1>0, <1>3, <1>8 DEF Found, Work, Shape
        <5> QED BY <5>3, <5>4, <4>2, <1>3
      <4> QED BY <4>3, <3>4, <1>3, <1>8
    <3> QED BY <3>3, <3>4
  <2> QED BY <2>1, <2>2 DEF References
<1>11. Outcome(r)'
  <2>1. Done(r)' = Done(r) /\ Tried(r)' = Tried(r) BY <1>2, <1>7, <1>8 DEF Done, Tried, Writes
  <2> QED BY <2>1, <1>0, <1>1, <1>7 DEF Outcome, Transaction, Separate, Full, Good
<1> QED BY <1>5, <1>6, <1>9, <1>10, <1>11, Step

\* The end of an operation that was running leaves what depends on its order
\* and on the results of earlier ones.
LEMMA OperationEnds ==
  ASSUME IInv, NEW r \in Requests, NEW i \in Running(r), NEW end \in {"ok", "failed"},
         step' = [step EXCEPT ![r][i] = end],
         named' = [named EXCEPT ![r] = IF end = "ok" THEN @ \cup {i} ELSE @],
         UNCHANGED <<mode, ops, results, used>>
  PROVE  /\ Work(r)' /\ References(r)'
         /\ Numbers(r)' = Numbers(r) /\ Writes(r)' = Writes(r) /\ i \in Numbers(r)
         /\ Done(r)' = IF end = "ok" /\ i \in Writes(r) THEN Done(r) \cup {i} ELSE Done(r)
         /\ Tried(r)' = IF i \in Writes(r) THEN Tried(r) \cup {i} ELSE Tried(r)
         /\ Good(r)' = Good(r)
<1>0. Functions /\ Work(r) /\ References(r) BY DEF IInv
<1>1. /\ Numbers(r)' = Numbers(r) /\ Parallel(r)' = Parallel(r) /\ Writes(r)' = Writes(r)
      /\ step'[r] = [step[r] EXCEPT ![i] = end]
      /\ named'[r] = IF end = "ok" THEN named[r] \cup {i} ELSE named[r]
  BY <1>0 DEF Functions, Numbers, Parallel, Writes
<1>2. i \in Numbers(r) /\ step[r][i] = "running" /\ step[r] \in [Numbers(r) -> Steps]
  BY <1>0 DEF Running, Work, Shape
<1>3. Numbers(r) \subseteq Nat \ {0} BY <1>0, Lengths DEF Numbers
<1>4. Work(r)'
  <2>1. Shape(r)' BY <1>0, <1>1, <1>2 DEF Work, Shape, Steps
  <2>2. InOrder(r)' /\ OneByOne(r)' BY <1>0, <1>1, <1>2 DEF Work, InOrder, OneByOne
  <2>3. Taken(r)' BY <1>0, <1>1, <1>2 DEF Work, Taken, Ended, Numbers, Functions
  <2>4. Limited(r)'
    <3>1. Running(r)' \subseteq Running(r) BY <1>1, <1>2 DEF Running
    <3>2. Cardinality(Running(r))' <= Cardinality(Running(r))
          /\ Cardinality(Running(r)) \in Nat /\ Cardinality(Running(r))' \in Nat
      BY <3>1, <1>0, RunningIsFinite, FS_Subset, FS_CardinalityType
    <3> QED BY <3>2, <1>0, <1>1 DEF Work, Limited
  <2> QED BY <2>1, <2>2, <2>3, <2>4 DEF Work
<1>5. References(r)'
  <2>1. Referred(r)' BY <1>0, <1>1 DEF References, Referred
  <2>2. Resolved(r)'
    <3> SUFFICES ASSUME ~Parallel(r), NEW j \in Numbers(r), step'[r][j] = "invalid"
                 PROVE  ops[r][j].to >= j \/ step'[r][ops[r][j].to] # "ok"
      BY <1>1 DEF Resolved
    <3>1. ops[r][j].to \in Numbers(r) BY <1>0, Lengths DEF Operation, Numbers
    <3>2. j # i /\ step[r][j] = "invalid" BY <1>1, <1>2
    <3>3. CASE ops[r][j].to # i
      BY <3>1, <3>2, <3>3, <1>0, <1>1, <1>2 DEF References, Resolved
    <3>4. CASE ops[r][j].to = i
      <4>1. ASSUME i < j PROVE FALSE
        <5>1. Len(results[r]) \in Nat BY <1>0 DEF Functions
        <5>2. j <= Len(results[r]) + 1 BY <3>2, <1>0 DEF Work, OneByOne
        <5>3. i \in 1..Len(results[r]) BY <5>1, <5>2, <4>1, <1>2, <1>3
        <5> QED BY <5>3, <1>0, <1>2 DEF Work, Taken, Ended
      <4> QED BY <4>1, <3>4, <1>2, <1>3
    <3> QED BY <3>3, <3>4
  <2> QED BY <2>1, <2>2 DEF References
<1>6. /\ Done(r)' = IF end = "ok" /\ i \in Writes(r) THEN Done(r) \cup {i} ELSE Done(r)
      /\ Tried(r)' = IF i \in Writes(r) THEN Tried(r) \cup {i} ELSE Tried(r)
  BY <1>1, <1>2 DEF Done, Tried, Writes
<1>7. Good(r)' = Good(r) BY DEF Good
<1> QED BY <1>1, <1>2, <1>4, <1>5, <1>6, <1>7

\* It may have kept what it has written; a success has.
LEMMA OperationKeeps ==
  ASSUME IInv, NEW r \in Requests, NEW i \in Running(r), NEW end \in {"ok", "failed"}, answer[r] = "none",
         step' = [step EXCEPT ![r][i] = end],
         named' = [named EXCEPT ![r] = IF end = "ok" THEN @ \cup {i} ELSE @],
         UNCHANGED <<mode, ops, results, used, answer>>,
         \/ (end = "ok" => i \notin Writes(r)) /\ UNCHANGED <<pending, committed>>
         \/ i \in Writes(r) /\ Keep(r, i)
  PROVE  IInv'
<1>0. Functions /\ Work(r) /\ Outcome(r) BY DEF IInv
<1>1. /\ Work(r)' /\ References(r)' /\ Numbers(r)' = Numbers(r) /\ Writes(r)' = Writes(r)
      /\ Done(r)' = IF end = "ok" /\ i \in Writes(r) THEN Done(r) \cup {i} ELSE Done(r)
      /\ Tried(r)' = IF i \in Writes(r) THEN Tried(r) \cup {i} ELSE Tried(r)
      /\ Good(r)' = Good(r) /\ i \in Numbers(r)
  BY OperationEnds
<1>2. Numbers(r) \subseteq Nat BY <1>0, Lengths DEF Numbers
<1>3. CASE (end = "ok" => i \notin Writes(r)) /\ UNCHANGED <<pending, committed>>
  <2>1. Functions' BY <1>0, <1>3 DEF Functions
  <2>2. \A q \in Requests \ {r} : Same(q) BY <1>0, <1>3 DEF Functions, Same
  <2>3. Saved(r)' = Saved(r) BY <1>1, <1>3 DEF Saved
  <2>4. Outcome(r)' BY <2>3, <1>0, <1>1, <1>3 DEF Outcome, Transaction, Separate, Full
  <2> QED BY <2>1, <2>2, <2>4, <1>1, Step
<1>4. CASE i \in Writes(r) /\ Keep(r, i) /\ mode[r] = "POST"
  <2>1. pending' = [pending EXCEPT ![r] = @ \cup {i}] /\ committed' = committed BY <1>4 DEF Keep
  <2>2. Functions' BY <2>1, <1>0, <1>1, <1>2 DEF Functions
  <2>3. \A q \in Requests \ {r} : Same(q) BY <2>1, <1>0 DEF Functions, Same
  <2>4. Saved(r)' = Saved(r) /\ pending'[r] = pending[r] \cup {i} BY <2>1, <1>0, <1>1 DEF Saved, Functions
  <2>5. Outcome(r)' BY <2>4, <1>0, <1>1, <1>4 DEF Outcome, Transaction, Separate, Full
  <2> QED BY <2>2, <2>3, <2>5, <1>1, Step
<1>5. CASE i \in Writes(r) /\ Keep(r, i) /\ mode[r] # "POST"
  <2>1. pending' = pending /\ committed' = committed \cup {<<r, i>>} BY <1>5 DEF Keep
  <2>2. Functions'
    <3>1. <<r, i>> \in Requests \X Nat BY <1>1, <1>2
    <3>2. committed' \subseteq Requests \X Nat BY <3>1, <2>1, <1>0 DEF Functions
    <3> QED BY <3>2, <2>1, <1>0 DEF Functions
  <2>3. \A q \in Requests \ {r} : Same(q) BY <2>1, <1>0 DEF Functions, Same
  <2>4. Saved(r)' = Saved(r) \cup {i} BY <2>1, <1>1, <1>5 DEF Saved, Writes
  <2>5. Outcome(r)' BY <2>1, <2>4, <1>0, <1>1, <1>5 DEF Outcome, Transaction, Separate, Full
  <2> QED BY <2>2, <2>3, <2>5, <1>1, Step
<1> QED BY <1>3, <1>4, <1>5

LEMMA SucceedStep ==
  ASSUME IInv, NEW r \in Requests, NEW i \in Numbers(r), Succeed(r, i) PROVE IInv'
<1>1. named' = [named EXCEPT ![r] = IF "ok" = "ok" THEN @ \cup {i} ELSE @] BY DEF Succeed
<1> QED BY <1>1, OperationKeeps DEF Succeed

LEMMA FailStep ==
  ASSUME IInv, NEW r \in Requests, NEW i \in Numbers(r), NEW written \in BOOLEAN, Fail(r, i, written)
  PROVE  IInv'
<1>1. named' = [named EXCEPT ![r] = IF "failed" = "ok" THEN @ \cup {i} ELSE @]
  BY DEF Fail, IInv, Functions
<1> QED BY <1>1, OperationKeeps DEF Fail

\* A step that ends a request and rolls its transaction back, or takes a result.
LEMMA TakeStep ==
  ASSUME IInv, NEW r \in Requests, Take(r) PROVE IInv'
<1>0. Functions /\ Work(r) /\ References(r) /\ Outcome(r) BY DEF IInv
<1>1. PICK i \in Numbers(r) :
        /\ i = Len(results[r]) + 1 /\ Ended(r, i)
        /\ results' = [results EXCEPT ![r] = Append(@, Result(r, i))]
        /\ IF mode[r] = "POST" /\ step[r][i] # "ok"
           THEN Rollback(r) /\ answer' = [answer EXCEPT ![r] = "502"]
           ELSE UNCHANGED <<pending, answer>>
  BY DEF Take
<1>2. answer[r] = "none" /\ UNCHANGED <<mode, ops, step, named, used, committed>> BY DEF Take, progress
<1>3. /\ results[r] \in Seq([of : Nat, status : Steps])
      /\ Result(r, i) \in [of : Nat, status : Steps]
  <2>1. i \in Nat BY <1>0, Lengths DEF Numbers
  <2>2. step[r][i] \in Steps BY <1>0 DEF Work, Shape
  <2> QED BY <2>1, <2>2, <1>0 DEF Functions, Result
<1>4. /\ results'[r] = Append(results[r], Result(r, i))
      /\ results'[r] \in Seq([of : Nat, status : Steps])
      /\ Len(results'[r]) = i /\ Len(results[r]) \in Nat
      /\ \A k \in 1..Len(results[r]) : results'[r][k] = results[r][k]
      /\ results'[r][i] = Result(r, i)
  BY <1>0, <1>1, <1>3 DEF Functions
<1>5. /\ pending' \in [Requests -> SUBSET Nat]
      /\ \A q \in Requests \ {r} : pending'[q] = pending[q] /\ answer'[q] = answer[q]
      /\ answer' \in [Requests -> Answers]
      /\ \/ mode[r] = "POST" /\ step[r][i] # "ok" /\ answer'[r] = "502"
         \/ ~(mode[r] = "POST" /\ step[r][i] # "ok") /\ answer'[r] = "none" /\ pending'[r] = pending[r]
  BY <1>0, <1>1, <1>2 DEF Functions, Rollback, Answers
<1>6. Functions' BY <1>0, <1>1, <1>2, <1>4, <1>5 DEF Functions
<1>7. \A q \in Requests \ {r} : Same(q) BY <1>0, <1>1, <1>2, <1>5 DEF Functions, Same
<1>8. /\ Numbers(r)' = Numbers(r) /\ Parallel(r)' = Parallel(r) /\ Running(r)' = Running(r)
      /\ Writes(r)' = Writes(r) /\ Saved(r)' = Saved(r) /\ Done(r)' = Done(r) /\ Tried(r)' = Tried(r)
  BY <1>2 DEF Numbers, Parallel, Running, Writes, Saved, Done, Tried
<1>9. Work(r)'
  <2>1. Shape(r)' /\ InOrder(r)' BY <1>0, <1>2, <1>8 DEF Work, Shape, InOrder
  <2>2. OneByOne(r)'
    <3>1. Len(results'[r]) + 1 = Len(results[r]) + 2 BY <1>1, <1>4
    <3>2. \A j \in Numbers(r) : j \in Nat BY <1>0, Lengths DEF Numbers
    <3> QED BY <3>1, <3>2, <1>0, <1>2, <1>4, <1>8 DEF Work, OneByOne
  <2>3. Taken(r)'
    <3>1. Len(results'[r]) <= Len(ops[r]) BY <1>1, <1>4 DEF Numbers
    <3>2. ASSUME NEW k \in 1..i
          PROVE  results'[r][k].of = k /\ Ended(r, k) /\ results'[r][k].status = step[r][k]
      <4>1. CASE k = i BY <4>1, <1>1, <1>4 DEF Result
      <4>2. CASE k # i BY <4>2, <1>0, <1>1, <1>4 DEF Work, Taken
      <4> QED BY <4>1, <4>2
    <3> QED BY <3>1, <3>2, <1>2, <1>4 DEF Taken, Ended
  <2>4. Limited(r)' BY <1>0, <1>8 DEF Work, Limited
  <2> QED BY <2>1, <2>2, <2>3, <2>4 DEF Work
<1>10. References(r)' BY <1>0, <1>2, <1>8 DEF References, Referred, Resolved
<1>11. Outcome(r)'
  <2>1. ASSUME Good(r), step[r][i] = "ok" PROVE Good(r)'
    <3> SUFFICES ASSUME NEW k \in 1..i PROVE results'[r][k].status = "ok" BY <1>4 DEF Good
    <3>1. CASE k = i BY <3>1, <2>1, <1>4 DEF Result
    <3>2. CASE k # i BY <3>2, <2>1, <1>1, <1>4 DEF Good
    <3> QED BY <3>1, <3>2
  <2> QED BY <2>1, <1>0, <1>2, <1>5, <1>8 DEF Outcome, Transaction, Separate, Full
<1> QED BY <1>6, <1>7, <1>9, <1>10, <1>11, Step

\* Of the last steps of a request only the answer and the database depend.
LEMMA EndStep ==
  ASSUME IInv, NEW r \in Requests,
         \/ Complete(r) /\ mode[r] = "POST" /\ answer' = [answer EXCEPT ![r] = "502"] /\ committed' = committed
         \/ /\ answer[r] \in {"none", "done"} /\ answer' = [answer EXCEPT ![r] = "lost"]
            /\ committed' = committed
         \/ /\ Complete(r) /\ answer' = [answer EXCEPT ![r] = "done"]
            /\ committed' = committed \cup {<<r, i>> : i \in pending[r]}
         \/ answer[r] = "done" /\ answer' = [answer EXCEPT ![r] = "200"] /\ committed' = committed,
         \/ pending' = [pending EXCEPT ![r] = {}]
         \/ pending' = pending /\ answer[r] = "done",
         UNCHANGED <<mode, ops, step, named, used, results>>
  PROVE  IInv'
<1>0. Functions /\ Work(r) /\ References(r) /\ Outcome(r) BY DEF IInv
<1>1. /\ Numbers(r)' = Numbers(r) /\ Parallel(r)' = Parallel(r) /\ Running(r)' = Running(r)
      /\ Writes(r)' = Writes(r) /\ Done(r)' = Done(r) /\ Tried(r)' = Tried(r)
  BY DEF Numbers, Parallel, Running, Writes, Done, Tried
<1>2. Numbers(r) \subseteq Nat BY <1>0, Lengths DEF Numbers
<1>3. /\ pending[r] \subseteq Nat /\ pending'[r] \in {{}, pending[r]}
      /\ pending' \in [Requests -> SUBSET Nat] /\ \A q \in Requests \ {r} : pending'[q] = pending[q]
  BY <1>0 DEF Functions
<1>4. Functions'
  <2>1. committed' \subseteq Requests \X Nat BY <1>0, <1>3 DEF Functions
  <2>2. answer' \in [Requests -> Answers] BY <1>0 DEF Functions, Answers
  <2> QED BY <2>1, <2>2, <1>0, <1>3 DEF Functions
<1>5. \A q \in Requests \ {r} : Same(q)
  <2>1. \A q \in Requests \ {r} : answer'[q] = answer[q] BY <1>0 DEF Functions
  <2>2. \A q \in Requests \ {r} : \A i \in Nat : <<q, i>> \in committed' <=> <<q, i>> \in committed
    OBVIOUS
  <2> QED BY <2>1, <2>2, <1>3 DEF Same
<1>6. Work(r)' BY <1>0, <1>1 DEF Work, Shape, InOrder, OneByOne, Taken, Ended, Limited
<1>7. References(r)' BY <1>0, <1>1 DEF References, Referred, Resolved
<1>8. Outcome(r)'
  <2>1. CASE answer'[r] = "done" /\ committed' = committed \cup {<<r, i>> : i \in pending[r]} /\ Complete(r)
    <3>1. Saved(r)' = Saved(r) \cup (pending[r] \cap Numbers(r)) BY <2>1, <1>1 DEF Saved
    <3>2. Full(r)' BY <2>1 DEF Complete, Full
    <3>3. CASE mode[r] # "POST"
      BY <3>1, <3>2, <3>3, <2>1, <1>0, <1>1, <1>3 DEF Outcome, Transaction, Separate
    <3>4. CASE mode[r] = "POST"
      <4>1. /\ Good(r) /\ Saved(r) = {}
            /\ Done(r) \subseteq pending[r] /\ pending[r] \subseteq Tried(r)
        BY <3>4, <2>1, <1>0 DEF Outcome, Transaction, Complete
      <4>2. \A i \in Numbers(r) : step[r][i] = "ok"
        BY <4>1, <2>1, <1>0 DEF Good, Complete, Work, Taken, Numbers
      <4>3. Done(r) = Writes(r) /\ Tried(r) = Writes(r) /\ Done(r) \subseteq Numbers(r)
        BY <4>2 DEF Done, Tried, Writes
      <4>4. Good(r)' BY <4>1 DEF Good
      <4>5. Saved(r)' = Writes(r) BY <4>1, <4>3, <3>1
      <4> QED BY <4>4, <4>5, <3>2, <3>4, <2>1, <1>1 DEF Outcome, Transaction, Separate
    <3> QED BY <3>3, <3>4
  <2>2. CASE /\ committed' = committed
             /\ \/ answer[r] \in {"none", "done"} /\ answer'[r] = "lost"
                \/ answer[r] = "none" /\ answer'[r] = "502" /\ mode[r] = "POST"
                \/ answer[r] = "done" /\ answer'[r] = "200"
    <3>1. Saved(r)' = Saved(r) BY <2>2, <1>1 DEF Saved
    <3>2. Good(r)' = Good(r) BY DEF Good
    <3> QED BY <3>1, <3>2, <2>2, <1>0, <1>1, <1>3 DEF Outcome, Transaction, Separate, Full
  <2> QED BY <2>1, <2>2, <1>0 DEF Functions, Complete
<1> QED BY <1>4, <1>5, <1>6, <1>7, <1>8, Step

LEMMA InitInv == Init => IInv
<1> SUFFICES ASSUME Init PROVE IInv OBVIOUS
<1>1. Functions BY DEF Init, Functions, Answers
<1>2. ASSUME NEW r \in Requests PROVE Work(r) /\ References(r) /\ Outcome(r)
  <2>1. /\ step[r] = [i \in Numbers(r) |-> "queued"] /\ results[r] = <<>> /\ named[r] = {}
        /\ used[r] = [i \in Numbers(r) |-> 0] /\ pending[r] = {} /\ answer[r] = "none" /\ committed = {}
    BY DEF Init
  <2>2. Running(r) = {} /\ Done(r) = {} /\ Tried(r) = {} /\ Saved(r) = {}
    BY <2>1 DEF Running, Done, Tried, Saved, Writes
  <2>3. Limited(r) BY <2>2, FS_EmptySet DEF Limited
  <2>4. Work(r) BY <2>1, <2>3, <1>1, Lengths DEF Work, Shape, InOrder, OneByOne, Taken, Steps
  <2>5. References(r) BY <2>1 DEF References, Referred, Resolved
  <2>6. Outcome(r) BY <2>1, <2>2 DEF Outcome, Transaction, Separate, Full, Good
  <2> QED BY <2>4, <2>5, <2>6
<1> QED BY <1>1, <1>2 DEF IInv

LEMMA NextInv == IInv /\ [Next]_vars => IInv'
<1> SUFFICES ASSUME IInv, [Next]_vars PROVE IInv' OBVIOUS
<1>1. CASE UNCHANGED vars
  <2>1. Functions' BY <1>1 DEF IInv, Functions, vars, progress
  <2>2. \A q \in Requests : Same(q) BY <1>1 DEF Same, vars, progress
  <2> QED BY <2>1, <2>2, Frame DEF IInv
<1>2. ASSUME NEW r \in Requests, NEW i \in Numbers(r), Operate(r, i) PROVE IInv'
  BY <1>2, ValidateStep, SucceedStep, FailStep DEF Operate
<1>3. ASSUME NEW r \in Requests, Take(r) PROVE IInv' BY <1>3, TakeStep
<1>4. ASSUME NEW r \in Requests, Commit(r) \/ Respond(r) PROVE IInv'
  BY <1>4, EndStep DEF Commit, Respond, Rollback, progress
<1>5. ASSUME NEW r \in Requests, CommitFails(r) PROVE IInv'
  BY <1>5, EndStep DEF CommitFails, Rollback, progress
<1>6. ASSUME NEW r \in Requests, Die(r) PROVE IInv'
  BY <1>6, EndStep DEF Die, Rollback, progress
<1> QED BY <1>1, <1>2, <1>3, <1>4, <1>5, <1>6 DEF Next

LEMMA Invariant == Spec => []IInv
<1> QED BY InitInv, NextInv, PTL DEF Spec

\* The state keeps its shape, and the pool its limit.
THEOREM BulkTypeCorrect == Spec => []BulkTypeOK
<1>1. IInv => BulkTypeOK
  <2> SUFFICES ASSUME IInv PROVE BulkTypeOK OBVIOUS
  <2>1. Functions BY DEF IInv
  <2>2. ASSUME NEW r \in Requests PROVE Shape(r) /\ Limited(r) BY DEF IInv, Work
  <2> QED BY <2>1, <2>2 DEF BulkTypeOK, Functions, Shape, Limited
<1> QED BY <1>1, Invariant, PTL

\* post: of a transaction either nothing is left behind or everything, and that
\* only where all operations have ended, whatever fails or dies and whoever
\* else is served.
THEOREM TransactionIsAtomic == Spec => []AllOrNothing
<1>1. IInv => AllOrNothing BY DEF IInv, Functions, Answers, Outcome, Transaction, AllOrNothing
<1> QED BY <1>1, Invariant, PTL

\* put: the results are those of the operations, in their order, and a success
\* in them has been saved, also when errors of views keep what they wrote.
THEOREM ResultsAreTrue == Spec => []AnswerTellsOutcome
<1>1. IInv => AnswerTellsOutcome
  <2> SUFFICES ASSUME IInv, NEW r \in Requests
               PROVE  /\ answer[r] = "200" =>
                           /\ Len(results[r]) = Len(ops[r])
                           /\ \A i \in Numbers(r) :
                                /\ results[r][i].of = i
                                /\ i \in Writes(r) /\ results[r][i].status = "ok" => i \in Saved(r)
                                /\ results[r][i].status = "invalid" => i \notin Saved(r)
                      /\ answer[r] = "502" => Saved(r) = {}
    BY DEF AnswerTellsOutcome
  <2>1. Work(r) /\ Outcome(r) BY DEF IInv
  <2>2. ASSUME answer[r] = "200"
        PROVE  /\ Len(results[r]) = Len(ops[r])
               /\ \A i \in Numbers(r) : results[r][i].of = i /\ results[r][i].status = step[r][i]
    BY <2>1, <2>2 DEF Outcome, Full, Work, Taken, Numbers
  <2>3. ASSUME answer[r] = "200", NEW i \in Numbers(r)
        PROVE  /\ i \in Writes(r) /\ step[r][i] = "ok" => i \in Saved(r)
               /\ step[r][i] = "invalid" => i \notin Saved(r)
    <3>1. CASE mode[r] = "POST"
      <4>1. Saved(r) = Writes(r) /\ Good(r) BY <3>1, <2>1, <2>3 DEF Outcome, Transaction
      <4>2. results[r][i].status = "ok" BY <4>1, <2>2, <2>3 DEF Good, Numbers
      <4> QED BY <4>1, <4>2, <2>2, <2>3
    <3>2. CASE mode[r] # "POST"
      BY <3>2, <2>1 DEF Outcome, Separate, Done, Tried, Writes
    <3> QED BY <3>1, <3>2
  <2>4. answer[r] = "502" => Saved(r) = {} BY <2>1 DEF Outcome, Transaction, Separate
  <2> QED BY <2>2, <2>3, <2>4
<1> QED BY <1>1, Invariant, PTL

\* In sequence, a reference to an earlier success is always replaced.
THEOREM EarlierResultsAreFound == Spec => []PreviousResultsResolve
<1>1. IInv => PreviousResultsResolve
  BY DEF IInv, References, Resolved, PreviousResultsResolve
<1> QED BY <1>1, Invariant, PTL

\* And with threads too, a reference never gets the result of another operation.
THEOREM ReferencesAreRight == Spec => []ReferenceIsTheNamed
<1>1. IInv => ReferenceIsTheNamed BY DEF IInv, References, Referred, ReferenceIsTheNamed
<1> QED BY <1>1, Invariant, PTL
=============================================================================
