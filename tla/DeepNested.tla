------------------------------ MODULE DeepNested ------------------------------
(***************************************************************************)
(* get_parents and get_children of a queryset over a model whose objects   *)
(* have parents of its own (vstutils/models/queryset.py), by both of their *)
(* ways: one recursive query (WITH RECURSIVE), and for databases that have *)
(* none (DATABASES_WITHOUT_CTE_SUPPORT) a query per level.                 *)
(*                                                                         *)
(* The parent field is a foreign key or many-to-many; nothing keeps either *)
(* free of cycles.  The table does not change while it is read, and the    *)
(* queryset is not sliced.                                                 *)
(***************************************************************************)
CONSTANTS
  Nodes,   \* the objects
  Tables   \* the parent relations considered, as sets of <<child, parent>>

ASSUME TablesAssumption == \A t \in Tables : t \subseteq Nodes \X Nodes

VARIABLES
  table,   \* the parents of the objects
  start,   \* the queryset the method is called on
  children,  \* deep_children: the children are wanted, or the parents
  current,   \* with_current
  cte,       \* the database can do recursive queries
  rows,    \* NRQ777, as the results of its rows
  work,    \* the rows the last round has added
  acc,     \* accumulated
  level,   \* self of the call for the next level
  done,    \* the method has returned
  result   \* what it has returned

question == <<table, start, children, current, cte>>
deepVars == <<question, rows, work, acc, level, done, result>>

\* One step down, or up: sql_column_to_get where sql_deep_column is in S.
Related(S) ==
  IF children THEN {n \in Nodes : \E s \in S : <<n, s>> \in table}
  ELSE {n \in Nodes : \E s \in S : <<s, n>> \in table}

\* _get_deep_qs: which way is taken.
FirstLevel == IF cte THEN {} ELSE start

DeepInit ==
  /\ table \in Tables /\ start \in SUBSET Nodes
  /\ children \in BOOLEAN /\ current \in BOOLEAN /\ cte \in BOOLEAN
  /\ rows = IF cte THEN Related(start) ELSE {}
  /\ work = rows
  /\ acc = {} /\ level = FirstLevel
  /\ done = FALSE /\ result = {}

-----------------------------------------------------------------------------
(* _get_deep_nested_qs_with_cte *)

\* A mutant of Added: UNION ALL.
AddedAll == Related(work)

\* UNION keeps only rows that are new; one with a known result leads nowhere new.
Added == Related(work) \ rows

Recurse ==
  /\ cte /\ work # {}
  /\ work' = Added
  /\ rows' = rows \cup Added
  /\ UNCHANGED <<question, acc, level, done, result>>

\* A mutant of Selected: the current objects are forgotten.
SelectedBelow == rows

Selected == rows \cup (IF current THEN start ELSE {})

Select ==
  /\ cte /\ work = {} /\ ~done
  /\ done' = TRUE /\ result' = Selected
  /\ UNCHANGED <<question, rows, work, acc, level>>

-----------------------------------------------------------------------------
(* _deep_nested_ids_without_cte *)

\* self.exclude: an object is listed once.
Listed == level \ acc

\* One call of the recursion; there is another one if the level has any.
Descend ==
  /\ ~cte /\ level # {} /\ ~done
  /\ acc' = acc \cup Listed
  /\ level' = Related(Listed)
  /\ UNCHANGED <<question, rows, work, done, result>>

\* A mutant of Filtered: with_current is not looked at.
FilteredNever == acc

Filtered == IF current THEN acc ELSE acc \ start

Filter ==
  /\ ~cte /\ level = {} /\ ~done
  /\ done' = TRUE /\ result' = Filtered
  /\ UNCHANGED <<question, rows, work, acc, level>>

DeepNext == Recurse \/ Select \/ Descend \/ Filter

DeepSpec == DeepInit /\ [][DeepNext]_deepVars

\* It is one computation, which goes on.
DeepFairSpec == DeepSpec /\ WF_deepVars(DeepNext)

-----------------------------------------------------------------------------
\* The objects below, or above, those of a set, however far: the smallest set
\* that has those related to them and to itself.
Closed(S, T) == Related(S) \subseteq T /\ Related(T) \subseteq T

Below(S) == {n \in Nodes : \A T \in SUBSET Nodes : Closed(S, T) => n \in T}

\* The shape of the state; each way leaves the other's variables alone.
DeepTypeOK ==
  /\ table \in Tables /\ start \subseteq Nodes
  /\ {children, current, cte, done} \subseteq BOOLEAN
  /\ rows \subseteq Nodes /\ work \subseteq rows /\ acc \subseteq Nodes /\ level \subseteq Nodes
  /\ ~done \/ result \subseteq Nodes
  /\ IF cte THEN acc = {} /\ level = {} ELSE rows = {}

\* Nothing is missing and nothing is foreign, in cycles and diamonds too; only
\* whether the current objects are there when they are not asked for depends.
SubtreeIsComplete ==
  done =>
    /\ Below(start) \ start \subseteq result
    /\ result \subseteq Below(start) \cup start
    /\ current => start \subseteq result

\* With the current objects, or if none of them is below another, both ways
\* return the same, which the tests of the repository require of a single one.
BothWaysAgree ==
  done /\ (current \/ start \cap Below(start) = {}) =>
    result = Below(start) \cup (IF current THEN start ELSE {})

\* In a cycle of parents the query ends like in a tree.
QueryEnds == <>done
=============================================================================
