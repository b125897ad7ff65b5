------------------------------ MODULE MCExecutor ------------------------------
(* Two calls on one object, of processes that print up to two lines and one. *)
EXTENDS Executor, TLC
CONSTANTS e1, e2
MCRuns == {e1, e2}
MCLines == e1 :> 2 @@ e2 :> 1
=============================================================================
