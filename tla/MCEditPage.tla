------------------------------ MODULE MCEditPage ------------------------------
(* Model checking of EditPage: a foreign key and a plain field. *)
EXTENDS EditPage

CONSTANT v1

MCViews == {[partial |-> TRUE, sameModel |-> FALSE], [partial |-> TRUE, sameModel |-> TRUE],
  [partial |-> FALSE, sameModel |-> TRUE]}

MCFirstRow == [f \in Fields |-> v1]
=============================================================================
