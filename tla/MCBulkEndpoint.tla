--------------------------- MODULE MCBulkEndpoint ---------------------------
(* Model checking of BulkEndpoint. *)
EXTENDS BulkEndpoint

CONSTANTS a, b

Op(row, by, to) == [row |-> row, by |-> by, to |-> to]

\* More operations than threads, and a use of a number; the same rows in the
\* other order, and a use of a name, of a later result's name and of a failed one.
MCPrograms == {
  <<Op(b, "none", 1), Op(a, "none", 1), Op(NoRow, "number", 1)>>,
  <<Op(a, "name", 2), Op(b, "none", 1)>>,
  <<Op(NoRow, "none", 1), Op(a, "name", 1)>>}
=============================================================================
