-------------------------- MODULE MCMigrationLock --------------------------
(* Model checking of MigrationLock: each node has two Lock objects and a
   third for those of its killed containers. *)
EXTENDS MigrationLock

MCLockers == Nodes \X {0, 1, 2}
=============================================================================
