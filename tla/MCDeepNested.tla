----------------------------- MODULE MCDeepNested -----------------------------
(* Model checking of DeepNested. *)
EXTENDS DeepNested

CONSTANTS a, b, c, d

\* Any many-to-many relation of three objects; any foreign key of four, of
\* which the last has no parent.
MCTables ==
  SUBSET ({a, b, c} \X {a, b, c}) \cup
  {{e \in {<<n, f[n]>> : n \in {a, b, c}} : e[2] \in Nodes} :
     f \in [{a, b, c} -> Nodes \cup {"null"}]}
=============================================================================
