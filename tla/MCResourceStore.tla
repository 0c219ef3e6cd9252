---------------------------- MODULE MCResourceStore ----------------------------
(* Small sets of resources, values and concurrent requests for             *)
(* ResourceStore: x and y have a contract, z has none.                     *)
EXTENDS ResourceStore, TLC

CONSTANTS x, y, z, good, other, bad, c1, c2

MCMeets == [n \in Declared |-> Value \ {bad}]

Symmetry == Permutations({c1, c2})
=============================================================================
