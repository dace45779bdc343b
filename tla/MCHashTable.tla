---------------------------- MODULE MCHashTable ----------------------------
(* A small table: three keys collide in one chain, the fourth has its own. *)
EXTENDS HashTable, TLC

CONSTANTS k1, k2, k3, k4

MCKey  == {k1, k2, k3, k4}
MCHash == [k \in MCKey |-> IF k = k4 THEN 1 ELSE 0]

Symmetry == Permutations(Block) \cup Permutations(Value) \cup Permutations({k1, k2, k3})

=============================================================================
