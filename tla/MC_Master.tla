----------------------------- MODULE MC_Master ------------------------------
(* Model checking of MasterService: symmetry of the small instances. *)
EXTENDS MasterAccounting, TLC

\* The calls of one RPC differ in nothing but their arguments, and no
\* definition prefers a worker or a hash.
Symmetry ==
  Permutations(Hashes) \cup Permutations(Workers) \cup Permutations(Allocs)
    \cup Permutations(Notifies) \cup Permutations(Registers)
=============================================================================
