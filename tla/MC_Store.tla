------------------------------ MODULE MC_Store ------------------------------
(* Model checking of BlobStore: symmetry of the small instances. *)
EXTENDS BlobStore, TLC

\* Workers, uploads and registrations differ in nothing but their names.
Symmetry == Permutations(Workers) \cup Permutations(Uploads) \cup Permutations(Boots)
=============================================================================
