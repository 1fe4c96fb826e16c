----------------------------- MODULE MC_Transfer -----------------------------
(* Model checking of BlobTransfer: symmetry of the small instances. *)
EXTENDS BlobTransfer, TLC

\* Uploads, names and bytes differ in nothing but what they are called.
Symmetry == Permutations(Uploads) \cup Permutations(Names) \cup Permutations(Bytes)
=============================================================================
