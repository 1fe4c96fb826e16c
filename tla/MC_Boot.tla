------------------------------ MODULE MC_Boot -------------------------------
(* Model checking of WorkerBoot. *)
EXTENDS WorkerBoot
=============================================================================
