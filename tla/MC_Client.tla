----------------------------- MODULE MC_Client ------------------------------
(* Model checking of ClientSession. *)
EXTENDS ClientSession
=============================================================================
