----------------------------- MODULE MC_Worker ------------------------------
(* Model checking of the worker: calls for one blob, which some of them misname. *)
EXTENDS OneWriter

CONSTANTS
  Named,        \* the hash every call names
  Misnaming     \* the SaveBlob calls that may stream another blob

MC_Init ==
  /\ OrderlyInit
  /\ \A s \in Saves : save[s].hash = Named
  /\ \A s \in Saves \ Misnaming : save[s].blob = Named
  /\ \A g \in Gets : get[g].hash = Named
  /\ \A d \in Deletes : delete[d].hash = Named

MC_Spec == MC_Init /\ [][OrderlyNext]_<<vars, orderly>>

MC_FairSpec == MC_Spec /\ Fairness
=============================================================================
