---------------------------- MODULE BlobCatalog -----------------------------
(***************************************************************************)
(* What the masters promise about the copies of blobs, whatever calls are  *)
(* in flight: a copy is placed on a worker once, is confirmed only after   *)
(* it was placed, is never taken back to being created, and disappears     *)
(* only together with every copy of the same blob (DeleteBlob) or every    *)
(* copy of the same worker (RegisterWorker of a restarted worker).         *)
(***************************************************************************)
CONSTANTS Hashes, Workers

VARIABLE catalog   \* catalog[h][w]: the state of the copy of h on w

Init == catalog = [h \in Hashes |-> [w \in Workers |-> "none"]]

Place(h, w) ==
  /\ catalog[h][w] = "none"
  /\ catalog' = [catalog EXCEPT ![h][w] = "DURING_CREATION"]

Confirm(h, w) ==
  /\ catalog[h][w] = "DURING_CREATION"
  /\ catalog' = [catalog EXCEPT ![h][w] = "SAVED"]

Forget(h) == catalog' = [catalog EXCEPT ![h] = [w \in Workers |-> "none"]]

Expel(w) == catalog' = [h \in Hashes |-> [catalog[h] EXCEPT ![w] = "none"]]

Next ==
  \/ \E h \in Hashes, w \in Workers : Place(h, w) \/ Confirm(h, w)
  \/ \E h \in Hashes : Forget(h)
  \/ \E w \in Workers : Expel(w)

Spec == Init /\ [][Next]_catalog
=============================================================================
