---------------------------- MODULE DurableStore ----------------------------
(***************************************************************************)
(* What the system promises its clients: a store that keeps whole copies   *)
(* of blobs on workers.  A copy it answers for stays until its blob is     *)
(* deleted, its worker restarts or the worker's disk does not take it;     *)
(* from then on the copy is in doubt, and nothing is promised of it.  An   *)
(* upload is acknowledged with all its copies; a download answered OK is   *)
(* of an uploaded blob, and whole unless a copy is in doubt.  How that     *)
(* comes about (rows and files, messages, allocations and notifications)   *)
(* is left open.                                                           *)
(***************************************************************************)
EXTENDS Naturals, FiniteSets

CONSTANTS Hashes, Workers, Replicas,
  Puts, Gets   \* uploads and downloads

VARIABLES
  kept,        \* copies the store answers for, as pairs of a blob and a worker
  deleted,     \* blobs of which a deletion has begun
  restarted,   \* workers that have lost their files
  torn,        \* copies some of which a disk has not taken, as such pairs
  put, got     \* the calls of clients

Init ==
  /\ kept = {}
  /\ deleted = {}
  /\ restarted = {}
  /\ torn = {}
  /\ put \in [Puts -> [hash : Hashes, pc : {"idle"}]]
  /\ got \in [Gets -> [hash : Hashes, pc : {"idle"}]]

InDoubt(h, w) == h \in deleted \/ w \in restarted \/ <<h, w>> \in torn

WasPut(h) == \E p \in Puts : put[p].hash = h /\ put[p].pc # "idle"

-----------------------------------------------------------------------------
(* Copies *)

\* A copy of a blob some client uploads is complete and announced.
Keep(h, w) ==
  /\ WasPut(h)
  /\ ~InDoubt(h, w)
  /\ kept' = kept \cup {<<h, w>>}
  /\ UNCHANGED <<deleted, restarted, torn, put, got>>

Delete(h) ==
  /\ deleted' = deleted \cup {h}
  /\ kept' = kept \ ({h} \X Workers)
  /\ UNCHANGED <<restarted, torn, put, got>>

Restart(w) ==
  /\ restarted' = restarted \cup {w}
  /\ kept' = kept \ (Hashes \X {w})
  /\ UNCHANGED <<deleted, torn, put, got>>

Tear(h, w) ==
  /\ torn' = torn \cup {<<h, w>>}
  /\ kept' = kept \ {<<h, w>>}
  /\ UNCHANGED <<deleted, restarted, put, got>>

-----------------------------------------------------------------------------
(* Uploads *)

AskPut(p) ==
  /\ put[p].pc = "idle"
  /\ put' = [put EXCEPT ![p].pc = "asked"]
  /\ UNCHANGED <<kept, deleted, restarted, torn, got>>

\* Only with as many copies as were asked for, but for those in doubt.
Acknowledge(p) ==
  /\ put[p].pc = "asked"
  /\ \E ws \in SUBSET Workers :
       /\ Cardinality(ws) = Replicas
       /\ \A w \in ws : <<put[p].hash, w>> \in kept \/ InDoubt(put[p].hash, w)
  /\ put' = [put EXCEPT ![p].pc = "ok"]
  /\ UNCHANGED <<kept, deleted, restarted, torn, got>>

\* What was stored for it so far may stay.
Refuse(p) ==
  /\ put[p].pc \in {"idle", "asked"}
  /\ put' = [put EXCEPT ![p].pc = "error"]
  /\ UNCHANGED <<kept, deleted, restarted, torn, got>>

-----------------------------------------------------------------------------
(* Downloads *)

AskGet(g) ==
  /\ got[g].pc = "idle"
  /\ got' = [got EXCEPT ![g].pc = "asked"]
  /\ UNCHANGED <<kept, deleted, restarted, torn, put>>

\* The answer is OK and comes with all of the blob.
Relay(g) ==
  /\ got[g].pc = "asked"
  /\ WasPut(got[g].hash)
  /\ \E w \in Workers : <<got[g].hash, w>> \in kept \/ InDoubt(got[g].hash, w)
  /\ got' = [got EXCEPT ![g].pc = "whole"]
  /\ UNCHANGED <<kept, deleted, restarted, torn, put>>

\* The answer is OK, and what came with it is not the blob.
RelayPart(g) ==
  /\ got[g].pc = "asked"
  /\ WasPut(got[g].hash)
  /\ \E w \in Workers : InDoubt(got[g].hash, w)
  /\ got' = [got EXCEPT ![g].pc = "part"]
  /\ UNCHANGED <<kept, deleted, restarted, torn, put>>

\* A stream breaks, which may look like its end ("cut"), or the call is refused.
Break(g) ==
  /\ \/ got[g].pc = "asked" /\ \E pc \in {"cut", "error"} : got' = [got EXCEPT ![g].pc = pc]
     \/ got[g].pc = "idle" /\ got' = [got EXCEPT ![g].pc = "error"]
  /\ UNCHANGED <<kept, deleted, restarted, torn, put>>

-----------------------------------------------------------------------------
vars == <<kept, deleted, restarted, torn, put, got>>

\* Most steps of a system no client sees.
Next ==
  \/ UNCHANGED vars
  \/ \E h \in Hashes, w \in Workers : Keep(h, w) \/ Tear(h, w)
  \/ \E h \in Hashes : Delete(h)
  \/ \E w \in Workers : Restart(w)
  \/ \E p \in Puts : AskPut(p) \/ Acknowledge(p) \/ Refuse(p)
  \/ \E g \in Gets : AskGet(g) \/ Relay(g) \/ RelayPart(g) \/ Break(g)

Spec == Init /\ [][Next]_vars
=============================================================================
