------------------------------ MODULE MasterDb ------------------------------
(***************************************************************************)
(* The two Spanner tables the masters share and the repository operations  *)
(* on them (src/master/master_db_repository.cpp).  Every operation of the  *)
(* repository is one query or one commit, so it is one step of whoever     *)
(* calls it; here it is an operator from table to table.  A mutation that  *)
(* fails (Insert of an existing key, Update of a missing one) has no       *)
(* value: its caller tests HasCopy or Registered first.                    *)
(*                                                                         *)
(* The schema is not in the repository.  The keys are those the code       *)
(* relies on: worker_state is keyed by worker_address (MakeKey in          *)
(* deleteWorkerState), blob_copy by (hash, worker_address), since one hash *)
(* has a row per worker and updateBlobEntry changes the other columns.     *)
(* last_heartbeat_epoch_ts is written as 0 and never read: left out.       *)
(***************************************************************************)
EXTENDS Integers, FiniteSets

CONSTANTS
  Hashes,     \* blob hashes
  Workers     \* worker addresses

DURING_CREATION == "DURING_CREATION"
SAVED == "SAVED"

\* A row of blob_copy; NoCopy stands for the absence of one.
BlobCopyDTO == [state : {"none", DURING_CREATION, SAVED}, size_mb : Int]
NoCopy == [state |-> "none", size_mb |-> 0]

\* A row of worker_state; NoWorker stands for the absence of one.
WorkerStateDTO == [registered : BOOLEAN, available_space_mb : Int, locked_space_mb : Int]
NoWorker == [registered |-> FALSE, available_space_mb |-> 0, locked_space_mb |-> 0]

BlobCopyTable == [Hashes -> [Workers -> BlobCopyDTO]]
WorkerStateTable == [Workers -> WorkerStateDTO]

HasCopy(copies, h, w) == copies[h][w].state # "none"
Registered(states, w) == states[w].registered

-----------------------------------------------------------------------------
(* blob_copy *)

\* InsertMutation: only of a key that has no row.
addBlobEntry(copies, h, w, size) ==
  [copies EXCEPT ![h][w] = [state |-> DURING_CREATION, size_mb |-> size]]

\* Slip: the row is written back as it was read (blob.state never set).
updateBlobEntry_KeepsState(copies, h, w, size) ==
  [copies EXCEPT ![h][w] = [state |-> DURING_CREATION, size_mb |-> size]]

\* UpdateMutation, as its one caller uses it: the row read, with state SAVED.
updateBlobEntry(copies, h, w, size) ==
  [copies EXCEPT ![h][w] = [state |-> SAVED, size_mb |-> size]]

\* Slip: ... WHERE hash = $1, whatever the state.
querySavedBlobByHash_AnyState(copies, h) == {w \in Workers : HasCopy(copies, h, w)}

querySavedBlobByHash(copies, h) == {w \in Workers : copies[h][w].state = SAVED}

queryBlobByHashAndWorkerId(copies, h, w) == copies[h][w]

deleteBlobEntryByHash(copies, h) == [copies EXCEPT ![h] = [w \in Workers |-> NoCopy]]

deleteBlobEntriesByWorkerAddress(copies, w) ==
  [h \in Hashes |-> [copies[h] EXCEPT ![w] = NoCopy]]

-----------------------------------------------------------------------------
(* worker_state *)

\* Slip: the column locked_space_mb is forgotten.
addWorkerState_NoLocked(states, w, space) ==
  [states EXCEPT ![w] = [registered |-> TRUE, available_space_mb |-> space]]

addWorkerState(states, w, space) ==
  [states EXCEPT ![w] = [registered |-> TRUE,
                         available_space_mb |-> space,
                         locked_space_mb |-> 0]]

updateWorkerState(states, w, row) == [states EXCEPT ![w] = row]

deleteWorkerState(states, w) == [states EXCEPT ![w] = NoWorker]

getWorkerState(states, w) == states[w]

\* What the master takes to be free on a worker.
FreeSpace(row) == row.available_space_mb - row.locked_space_mb

\* Slip: the test that the query returned n rows is missing.
getWorkersWithFreeSpace_Fewer(states, spaceNeeded, n) ==
  LET matching == {w \in Workers : /\ Registered(states, w)
                                   /\ FreeSpace(states[w]) >= spaceNeeded}
  IN  {chosen \in SUBSET matching : chosen # {} /\ Cardinality(chosen) <= n}

\* The answers SELECT ... WHERE ... LIMIT n may give when n rows match: the
\* query has no ORDER BY, so any n of them.  Empty when fewer match, which is
\* the RESOURCE_EXHAUSTED return.
getWorkersWithFreeSpace(states, spaceNeeded, n) ==
  LET matching == {w \in Workers : /\ Registered(states, w)
                                   /\ FreeSpace(states[w]) >= spaceNeeded}
  IN  {chosen \in SUBSET matching : Cardinality(chosen) = n}
=============================================================================
