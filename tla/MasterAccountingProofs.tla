----------------------- MODULE MasterAccountingProofs -----------------------
(***************************************************************************)
(* The space accounts of the masters, for any number of calls, workers and *)
(* blobs: what is believed free is never negative (any interleaving), and  *)
(* it covers the copies placed as long as calls are run one at a time.     *)
(***************************************************************************)
EXTENDS MasterAccounting, MasterServiceProofs, FiniteSetTheorems

-----------------------------------------------------------------------------
(* BelievedSpaceNotNegative.  The worker's row is not enough: a handler      *)
(* writes back a row it read long before, so what the calls in flight        *)
(* remember is part of the invariant.                                        *)

RowsFree == \A w \in Workers : FreeSpace(worker_state[w]) >= 0

\* A worker still to be charged had, when it was read, room for the blob.
AllocRoom ==
  \A a \in Allocs : \A w \in alloc[a].todo :
    FreeSpace(alloc[a].rows[w]) >= alloc[a].size

NotifyRowsFree == \A n \in Notifies : FreeSpace(notify[n].row) >= 0

SpaceInv == RowsFree /\ AllocRoom /\ NotifyRowsFree

-----------------------------------------------------------------------------
\* What the two writes do to the space a row leaves: an allocation lowers it by
\* the size of the blob, a notification moves locked space to used space.
LEMMA FreeSpaceOfWrites ==
  ASSUME NEW row \in WorkerStateDTO, NEW size \in Int
  PROVE  /\ FreeSpace(row) \in Int
         /\ FreeSpace(LockedRow(row, size)) = FreeSpace(row) - size
         /\ FreeSpace(ChargedRow(row, size)) = FreeSpace(row)
<1>1. /\ row.available_space_mb \in Int
      /\ row.locked_space_mb \in Int
  BY DEF WorkerStateDTO
<1>2. /\ LockedRow(row, size).available_space_mb = row.available_space_mb
      /\ LockedRow(row, size).locked_space_mb = size + row.locked_space_mb
  BY DEF LockedRow, WorkerStateDTO
<1>3. /\ ChargedRow(row, size).available_space_mb = row.available_space_mb - size
      /\ ChargedRow(row, size).locked_space_mb = row.locked_space_mb - size
  BY DEF ChargedRow, WorkerStateDTO
<1> QED
  BY <1>1, <1>2, <1>3 DEF FreeSpace

LEMMA FreeSpaceOfNoWorker == FreeSpace(NoWorker) = 0
  BY DEF FreeSpace, NoWorker

\* A write of one row that leaves it nonnegative leaves them all so.
LEMMA RowsFreeWrite ==
  ASSUME TypeOK, RowsFree, NEW w \in Workers, NEW row, FreeSpace(row) >= 0,
         worker_state' = [worker_state EXCEPT ![w] = row]
  PROVE  RowsFree'
<1> SUFFICES ASSUME NEW v \in Workers PROVE FreeSpace(worker_state'[v]) >= 0
  BY DEF RowsFree
<1>1. worker_state'[v] = IF v = w THEN row ELSE worker_state[v]
  BY DEF TypeOK, WorkerStateTable
<1> QED
  BY <1>1 DEF RowsFree

\* A call that returns forgets what it read.
LEMMA ReturnAllocRoom ==
  ASSUME TypeOK, AllocRoom, NEW a \in Allocs, NEW status, NEW placed,
         ReturnAlloc(a, status, placed)
  PROVE  AllocRoom'
<1>1. /\ alloc'[a].todo = {}
      /\ \A b \in Allocs : b # a => alloc'[b] = alloc[b]
  BY DEF TypeOK, AllocCall, ReturnAlloc
<1> QED
  BY <1>1 DEF AllocRoom

LEMMA ReturnNotifyRowsFree ==
  ASSUME TypeOK, NotifyRowsFree, NEW n \in Notifies, NEW status,
         ReturnNotify(n, status)
  PROVE  NotifyRowsFree'
<1>1. /\ notify'[n].row = NoWorker
      /\ \A m \in Notifies : m # n => notify'[m] = notify[m]
  BY DEF TypeOK, NotifyCall, ReturnNotify
<1> QED
  BY <1>1, FreeSpaceOfNoWorker DEF NotifyRowsFree

-----------------------------------------------------------------------------
LEMMA SpaceAlloc ==
  ASSUME TypeOK, SpaceInv, NEW a \in Allocs, AllocStep(a)
  PROVE  SpaceInv'
<1>0. RowsFree /\ AllocRoom /\ NotifyRowsFree
  BY DEF SpaceInv
<1>1. NotifyRowsFree'
  BY <1>0 DEF NotifyRowsFree, AllocStep, GetWorkersToSaveBlob, AddBlobEntry, LockSpace
<1>2. /\ alloc[a].size \in Int
      /\ alloc[a].rows \in WorkerStateTable
      /\ alloc[a].todo \subseteq Workers
      /\ alloc \in [Allocs -> AllocCall]
  BY AllocTyping DEF TypeOK
<1>3. CASE GetWorkersToSaveBlob(a)
  <2>1. RowsFree'
    BY <1>0, <1>3 DEF GetWorkersToSaveBlob, RowsFree, tables
  <2>2. ASSUME NEW chosen \in getWorkersWithFreeSpace(worker_state, alloc[a].size, Replicas),
               alloc' = [alloc EXCEPT
                 ![a].pc = "addBlobEntry",
                 ![a].todo = chosen,
                 ![a].rows = [w \in Workers |-> IF w \in chosen THEN worker_state[w]
                                                                ELSE NoWorker]]
        PROVE  AllocRoom'
    <3>1. \A w \in chosen : w \in Workers /\ FreeSpace(worker_state[w]) >= alloc[a].size
      BY DEF getWorkersWithFreeSpace
    <3>2. /\ alloc'[a].todo = chosen
          /\ alloc'[a].size = alloc[a].size
          /\ \A w \in chosen : alloc'[a].rows[w] = worker_state[w]
          /\ \A b \in Allocs : b # a => alloc'[b] = alloc[b]
      BY <1>2, <2>2, <3>1 DEF AllocCall
    <3> QED
      BY <1>0, <3>1, <3>2 DEF AllocRoom
  <2>3. AllocRoom'
    BY <1>0, <1>3, <2>2, ReturnAllocRoom DEF GetWorkersToSaveBlob
  <2> QED
    BY <1>1, <2>1, <2>3 DEF SpaceInv
<1>4. ASSUME NEW w \in Workers, AddBlobEntry(a, w)
      PROVE  SpaceInv'
  <2>1. RowsFree'
    BY <1>0, <1>4 DEF AddBlobEntry, RowsFree
  <2>2. ASSUME alloc' = [alloc EXCEPT ![a].pc = "updateWorkerState",
                                      ![a].placed = @ \cup {w}]
        PROVE  AllocRoom'
    <3>1. \A b \in Allocs : /\ alloc'[b].todo = alloc[b].todo
                            /\ alloc'[b].size = alloc[b].size
                            /\ alloc'[b].rows = alloc[b].rows
      BY <1>2, <2>2 DEF AllocCall
    <3> QED
      BY <1>0, <3>1 DEF AllocRoom
  <2>3. AllocRoom'
    BY <1>0, <1>4, <2>2, ReturnAllocRoom DEF AddBlobEntry
  <2> QED
    BY <1>1, <2>1, <2>3 DEF SpaceInv
<1>5. ASSUME NEW w \in Workers, LockSpace(a, w)
      PROVE  SpaceInv'
  <2>1. RowsFree'
    <3>1. CASE worker_state' = worker_state
      BY <1>0, <3>1 DEF RowsFree
    <3>2. CASE worker_state' = updateWorkerState(worker_state, w,
                                 LockedRow(alloc[a].rows[w], alloc[a].size))
      <4>1. alloc[a].rows[w] \in WorkerStateDTO
        BY <1>2 DEF WorkerStateTable
      <4>2. FreeSpace(alloc[a].rows[w]) >= alloc[a].size
        BY <1>0, <1>5 DEF LockSpace, AllocRoom
      <4>3. FreeSpace(LockedRow(alloc[a].rows[w], alloc[a].size)) >= 0
        BY <1>2, <4>1, <4>2, FreeSpaceOfWrites
      <4> QED
        BY <1>0, <3>2, <4>3, RowsFreeWrite DEF updateWorkerState
    <3> QED
      BY <1>5, <3>1, <3>2 DEF LockSpace
  <2>2. ASSUME alloc' = [alloc EXCEPT ![a].pc = "addBlobEntry", ![a].todo = @ \ {w}]
        PROVE  AllocRoom'
    <3>1. \A b \in Allocs : /\ alloc'[b].todo \subseteq alloc[b].todo
                            /\ alloc'[b].size = alloc[b].size
                            /\ alloc'[b].rows = alloc[b].rows
      BY <1>2, <2>2 DEF AllocCall
    <3> QED
      BY <1>0, <3>1 DEF AllocRoom
  <2>3. AllocRoom'
    BY <1>0, <1>5, <2>2, ReturnAllocRoom DEF LockSpace
  <2> QED
    BY <1>1, <2>1, <2>3 DEF SpaceInv
<1> QED
  BY <1>3, <1>4, <1>5 DEF AllocStep

LEMMA SpaceNotify ==
  ASSUME TypeOK, SpaceInv, NEW n \in Notifies, NotifyStep(n)
  PROVE  SpaceInv'
<1>0. RowsFree /\ AllocRoom /\ NotifyRowsFree
  BY DEF SpaceInv
<1>1. AllocRoom'
  BY <1>0 DEF AllocRoom, NotifyStep, NotifyBlobSaved, UpdateBlobEntry, ReadWorkerState,
     ChargeSpace
<1>2. /\ notify \in [Notifies -> NotifyCall]
      /\ notify[n].worker \in Workers
      /\ notify[n].row \in WorkerStateDTO
      /\ notify[n].size \in Int
  BY DEF TypeOK, NotifyCall
<1>3. ASSUME \A m \in Notifies : notify'[m].row = notify[m].row
      PROVE  NotifyRowsFree'
  BY <1>0, <1>3 DEF NotifyRowsFree
<1>4. CASE NotifyBlobSaved(n)
  <2>1. RowsFree'
    BY <1>0, <1>4 DEF NotifyBlobSaved, RowsFree, tables
  <2>2. ASSUME NEW size, notify' = [notify EXCEPT ![n].pc = "updateBlobEntry", ![n].size = size]
        PROVE  \A m \in Notifies : notify'[m].row = notify[m].row
    BY <1>2, <2>2 DEF NotifyCall
  <2>3. NotifyRowsFree'
    BY <1>0, <1>3, <1>4, <2>2, ReturnNotifyRowsFree DEF NotifyBlobSaved
  <2> QED
    BY <1>1, <2>1, <2>3 DEF SpaceInv
<1>5. CASE UpdateBlobEntry(n)
  <2>1. RowsFree'
    BY <1>0, <1>5 DEF UpdateBlobEntry, RowsFree
  <2>2. ASSUME notify' = [notify EXCEPT ![n].pc = "getWorkerState"]
        PROVE  \A m \in Notifies : notify'[m].row = notify[m].row
    BY <1>2, <2>2 DEF NotifyCall
  <2>3. NotifyRowsFree'
    BY <1>0, <1>3, <1>5, <2>2, ReturnNotifyRowsFree DEF UpdateBlobEntry
  <2> QED
    BY <1>1, <2>1, <2>3 DEF SpaceInv
<1>6. CASE ReadWorkerState(n)
  <2>1. RowsFree'
    BY <1>0, <1>6 DEF ReadWorkerState, RowsFree, tables
  <2>2. ASSUME notify' = [notify EXCEPT ![n].pc = "updateWorkerState",
                            ![n].row = getWorkerState(worker_state, notify[n].worker)]
        PROVE  NotifyRowsFree'
    <3>1. /\ notify'[n].row = worker_state[notify[n].worker]
          /\ \A m \in Notifies : m # n => notify'[m] = notify[m]
      BY <1>2, <2>2 DEF NotifyCall, getWorkerState
    <3> QED
      BY <1>0, <1>2, <3>1 DEF NotifyRowsFree, RowsFree
  <2>3. NotifyRowsFree'
    BY <1>0, <1>6, <2>2, ReturnNotifyRowsFree DEF ReadWorkerState
  <2> QED
    BY <1>1, <2>1, <2>3 DEF SpaceInv
<1>7. CASE ChargeSpace(n)
  <2>1. RowsFree'
    <3>1. CASE worker_state' = worker_state
      BY <1>0, <3>1 DEF RowsFree
    <3>2. CASE worker_state' = updateWorkerState(worker_state, notify[n].worker,
                                 ChargedRow(notify[n].row, notify[n].size))
      <4>1. FreeSpace(ChargedRow(notify[n].row, notify[n].size)) >= 0
        BY <1>0, <1>2, FreeSpaceOfWrites DEF NotifyRowsFree
      <4> QED
        BY <1>0, <1>2, <3>2, <4>1, RowsFreeWrite DEF updateWorkerState
    <3> QED
      BY <1>7, <3>1, <3>2 DEF ChargeSpace
  <2>2. NotifyRowsFree'
    BY <1>0, <1>7, ReturnNotifyRowsFree DEF ChargeSpace
  <2> QED
    BY <1>1, <2>1, <2>2 DEF SpaceInv
<1> QED
  BY <1>4, <1>5, <1>6, <1>7 DEF NotifyStep

LEMMA SpaceRegister ==
  ASSUME TypeOK, SpaceInv, NEW r \in Registers, RegisterStep(r)
  PROVE  SpaceInv'
<1>1. AllocRoom' /\ NotifyRowsFree'
  BY DEF SpaceInv, AllocRoom, NotifyRowsFree, RegisterStep, RegisterWorker, DropCopies,
     AddWorkerState
<1> SUFFICES RowsFree'
  BY <1>1 DEF SpaceInv
<1>2. register[r].worker \in Workers /\ register[r].space \in Spaces
  BY DEF TypeOK, RegisterCall
<1>3. CASE RegisterWorker(r)
  <2>1. FreeSpace(NoWorker) >= 0
    BY FreeSpaceOfNoWorker
  <2>2. worker_state' = [worker_state EXCEPT ![register[r].worker] = NoWorker]
    BY <1>3 DEF RegisterWorker, deleteWorkerState
  <2> QED
    BY <1>2, <2>1, <2>2, RowsFreeWrite DEF SpaceInv
<1>4. CASE worker_state' = worker_state
  BY <1>4 DEF SpaceInv, RowsFree
<1>5. CASE worker_state' = addWorkerState(worker_state, register[r].worker, register[r].space)
  <2> DEFINE row == [registered |-> TRUE,
                     available_space_mb |-> register[r].space,
                     locked_space_mb |-> 0]
  <2>1. \A space \in Spaces : space - 0 >= 0
    BY SpacesAssumption
  <2>2. FreeSpace(row) = register[r].space - 0
    BY DEF FreeSpace
  <2>3. FreeSpace(row) >= 0
    BY <1>2, <2>1, <2>2
  <2>4. worker_state' = [worker_state EXCEPT ![register[r].worker] = row]
    BY <1>5 DEF addWorkerState
  <2> HIDE DEF row
  <2> QED
    BY <1>2, <2>3, <2>4, RowsFreeWrite DEF SpaceInv
<1> QED
  BY <1>3, <1>4, <1>5 DEF RegisterStep, DropCopies, AddWorkerState

LEMMA SpaceFault ==
  ASSUME TypeOK, SpaceInv, Fault
  PROVE  SpaceInv'
<1> USE DEF SpaceInv, tables
<1>1. RowsFree'
  BY DEF Fault, RowsFree, AllocFails, NotifyFails, LocateFails, RegisterFails, DeleteFails
<1>2. AllocRoom'
  <2>1. CASE \E a \in Allocs : AllocFails(a)
    BY <2>1, ReturnAllocRoom DEF AllocFails
  <2>2. CASE UNCHANGED alloc
    BY <2>2 DEF AllocRoom
  <2> QED
    BY <2>1, <2>2 DEF Fault, NotifyFails, LocateFails, RegisterFails, DeleteFails
<1>3. NotifyRowsFree'
  <2>1. CASE \E n \in Notifies : NotifyFails(n)
    BY <2>1, ReturnNotifyRowsFree DEF NotifyFails
  <2>2. CASE UNCHANGED notify
    BY <2>2 DEF NotifyRowsFree
  <2> QED
    BY <2>1, <2>2 DEF Fault, AllocFails, LocateFails, RegisterFails, DeleteFails
<1> QED
  BY <1>1, <1>2, <1>3

\* The space a master believes free on a worker is never negative: in every
\* interleaving of GetWorkersToSaveBlob, NotifyBlobSaved and RegisterWorker,
\* lost updates and faults included.
THEOREM SpaceNeverNegative == Spec => []BelievedSpaceNotNegative
<1>1. Init => SpaceInv
  <2> SUFFICES ASSUME Init PROVE SpaceInv
    OBVIOUS
  <2>1. RowsFree
    <3> SUFFICES ASSUME NEW w \in Workers PROVE FreeSpace(worker_state[w]) >= 0
      BY DEF RowsFree
    <3>1. CASE worker_state[w] = NoWorker
      BY <3>1, FreeSpaceOfNoWorker
    <3>2. CASE worker_state[w] \in [registered : {TRUE}, available_space_mb : Spaces,
                                    locked_space_mb : {0}]
      <4>1. /\ worker_state[w].available_space_mb \in Spaces
            /\ worker_state[w].locked_space_mb = 0
        BY <3>2
      <4>2. \A space \in Spaces : space - 0 >= 0
        BY SpacesAssumption
      <4> QED
        BY <4>1, <4>2 DEF FreeSpace
    <3> QED
      BY <3>1, <3>2 DEF Init
  <2>2. AllocRoom
    BY DEF Init, AllocRoom
  <2>3. NotifyRowsFree
    BY FreeSpaceOfNoWorker DEF Init, NotifyRowsFree
  <2> QED
    BY <2>1, <2>2, <2>3 DEF SpaceInv
<1>2. TypeOK /\ SpaceInv /\ [Next]_vars => SpaceInv'
  <2> SUFFICES ASSUME TypeOK, SpaceInv, [Next]_vars PROVE SpaceInv'
    OBVIOUS
  <2>1. CASE UNCHANGED <<worker_state, alloc, notify>>
    BY <2>1 DEF SpaceInv, RowsFree, AllocRoom, NotifyRowsFree
  <2>2. ASSUME NEW l \in Locates, LocateStep(l)
        PROVE  UNCHANGED <<worker_state, alloc, notify>>
    BY <2>2 DEF LocateStep, GetWorkerWithBlob, AnswerLocate, tables
  <2>3. ASSUME NEW d \in Deletes, DeleteStep(d)
        PROVE  UNCHANGED <<worker_state, alloc, notify>>
    BY <2>3 DEF DeleteStep, DeleteBlob, AskWorker, DeleteEntries, tables
  <2> QED
    BY <2>1, <2>2, <2>3, SpaceAlloc, SpaceNotify, SpaceRegister, SpaceFault DEF Next, vars
<1>3. SpaceInv => BelievedSpaceNotNegative
  BY DEF SpaceInv, RowsFree, BelievedSpaceNotNegative
<1> QED
  BY <1>1, <1>2, <1>3, TypeCorrect, PTL DEF Spec

-----------------------------------------------------------------------------
(* OrderlySpaceNotOverpromised.  While a call is in flight the accounts are  *)
(* off by the one copy it has inserted and not yet locked space for, and     *)
(* they come right again because what the call read is still what the tables *)
(* hold: nothing else ran.                                                   *)

\* A copy's size is a number of megabytes, and a worker holds finitely many.
SizesCount ==
  /\ \A h \in Hashes, w \in Workers : blob_copy[h][w].size_mb \in Nat
  /\ \A w \in Workers : IsFiniteSet(Reserved(w))

\* The copy of w is inserted and its space not yet locked.
ToLock(a, w) == alloc[a].pc = "updateWorkerState" /\ w \in alloc[a].todo \cap alloc[a].placed

\* The accounts of w are right, or an allocation is about to put them right.
RightAt(w) ==
  Registered(worker_state, w) =>
    \/ FreeWithin(w, 0)
    \/ \E a \in Allocs : ToLock(a, w) /\ FreeWithin(w, alloc[a].size)

AccountsRight == \A w \in Workers : RightAt(w)

\* What a call in flight remembers of the tables is what they hold.
AllocReads ==
  \A a \in Allocs :
    /\ alloc[a].pc = "idle" => alloc[a].placed = {}
    /\ Started(alloc[a].pc) => \A w \in alloc[a].todo : alloc[a].rows[w] = worker_state[w]
    /\ alloc[a].pc = "addBlobEntry" => alloc[a].todo \cap alloc[a].placed = {}
    /\ \A v, w \in Workers : ToLock(a, v) /\ ToLock(a, w) => v = w

NotifyReads ==
  \A n \in Notifies :
    /\ notify[n].pc = "updateBlobEntry" =>
         /\ HasCopy(blob_copy, notify[n].hash, notify[n].worker)
         /\ notify[n].size = blob_copy[notify[n].hash][notify[n].worker].size_mb
    /\ notify[n].pc = "updateWorkerState" => notify[n].row = worker_state[notify[n].worker]

RegisterReads ==
  \A r \in Registers :
    /\ register[r].pc \in {"deleteBlobEntries", "addWorkerState"} =>
         ~Registered(worker_state, register[r].worker)
    /\ register[r].pc = "addWorkerState" =>
         \A h \in Hashes : ~HasCopy(blob_copy, h, register[r].worker)

Accounts ==
  /\ OneAtATime
  /\ SizesCount
  /\ AccountsRight
  /\ AllocReads
  /\ NotifyReads
  /\ RegisterReads

OrderlyAccounts == orderly => Accounts

-----------------------------------------------------------------------------
(* The space reserved on a worker *)

LEMMA ReservedPairs ==
  ASSUME NEW w
  PROVE  /\ \A x : x \in Reserved(w) <=>
              \E h \in Hashes : /\ HasCopy(blob_copy, h, w)
                                /\ x \in {h} \X (1 .. blob_copy[h][w].size_mb)
         /\ \A x : x \in Reserved(w)' <=>
              \E h \in Hashes : /\ HasCopy(blob_copy', h, w)
                                /\ x \in {h} \X (1 .. blob_copy'[h][w].size_mb)
BY DEF Reserved

\* A worker whose copies keep their sizes has as much reserved as before.
LEMMA ReservedKept ==
  ASSUME NEW w,
         \A h \in Hashes : /\ HasCopy(blob_copy', h, w) <=> HasCopy(blob_copy, h, w)
                           /\ blob_copy'[h][w].size_mb = blob_copy[h][w].size_mb
  PROVE  Reserved(w)' = Reserved(w)
<1>1. \A x : x \in Reserved(w)' <=> x \in Reserved(w)
  BY ReservedPairs, Zenon
<1> QED
  BY <1>1

\* A worker that loses copies has no more reserved than before.
LEMMA ReservedShrinks ==
  ASSUME NEW w, IsFiniteSet(Reserved(w)),
         \A h \in Hashes : HasCopy(blob_copy', h, w) =>
           HasCopy(blob_copy, h, w) /\ blob_copy'[h][w].size_mb = blob_copy[h][w].size_mb
  PROVE  /\ IsFiniteSet(Reserved(w)')
         /\ Promised(w)' <= Promised(w)
<1>1. Reserved(w)' \subseteq Reserved(w)
  BY ReservedPairs
<1> QED
  BY <1>1, FS_Subset DEF Promised

\* The insert of a copy reserves its size.
LEMMA ReservedGrows ==
  ASSUME NEW w, IsFiniteSet(Reserved(w)), NEW h \in Hashes, ~HasCopy(blob_copy, h, w),
         HasCopy(blob_copy', h, w), blob_copy'[h][w].size_mb \in Nat,
         \A g \in Hashes : g # h => blob_copy'[g][w] = blob_copy[g][w]
  PROVE  /\ IsFiniteSet(Reserved(w)')
         /\ Promised(w)' = Promised(w) + blob_copy'[h][w].size_mb
<1> DEFINE size == blob_copy'[h][w].size_mb
           new == {h} \X (1 .. size)
<1>1. size \in Nat
  OBVIOUS
<1> HIDE DEF size
<1>2. IsFiniteSet(1 .. size) /\ Cardinality(1 .. size) = size
  BY <1>1, FS_Interval
<1>3. IsFiniteSet({h}) /\ Cardinality({h}) = 1
  BY FS_Singleton
<1>4. IsFiniteSet(new) /\ Cardinality(new) = size
  <2>1. /\ IsFiniteSet(new)
        /\ Cardinality(new) = Cardinality({h}) * Cardinality(1 .. size)
    BY <1>2, <1>3, FS_Product
  <2> QED
    BY <1>1, <1>2, <1>3, <2>1
<1>5. Reserved(w)' = Reserved(w) \cup new
  <2>1. \A g \in Hashes : g # h =>
          /\ HasCopy(blob_copy', g, w) <=> HasCopy(blob_copy, g, w)
          /\ blob_copy'[g][w].size_mb = blob_copy[g][w].size_mb
    BY DEF HasCopy
  <2>2. \A x : x \in Reserved(w)' <=> x \in Reserved(w) \/ x \in new
    BY <2>1, ReservedPairs, Zenon DEF size
  <2> QED
    BY <2>2
<1>6. Reserved(w) \cap new = {}
  <2>1. ASSUME NEW x, x \in Reserved(w), x \in new
        PROVE  FALSE
    <3>1. PICK g \in Hashes : /\ HasCopy(blob_copy, g, w)
                              /\ x \in {g} \X (1 .. blob_copy[g][w].size_mb)
      BY <2>1, ReservedPairs
    <3>2. x[1] = g /\ x[1] = h
      BY <2>1, <3>1
    <3> QED
      BY <3>1, <3>2
  <2> QED
    BY <2>1
<1>7. Cardinality(Reserved(w)) \in Nat
  BY FS_CardinalityType
<1>8. Cardinality({}) = 0
  BY FS_EmptySet
<1>9. /\ IsFiniteSet(Reserved(w) \cup new)
      /\ Cardinality(Reserved(w) \cup new)
           = Cardinality(Reserved(w)) + Cardinality(new) - Cardinality(Reserved(w) \cap new)
  BY <1>4, FS_Union
<1>10. Promised(w)' = Promised(w) + size
  <2> HIDE DEF new
  <2>1. Cardinality(Reserved(w) \cup new) = Cardinality(Reserved(w)) + size - 0
    BY <1>4, <1>6, <1>8, <1>9
  <2>2. Promised(w)' = Cardinality(Reserved(w) \cup new)
    BY <1>5, Zenon DEF Promised
  <2>3. Promised(w) = Cardinality(Reserved(w))
    BY DEF Promised
  <2> QED
    BY <1>1, <1>7, <2>1, <2>2, <2>3
<1> QED
  BY <1>5, <1>9, <1>10 DEF size

LEMMA PromisedCount ==
  ASSUME SizesCount, NEW w \in Workers
  PROVE  IsFiniteSet(Reserved(w)) /\ Promised(w) \in Nat
BY FS_CardinalityType DEF SizesCount, Promised

-----------------------------------------------------------------------------
(* One call at a time *)

\* No two calls have started and not ended.
Alone ==
  /\ \A a, b \in Allocs : Started(alloc[a].pc) /\ Started(alloc[b].pc) => a = b
  /\ \A n, m \in Notifies : Started(notify[n].pc) /\ Started(notify[m].pc) => n = m
  /\ \A r, q \in Registers : Started(register[r].pc) /\ Started(register[q].pc) => r = q
  /\ \A a \in Allocs, n \in Notifies : ~(Started(alloc[a].pc) /\ Started(notify[n].pc))
  /\ \A a \in Allocs, r \in Registers : ~(Started(alloc[a].pc) /\ Started(register[r].pc))
  /\ \A n \in Notifies, r \in Registers : ~(Started(notify[n].pc) /\ Started(register[r].pc))
  /\ \A a \in Allocs, d \in Deletes : ~(Started(alloc[a].pc) /\ Started(delete[d].pc))
  /\ \A n \in Notifies, d \in Deletes : ~(Started(notify[n].pc) /\ Started(delete[d].pc))

LEMMA AloneInFlight == (OneAtATime => Alone) /\ (OneAtATime' => Alone')
<1>1. /\ \A a \in Allocs : Started(alloc[a].pc) => <<"alloc", a>> \in InFlight
      /\ \A n \in Notifies : Started(notify[n].pc) => <<"notify", n>> \in InFlight
      /\ \A r \in Registers : Started(register[r].pc) => <<"register", r>> \in InFlight
      /\ \A d \in Deletes : Started(delete[d].pc) => <<"delete", d>> \in InFlight
  BY DEF InFlight
<1>2. /\ \A a \in Allocs : Started(alloc[a].pc)' => <<"alloc", a>> \in InFlight'
      /\ \A n \in Notifies : Started(notify[n].pc)' => <<"notify", n>> \in InFlight'
      /\ \A r \in Registers : Started(register[r].pc)' => <<"register", r>> \in InFlight'
      /\ \A d \in Deletes : Started(delete[d].pc)' => <<"delete", d>> \in InFlight'
  BY DEF InFlight
<1>3. \A x, y : /\ <<"alloc", x>> = <<"alloc", y>> => x = y
                /\ <<"notify", x>> = <<"notify", y>> => x = y
                /\ <<"register", x>> = <<"register", y>> => x = y
                /\ <<"alloc", x>> # <<"notify", y>>
                /\ <<"alloc", x>> # <<"register", y>>
                /\ <<"notify", x>> # <<"register", y>>
                /\ <<"alloc", x>> # <<"delete", y>>
                /\ <<"notify", x>> # <<"delete", y>>
  OBVIOUS
<1>4. ASSUME OneAtATime
      PROVE  Alone
  <2>1. /\ \A a, b \in Allocs : Started(alloc[a].pc) /\ Started(alloc[b].pc) => a = b
        /\ \A n, m \in Notifies : Started(notify[n].pc) /\ Started(notify[m].pc) => n = m
        /\ \A r, q \in Registers :
             Started(register[r].pc) /\ Started(register[q].pc) => r = q
    BY <1>1, <1>3, <1>4, ZenonT(60) DEF OneAtATime
  <2>2. /\ \A a \in Allocs, n \in Notifies :
             ~(Started(alloc[a].pc) /\ Started(notify[n].pc))
        /\ \A a \in Allocs, r \in Registers :
             ~(Started(alloc[a].pc) /\ Started(register[r].pc))
        /\ \A n \in Notifies, r \in Registers :
             ~(Started(notify[n].pc) /\ Started(register[r].pc))
    BY <1>1, <1>3, <1>4, ZenonT(60) DEF OneAtATime
  <2>3. /\ \A a \in Allocs, d \in Deletes :
             ~(Started(alloc[a].pc) /\ Started(delete[d].pc))
        /\ \A n \in Notifies, d \in Deletes :
             ~(Started(notify[n].pc) /\ Started(delete[d].pc))
    BY <1>1, <1>3, <1>4, ZenonT(60) DEF OneAtATime
  <2> QED
    BY <2>1, <2>2, <2>3 DEF Alone
<1>5. ASSUME OneAtATime'
      PROVE  Alone'
  <2>1. /\ \A a, b \in Allocs : Started(alloc[a].pc)' /\ Started(alloc[b].pc)' => a = b
        /\ \A n, m \in Notifies : Started(notify[n].pc)' /\ Started(notify[m].pc)' => n = m
        /\ \A r, q \in Registers :
             Started(register[r].pc)' /\ Started(register[q].pc)' => r = q
    BY <1>2, <1>3, <1>5, ZenonT(60) DEF OneAtATime
  <2>2. /\ \A a \in Allocs, n \in Notifies :
             ~(Started(alloc[a].pc)' /\ Started(notify[n].pc)')
        /\ \A a \in Allocs, r \in Registers :
             ~(Started(alloc[a].pc)' /\ Started(register[r].pc)')
        /\ \A n \in Notifies, r \in Registers :
             ~(Started(notify[n].pc)' /\ Started(register[r].pc)')
    BY <1>2, <1>3, <1>5, ZenonT(60) DEF OneAtATime
  <2>3. /\ \A a \in Allocs, d \in Deletes :
             ~(Started(alloc[a].pc)' /\ Started(delete[d].pc)')
        /\ \A n \in Notifies, d \in Deletes :
             ~(Started(notify[n].pc)' /\ Started(delete[d].pc)')
    BY <1>2, <1>3, <1>5, ZenonT(60) DEF OneAtATime
  <2> QED
    BY <2>1, <2>2, <2>3 DEF Alone
<1> QED
  BY <1>4, <1>5

-----------------------------------------------------------------------------
(* Steps *)

\* The accounts of a worker stay right when its row leaves as much space, no more
\* is reserved on it, and what is about to be locked still is.
LEMMA RightKept ==
  ASSUME TypeOK, TypeOK', NEW w \in Workers, RightAt(w),
         IsFiniteSet(Reserved(w)), IsFiniteSet(Reserved(w)'), Promised(w)' <= Promised(w),
         Registered(worker_state', w) =>
           /\ Registered(worker_state, w)
           /\ FreeSpace(worker_state'[w]) = FreeSpace(worker_state[w]),
         \A a \in Allocs : ToLock(a, w) => ToLock(a, w)' /\ alloc'[a].size = alloc[a].size
  PROVE  RightAt(w)'
<1>1. Promised(w) \in Nat /\ Promised(w)' \in Nat
  BY FS_CardinalityType DEF Promised
<1>2. worker_state[w] \in WorkerStateDTO
  BY DEF TypeOK, WorkerStateTable
<1>3. FreeSpace(worker_state[w]) \in Int
  BY <1>2, FreeSpaceOfWrites
<1>4. \A k \in Int : (\E s \in Spaces : FreeSpace(worker_state[w]) <= s - Promised(w) + k)
        => \E s \in Spaces : FreeSpace(worker_state[w]) <= s - Promised(w)' + k
  <2>1. ASSUME NEW k \in Int, NEW s \in Spaces, FreeSpace(worker_state[w]) <= s - Promised(w) + k
        PROVE  FreeSpace(worker_state[w]) <= s - Promised(w)' + k
    <3>1. s \in Int
      BY SpacesAssumption
    <3> QED
      BY <1>1, <1>3, <2>1, <3>1
  <2> QED
    BY <2>1, Zenon
<1> SUFFICES ASSUME Registered(worker_state', w)
             PROVE  FreeWithin(w, 0)' \/ \E a \in Allocs : ToLock(a, w)' /\ FreeWithin(w, alloc[a].size)'
  BY DEF RightAt
<1>5. CASE FreeWithin(w, 0)
  BY <1>4, <1>5 DEF FreeWithin
<1>6. ASSUME NEW a \in Allocs, ToLock(a, w), FreeWithin(w, alloc[a].size)
      PROVE  ToLock(a, w)' /\ FreeWithin(w, alloc[a].size)'
  <2>1. alloc[a].size \in Int
    BY AllocTyping
  <2>2. \E s \in Spaces : FreeSpace(worker_state[w]) <= s - Promised(w)' + alloc[a].size
    BY <1>4, <1>6, <2>1 DEF FreeWithin
  <2> QED
    BY <1>6, <2>2 DEF FreeWithin
<1> QED
  BY <1>5, <1>6 DEF RightAt

\* A step that leaves the tables alone leaves the accounts right, if what is
\* about to be locked still is.
LEMMA RightUnwritten ==
  ASSUME TypeOK, TypeOK', SizesCount, AccountsRight, UNCHANGED tables,
         \A a \in Allocs, w \in Workers :
           ToLock(a, w) => ToLock(a, w)' /\ alloc'[a].size = alloc[a].size
  PROVE  SizesCount' /\ AccountsRight'
<1>1. ASSUME NEW w \in Workers
      PROVE  /\ IsFiniteSet(Reserved(w)')
             /\ Promised(w)' <= Promised(w)
             /\ IsFiniteSet(Reserved(w))
  BY ReservedShrinks DEF SizesCount, tables, HasCopy
<1>2. SizesCount'
  BY <1>1 DEF SizesCount, tables
<1>3. ASSUME NEW w \in Workers
      PROVE  RightAt(w)'
  <2>1. RightAt(w)
    BY DEF AccountsRight
  <2> QED
    BY <1>1, <2>1, RightKept DEF tables, Registered
<1> QED
  BY <1>2, <1>3 DEF AccountsRight

LEMMA AccountsAlloc ==
  ASSUME TypeOK, TypeOK', Accounts, OneAtATime', NEW a \in Allocs, AllocStep(a)
  PROVE  Accounts'
<1>0. /\ SizesCount /\ AccountsRight /\ AllocReads /\ NotifyReads /\ RegisterReads
      /\ Alone
  BY AloneInFlight DEF Accounts
<1>1. /\ alloc \in [Allocs -> AllocCall]
      /\ blob_copy \in BlobCopyTable
      /\ worker_state \in WorkerStateTable
      /\ worker_state' \in WorkerStateTable
  BY DEF TypeOK
<1>2. /\ alloc[a].hash \in Hashes
      /\ alloc[a].todo \subseteq Workers
      /\ alloc[a].placed \subseteq Workers
      /\ alloc[a].rows \in WorkerStateTable
  BY AllocTyping
<1>3. alloc[a].size \in Nat
  <2>1. alloc[a].size \in Sizes
    BY <1>1 DEF AllocCall
  <2> QED
    BY <2>1, SizesAssumption
<1>4. UNCHANGED <<notify, register>> /\ \A b \in Allocs : b # a => alloc'[b] = alloc[b]
  BY <1>1 DEF AllocStep, GetWorkersToSaveBlob, AddBlobEntry, LockSpace, ReturnAlloc
<1>5. ASSUME NEW status \in Final, NEW placed, ReturnAlloc(a, status, placed)
      PROVE  alloc'[a].pc = status
  BY <1>1, <1>5 DEF ReturnAlloc, AllocCall
<1>6. \A status \in Final : ~Started(status) /\ status \notin {"idle", "addBlobEntry", "updateWorkerState"}
  BY DEF Started, Final
<1>7. CASE GetWorkersToSaveBlob(a)
  <2>1. alloc[a].pc = "idle"
    BY <1>7 DEF GetWorkersToSaveBlob
  <2>2. SizesCount' /\ AccountsRight'
    <3>1. \A b \in Allocs, w \in Workers : ToLock(b, w) => b # a
      BY <2>1 DEF ToLock
    <3> QED
      BY <1>0, <1>4, <1>7, <3>1, RightUnwritten DEF ToLock, GetWorkersToSaveBlob
  <2>3. AllocReads'
    <3>1. CASE ReturnAlloc(a, "error", {})
      <4>1. alloc'[a].pc = "error"
        BY <1>5, <3>1 DEF Final
      <4> QED
        BY <1>0, <1>4, <1>7, <4>1, ZenonT(60)
        DEF AllocReads, ToLock, Started, Final, GetWorkersToSaveBlob, tables
    <3>2. ASSUME NEW chosen \in SUBSET Workers,
                 alloc' = [alloc EXCEPT
                   ![a].pc = "addBlobEntry",
                   ![a].todo = chosen,
                   ![a].rows = [w \in Workers |-> IF w \in chosen THEN worker_state[w]
                                                                  ELSE NoWorker]]
          PROVE  AllocReads'
      <4>1. /\ alloc'[a].pc = "addBlobEntry"
            /\ alloc'[a].todo = chosen
            /\ alloc'[a].placed = alloc[a].placed
            /\ \A w \in chosen : alloc'[a].rows[w] = worker_state[w]
        BY <1>1, <3>2 DEF AllocCall
      <4>2. alloc[a].placed = {}
        BY <1>0, <2>1 DEF AllocReads
      <4>3. worker_state' = worker_state
        BY <1>7 DEF GetWorkersToSaveBlob, tables
      <4> QED
        BY <1>0, <1>4, <4>1, <4>2, <4>3 DEF AllocReads, ToLock
    <3> QED
      BY <1>7, <3>1, <3>2 DEF GetWorkersToSaveBlob, getWorkersWithFreeSpace
  <2>4. NotifyReads' /\ RegisterReads'
    BY <1>0, <1>7 DEF NotifyReads, RegisterReads, GetWorkersToSaveBlob, tables
  <2> QED
    BY <2>2, <2>3, <2>4 DEF Accounts
<1>8. ASSUME NEW w \in Workers, AddBlobEntry(a, w) \/ LockSpace(a, w)
      PROVE  Accounts'
  <2>1. Started(alloc[a].pc)
    BY <1>8 DEF AddBlobEntry, LockSpace, Started, Final
  <2>2. /\ \A b \in Allocs : b # a => ~Started(alloc[b].pc) /\ ~Started(alloc'[b].pc)
        /\ \A n \in Notifies : ~Started(notify'[n].pc)
        /\ \A r \in Registers : ~Started(register'[r].pc)
    BY <1>0, <1>4, <2>1 DEF Alone
  <2>3. NotifyReads' /\ RegisterReads'
    BY <2>2 DEF NotifyReads, RegisterReads, Started, Final
  <2>4. \A b \in Allocs, v \in Workers : ToLock(b, v) \/ ToLock(b, v)' => b = a
    BY <2>2 DEF ToLock, Started, Final
  <2>5. ASSUME alloc'[a].pc \in Final
        PROVE  AllocReads'
    BY <1>0, <1>4, <1>6, <2>2, <2>4, <2>5 DEF AllocReads, Started, Final, ToLock
  <2>6. CASE AddBlobEntry(a, w)
    <3>1. alloc[a].pc = "addBlobEntry" /\ w \in alloc[a].todo
      BY <2>6 DEF AddBlobEntry
    <3>2. \A b \in Allocs, v \in Workers : ~ToLock(b, v)
      BY <2>4, <3>1 DEF ToLock
    <3>3. CASE HasCopy(blob_copy, alloc[a].hash, w)
      <4>1. ReturnAlloc(a, "error", alloc[a].placed) /\ UNCHANGED tables
        BY <2>6, <3>3 DEF AddBlobEntry, tables
      <4>2. SizesCount' /\ AccountsRight'
        BY <1>0, <3>2, <4>1, RightUnwritten
      <4>3. alloc'[a].pc \in Final
        BY <1>5, <4>1 DEF Final
      <4> QED
        BY <2>3, <2>5, <4>2, <4>3 DEF Accounts
    <3>4. CASE ~HasCopy(blob_copy, alloc[a].hash, w)
      <4> DEFINE h == alloc[a].hash
      <4>1. /\ blob_copy' = addBlobEntry(blob_copy, h, w, alloc[a].size)
            /\ alloc' = [alloc EXCEPT ![a].pc = "updateWorkerState", ![a].placed = @ \cup {w}]
            /\ UNCHANGED worker_state
        BY <2>6, <3>4 DEF AddBlobEntry
      <4>2. /\ alloc'[a].pc = "updateWorkerState"
            /\ alloc'[a].placed = alloc[a].placed \cup {w}
            /\ alloc'[a].todo = alloc[a].todo
            /\ alloc'[a].rows = alloc[a].rows
            /\ alloc'[a].size = alloc[a].size
        BY <1>1, <4>1 DEF AllocCall
      <4>3. AllocReads'
        <5>1. \A v \in alloc'[a].todo : alloc'[a].rows[v] = worker_state'[v]
          BY <1>0, <2>1, <4>1, <4>2 DEF AllocReads
        <5>2. \A b \in Allocs, v \in Workers : ToLock(b, v)' => v = w
          <6>1. alloc[a].todo \cap alloc[a].placed = {}
            BY <1>0, <3>1 DEF AllocReads
          <6> QED
            BY <2>4, <4>2, <6>1 DEF ToLock
        <5>3. ASSUME NEW b \in Allocs, b # a
              PROVE  /\ alloc'[b].pc = "idle" => alloc'[b].placed = {}
                     /\ alloc'[b].pc # "addBlobEntry" /\ ~Started(alloc'[b].pc)
          BY <1>0, <1>4, <2>2, <5>3 DEF AllocReads, Started, Final
        <5>4. alloc'[a].pc \notin {"idle", "addBlobEntry"}
          BY <4>2
        <5> QED
          BY <5>1, <5>2, <5>3, <5>4, Zenon DEF AllocReads
      <4>4. \A g \in Hashes, v \in Workers :
              blob_copy'[g][v] = IF g = h /\ v = w
                                 THEN [state |-> DURING_CREATION, size_mb |-> alloc[a].size]
                                 ELSE blob_copy[g][v]
        BY <1>1, <1>2, <4>1 DEF addBlobEntry, BlobCopyTable
      <4>5. ASSUME NEW v \in Workers, v # w
            PROVE  Reserved(v)' = Reserved(v) /\ RightAt(v)'
        <5>1. Reserved(v)' = Reserved(v)
          BY <4>4, <4>5, ReservedKept DEF HasCopy
        <5>2. RightAt(v) /\ IsFiniteSet(Reserved(v)) /\ Promised(v) \in Nat
          BY <1>0, PromisedCount DEF AccountsRight
        <5>3. Promised(v)' = Promised(v)
          BY <5>1 DEF Promised
        <5> QED
          BY <3>2, <4>1, <5>1, <5>2, <5>3, RightKept DEF Registered
      <4>6. /\ IsFiniteSet(Reserved(w)')
            /\ Promised(w)' = Promised(w) + alloc[a].size
        <5>1. /\ blob_copy'[h][w].size_mb = alloc[a].size
              /\ HasCopy(blob_copy', h, w)
          BY <1>2, <4>4 DEF HasCopy, DURING_CREATION
        <5> QED
          BY <1>0, <1>2, <1>3, <3>4, <4>4, <5>1, ReservedGrows, PromisedCount
      <4>7. SizesCount'
        BY <1>0, <1>3, <4>4, <4>5, <4>6 DEF SizesCount
      <4>8. RightAt(w)'
        <5>1. ToLock(a, w)'
          BY <3>1, <4>2 DEF ToLock
        <5>2. Registered(worker_state, w) => FreeWithin(w, 0)
          BY <1>0, <3>2 DEF AccountsRight, RightAt
        <5>3. /\ FreeSpace(worker_state[w]) \in Int
              /\ Promised(w) \in Nat
          BY <1>0, <1>1, FreeSpaceOfWrites, PromisedCount DEF WorkerStateTable
        <5>4. ASSUME Registered(worker_state, w)
              PROVE  FreeWithin(w, alloc[a].size)'
          <6>1. PICK s \in Spaces : FreeSpace(worker_state[w]) <= s - Promised(w) + 0
            BY <5>2, <5>4 DEF FreeWithin
          <6>2. FreeSpace(worker_state[w])
                  <= s - (Promised(w) + alloc[a].size) + alloc[a].size
            BY <1>3, <5>3, <6>1, SpacesAssumption
          <6> QED
            BY <4>1, <4>2, <4>6, <6>2 DEF FreeWithin
        <5> QED
          BY <4>1, <5>1, <5>4 DEF RightAt, Registered
      <4> QED
        BY <2>3, <4>3, <4>5, <4>7, <4>8 DEF Accounts, AccountsRight
    <3> QED
      BY <3>3, <3>4
  <2>7. CASE LockSpace(a, w)
    <3>1. /\ ToLock(a, w)
          /\ UNCHANGED blob_copy
          /\ \A v \in Workers : ToLock(a, v) => v = w
      BY <1>0, <2>7 DEF LockSpace, ToLock, AllocReads
    <3>2. \A v \in Workers : /\ Reserved(v)' = Reserved(v)
                             /\ Promised(v)' = Promised(v)
                             /\ IsFiniteSet(Reserved(v))
                             /\ Promised(v) \in Nat
      BY <1>0, <3>1, ReservedKept, PromisedCount DEF Promised, HasCopy
    <3>3. SizesCount'
      BY <1>0, <3>1, <3>2 DEF SizesCount
    <3>4. ASSUME NEW v \in Workers, v # w
          PROVE  RightAt(v)'
      <4>1. worker_state'[v] = worker_state[v]
        BY <1>1, <2>7, <3>4 DEF LockSpace, updateWorkerState, WorkerStateTable
      <4>2. \A b \in Allocs : ~ToLock(b, v)
        BY <2>4, <3>1, <3>4
      <4>3. RightAt(v)
        BY <1>0 DEF AccountsRight
      <4> QED
        BY <3>2, <4>1, <4>2, <4>3, RightKept DEF Registered
    <3>5. CASE ~Registered(worker_state, w)
      <4>1. /\ ReturnAlloc(a, "error", alloc[a].placed)
            /\ UNCHANGED worker_state
        BY <2>7, <3>5 DEF LockSpace
      <4>2. RightAt(w)'
        BY <3>5, <4>1 DEF RightAt, Registered
      <4>3. AllocReads'
        BY <1>5, <2>5, <4>1 DEF Final
      <4> QED
        BY <2>3, <3>3, <3>4, <4>2, <4>3 DEF Accounts, AccountsRight
    <3>6. CASE Registered(worker_state, w)
      <4>1. worker_state' = updateWorkerState(worker_state, w,
                              LockedRow(alloc[a].rows[w], alloc[a].size))
        BY <2>7, <3>6 DEF LockSpace
      <4>2. alloc[a].rows[w] = worker_state[w]
        BY <1>0, <2>1, <2>7 DEF LockSpace, AllocReads
      <4>3. /\ FreeSpace(worker_state[w]) \in Int
            /\ FreeSpace(worker_state'[w]) = FreeSpace(worker_state[w]) - alloc[a].size
        <5>1. worker_state[w] \in WorkerStateDTO
          BY <1>1 DEF WorkerStateTable
        <5>2. worker_state'[w] = LockedRow(worker_state[w], alloc[a].size)
          BY <1>1, <4>1, <4>2 DEF updateWorkerState, WorkerStateTable
        <5> QED
          BY <1>3, <5>1, <5>2, FreeSpaceOfWrites
      <4>4. RightAt(w)'
        <5>1. PICK s \in Spaces : FreeSpace(worker_state[w]) <= s - Promised(w) + alloc[a].size
          <6>1. CASE FreeWithin(w, 0)
            BY <1>3, <3>2, <4>3, <6>1, SpacesAssumption DEF FreeWithin
          <6>2. CASE FreeWithin(w, alloc[a].size)
            BY <6>2 DEF FreeWithin
          <6> QED
            BY <1>0, <2>4, <3>6, <6>1, <6>2 DEF AccountsRight, RightAt
        <5>2. FreeSpace(worker_state'[w]) <= s - Promised(w)' + 0
          BY <1>3, <3>2, <4>3, <5>1, SpacesAssumption
        <5> QED
          BY <5>2 DEF RightAt, FreeWithin
      <4>5. AllocReads'
        <5>1. CASE alloc[a].todo = {w}
          <6>1. \E status \in Final : ReturnAlloc(a, status, alloc[a].placed)
            BY <2>7, <3>6, <5>1, AnswersAreFinal DEF LockSpace
          <6> QED
            BY <1>5, <2>5, <6>1 DEF Final
        <5>2. CASE alloc[a].todo # {w}
          <6>1. alloc' = [alloc EXCEPT ![a].pc = "addBlobEntry", ![a].todo = @ \ {w}]
            BY <2>7, <3>6, <5>2 DEF LockSpace
          <6>2. /\ alloc'[a].pc = "addBlobEntry"
                /\ alloc'[a].todo = alloc[a].todo \ {w}
                /\ alloc'[a].rows = alloc[a].rows
                /\ alloc'[a].placed = alloc[a].placed
            BY <1>1, <6>1 DEF AllocCall
          <6>3. alloc'[a].todo \cap alloc'[a].placed = {}
            BY <1>2, <3>1, <6>2 DEF ToLock
          <6>4. \A v \in alloc'[a].todo : alloc'[a].rows[v] = worker_state'[v]
            BY <1>0, <1>1, <2>1, <4>1, <6>2 DEF AllocReads, updateWorkerState, WorkerStateTable
          <6>5. ASSUME NEW b \in Allocs, b # a
                PROVE  /\ alloc'[b].pc = "idle" => alloc'[b].placed = {}
                       /\ alloc'[b].pc # "addBlobEntry" /\ ~Started(alloc'[b].pc)
            BY <1>0, <1>4, <2>2, <6>5 DEF AllocReads, Started, Final
          <6>6. \A b \in Allocs, v \in Workers : ~ToLock(b, v)'
            BY <2>4, <6>2 DEF ToLock
          <6> QED
            BY <6>2, <6>3, <6>4, <6>5, <6>6, Zenon DEF AllocReads
        <5> QED
          BY <5>1, <5>2
      <4> QED
        BY <2>3, <3>3, <3>4, <4>4, <4>5 DEF Accounts, AccountsRight
    <3> QED
      BY <3>5, <3>6
  <2> QED
    BY <1>8, <2>6, <2>7
<1> QED
  BY <1>7, <1>8 DEF AllocStep

LEMMA AccountsNotify ==
  ASSUME TypeOK, TypeOK', Accounts, OneAtATime', NEW n \in Notifies, NotifyStep(n)
  PROVE  Accounts'
<1>0. /\ SizesCount /\ AccountsRight /\ AllocReads /\ NotifyReads /\ RegisterReads
      /\ Alone
  BY AloneInFlight DEF Accounts
<1>1. /\ notify \in [Notifies -> NotifyCall]
      /\ blob_copy \in BlobCopyTable
      /\ worker_state \in WorkerStateTable
      /\ notify[n].hash \in Hashes
      /\ notify[n].worker \in Workers
      /\ notify[n].size \in Int
  BY DEF TypeOK, NotifyCall
<1>2. UNCHANGED <<alloc, register>> /\ \A m \in Notifies : m # n => notify'[m] = notify[m]
  BY <1>1 DEF NotifyStep, NotifyBlobSaved, UpdateBlobEntry, ReadWorkerState, ChargeSpace,
     ReturnNotify
<1>3. ASSUME \E status \in Final : ReturnNotify(n, status)
      PROVE  notify'[n].pc \in Final
  BY <1>1, <1>3 DEF ReturnNotify, NotifyCall, Final
<1>4. ASSUME UNCHANGED tables
      PROVE  SizesCount' /\ AccountsRight' /\ AllocReads' /\ RegisterReads'
  <2>1. SizesCount' /\ AccountsRight'
    BY <1>0, <1>2, <1>4, RightUnwritten DEF ToLock
  <2>2. AllocReads' /\ RegisterReads'
    BY <1>0, <1>2, <1>4 DEF AllocReads, RegisterReads, ToLock, tables
  <2> QED
    BY <2>1, <2>2
<1>5. ASSUME UNCHANGED tables, notify'[n].pc \in Final
      PROVE  Accounts'
  <2>1. NotifyReads'
    BY <1>0, <1>2, <1>5 DEF NotifyReads, tables, Final
  <2> QED
    BY <1>4, <1>5, <2>1 DEF Accounts
<1>6. CASE NotifyBlobSaved(n)
  <2>1. UNCHANGED tables
    BY <1>6 DEF NotifyBlobSaved
  <2>2. CASE HasCopy(blob_copy, notify[n].hash, notify[n].worker)
    <3>1. notify' = [notify EXCEPT
                       ![n].pc = "updateBlobEntry",
                       ![n].size = blob_copy[notify[n].hash][notify[n].worker].size_mb]
      BY <1>6, <2>2 DEF NotifyBlobSaved, queryBlobByHashAndWorkerId
    <3>2. /\ notify'[n].pc = "updateBlobEntry"
          /\ notify'[n].hash = notify[n].hash
          /\ notify'[n].worker = notify[n].worker
          /\ notify'[n].size = blob_copy[notify[n].hash][notify[n].worker].size_mb
      BY <1>1, <3>1 DEF NotifyCall
    <3>3. NotifyReads'
      BY <1>0, <1>2, <2>1, <2>2, <3>2 DEF NotifyReads, tables
    <3> QED
      BY <1>4, <2>1, <3>3 DEF Accounts
  <2>3. CASE ~HasCopy(blob_copy, notify[n].hash, notify[n].worker)
    BY <1>3, <1>5, <1>6, <2>1, <2>3 DEF NotifyBlobSaved, Final
  <2> QED
    BY <2>2, <2>3
<1>7. CASE ReadWorkerState(n)
  <2>1. UNCHANGED tables
    BY <1>7 DEF ReadWorkerState
  <2>2. CASE Registered(worker_state, notify[n].worker)
    <3>1. notify' = [notify EXCEPT ![n].pc = "updateWorkerState",
                                   ![n].row = worker_state[notify[n].worker]]
      BY <1>7, <2>2 DEF ReadWorkerState, getWorkerState
    <3>2. /\ notify'[n].pc = "updateWorkerState"
          /\ notify'[n].worker = notify[n].worker
          /\ notify'[n].row = worker_state[notify[n].worker]
      BY <1>1, <3>1 DEF NotifyCall
    <3>3. NotifyReads'
      BY <1>0, <1>2, <2>1, <3>2 DEF NotifyReads, tables
    <3> QED
      BY <1>4, <2>1, <3>3 DEF Accounts
  <2>3. CASE ~Registered(worker_state, notify[n].worker)
    BY <1>3, <1>5, <1>7, <2>1, <2>3 DEF ReadWorkerState, Final
  <2> QED
    BY <2>2, <2>3
<1>8. ASSUME UpdateBlobEntry(n) \/ ChargeSpace(n)
      PROVE  Accounts'
  <2>1. Started(notify[n].pc)
    BY <1>8 DEF UpdateBlobEntry, ChargeSpace, Started, Final
  <2>2. /\ \A m \in Notifies : m # n => ~Started(notify'[m].pc)
        /\ \A a \in Allocs : ~Started(alloc[a].pc) /\ ~Started(alloc'[a].pc)
        /\ \A r \in Registers : ~Started(register'[r].pc)
    BY <1>0, <1>2, <2>1 DEF Alone
  <2>3. \A a \in Allocs, w \in Workers : ~ToLock(a, w) /\ ~ToLock(a, w)'
    BY <2>2 DEF ToLock, Started, Final
  <2>4. AllocReads'
    <3>1. \A a \in Allocs : alloc'[a].pc # "addBlobEntry"
      BY <2>2 DEF Started, Final
    <3>2. \A a \in Allocs : alloc'[a].pc = "idle" => alloc'[a].placed = {}
      BY <1>0, <1>2 DEF AllocReads
    <3> QED
      BY <2>2, <2>3, <3>1, <3>2, Zenon DEF AllocReads
  <2>5. RegisterReads'
    BY <2>2 DEF RegisterReads, Started, Final
  <2>6. ASSUME notify'[n].pc \in Final \cup {"getWorkerState"}
        PROVE  NotifyReads'
    BY <2>2, <2>6 DEF NotifyReads, Started, Final
  <2>7. CASE UpdateBlobEntry(n)
    <3> DEFINE h == notify[n].hash
               w == notify[n].worker
    <3>1. HasCopy(blob_copy, h, w) /\ notify[n].size = blob_copy[h][w].size_mb
      BY <1>0, <2>7 DEF UpdateBlobEntry, NotifyReads
    <3>2. /\ blob_copy' = updateBlobEntry(blob_copy, h, w, notify[n].size)
          /\ notify' = [notify EXCEPT ![n].pc = "getWorkerState"]
          /\ UNCHANGED worker_state
      BY <2>7, <3>1 DEF UpdateBlobEntry
    <3>3. notify'[n].pc = "getWorkerState"
      BY <1>1, <3>2 DEF NotifyCall
    <3>4. \A g \in Hashes, v \in Workers :
            /\ HasCopy(blob_copy', g, v) <=> HasCopy(blob_copy, g, v)
            /\ blob_copy'[g][v].size_mb = blob_copy[g][v].size_mb
      <4>1. \A g \in Hashes, v \in Workers :
              blob_copy'[g][v] = IF g = h /\ v = w
                                 THEN [state |-> SAVED, size_mb |-> notify[n].size]
                                 ELSE blob_copy[g][v]
        BY <1>1, <3>2 DEF updateBlobEntry, BlobCopyTable
      <4> QED
        BY <3>1, <4>1 DEF HasCopy, SAVED
    <3>5. \A v \in Workers : /\ Reserved(v)' = Reserved(v)
                             /\ Promised(v)' = Promised(v)
                             /\ IsFiniteSet(Reserved(v))
                             /\ Promised(v) \in Nat
      BY <1>0, <3>4, ReservedKept, PromisedCount DEF Promised
    <3>6. SizesCount'
      BY <1>0, <3>4, <3>5 DEF SizesCount
    <3>7. ASSUME NEW v \in Workers
          PROVE  RightAt(v)'
      <4>1. RightAt(v)
        BY <1>0 DEF AccountsRight
      <4> QED
        BY <2>3, <3>2, <3>5, <4>1, RightKept DEF Registered
    <3> QED
      BY <2>4, <2>5, <2>6, <3>3, <3>6, <3>7 DEF Accounts, AccountsRight
  <2>8. CASE ChargeSpace(n)
    <3> DEFINE w == notify[n].worker
    <3>1. /\ notify'[n].pc \in Final
          /\ UNCHANGED blob_copy
      BY <1>3, <2>8, AnswersAreFinal DEF ChargeSpace, Final
    <3>2. CASE ~Registered(worker_state, w)
      BY <1>5, <2>8, <3>1, <3>2 DEF ChargeSpace, tables
    <3>3. CASE Registered(worker_state, w)
      <4>1. worker_state' = [worker_state EXCEPT
                               ![w] = ChargedRow(worker_state[w], notify[n].size)]
        BY <1>0, <2>8, <3>3 DEF ChargeSpace, NotifyReads, updateWorkerState
      <4>2. \A v \in Workers : worker_state[v] \in WorkerStateDTO
        BY <1>1 DEF WorkerStateTable
      <4>3. FreeSpace(ChargedRow(worker_state[w], notify[n].size)) = FreeSpace(worker_state[w])
        BY <1>1, <4>2, FreeSpaceOfWrites
      <4>4. \A v \in Workers :
              /\ FreeSpace(worker_state'[v]) = FreeSpace(worker_state[v])
              /\ Registered(worker_state', v) => Registered(worker_state, v)
        BY <1>1, <3>3, <4>1, <4>3 DEF WorkerStateTable, Registered
      <4>5. \A v \in Workers : /\ Reserved(v)' = Reserved(v)
                               /\ Promised(v)' = Promised(v)
                               /\ IsFiniteSet(Reserved(v))
                               /\ Promised(v) \in Nat
        BY <1>0, <3>1, ReservedKept, PromisedCount DEF Promised, HasCopy
      <4>6. SizesCount'
        BY <1>0, <3>1, <4>5 DEF SizesCount
      <4>7. ASSUME NEW v \in Workers
            PROVE  RightAt(v)'
        <5>1. RightAt(v)
          BY <1>0 DEF AccountsRight
        <5> QED
          BY <2>3, <4>4, <4>5, <5>1, RightKept
      <4> QED
        BY <2>4, <2>5, <2>6, <3>1, <4>6, <4>7 DEF Accounts, AccountsRight
    <3> QED
      BY <3>2, <3>3
  <2> QED
    BY <1>8, <2>7, <2>8
<1> QED
  BY <1>6, <1>7, <1>8 DEF NotifyStep

LEMMA AccountsRegister ==
  ASSUME TypeOK, TypeOK', Accounts, OneAtATime', NEW r \in Registers, RegisterStep(r)
  PROVE  Accounts'
<1>0. /\ SizesCount /\ AccountsRight /\ AllocReads /\ NotifyReads /\ RegisterReads
      /\ Alone /\ Alone'
  BY AloneInFlight DEF Accounts
<1>w. PICK w \in Workers : w = register[r].worker
  BY DEF TypeOK, RegisterCall
<1>1. /\ register \in [Registers -> RegisterCall]
      /\ blob_copy \in BlobCopyTable
      /\ worker_state \in WorkerStateTable
      /\ w = register[r].worker
      /\ register[r].space \in Spaces
  BY <1>w DEF TypeOK, RegisterCall
<1>2. /\ UNCHANGED <<alloc, notify>>
      /\ \A q \in Registers : q # r => register'[q] = register[q]
      /\ \A q \in Registers : register'[q].worker = register[q].worker
  BY <1>1 DEF RegisterStep, RegisterWorker, DropCopies, AddWorkerState, RegisterCall
<1>3. Started(register[r].pc) \/ Started(register'[r].pc)
  BY <1>1 DEF RegisterStep, RegisterWorker, DropCopies, AddWorkerState, RegisterCall,
     Started, Final
<1>4. /\ \A q \in Registers : q # r => ~Started(register'[q].pc)
      /\ \A a \in Allocs : ~Started(alloc[a].pc) /\ ~Started(alloc'[a].pc)
      /\ \A n \in Notifies : ~Started(notify'[n].pc)
  BY <1>0, <1>2, <1>3 DEF Alone
<1>5. \A a \in Allocs, v \in Workers : ~ToLock(a, v) /\ ~ToLock(a, v)'
  BY <1>4 DEF ToLock, Started, Final
<1>6. AllocReads' /\ NotifyReads'
  <2>1. \A a \in Allocs : /\ alloc'[a].pc # "addBlobEntry"
                          /\ alloc'[a].pc = "idle" => alloc'[a].placed = {}
    BY <1>0, <1>2, <1>4 DEF Started, Final, AllocReads
  <2>2. AllocReads'
    BY <1>4, <1>5, <2>1, Zenon DEF AllocReads
  <2>3. NotifyReads'
    BY <1>4 DEF NotifyReads, Started, Final
  <2> QED
    BY <2>2, <2>3
<1>7. \A v \in Workers : RightAt(v) /\ IsFiniteSet(Reserved(v)) /\ Promised(v) \in Nat
  BY <1>0, PromisedCount DEF AccountsRight
<1>8. ASSUME NEW v \in Workers, UNCHANGED blob_copy
      PROVE  Reserved(v)' = Reserved(v) /\ Promised(v)' = Promised(v)
  BY <1>8, ReservedKept DEF Promised, HasCopy
<1>9. ASSUME NEW v \in Workers, worker_state'[v] = worker_state[v], UNCHANGED blob_copy
      PROVE  RightAt(v)'
  BY <1>5, <1>7, <1>8, <1>9, RightKept DEF Registered
<1>10. ASSUME UNCHANGED blob_copy
       PROVE  SizesCount'
  BY <1>0, <1>8, <1>10 DEF SizesCount
<1>11. CASE RegisterWorker(r)
  <2>1. /\ worker_state' = [worker_state EXCEPT ![w] = NoWorker]
        /\ UNCHANGED blob_copy
        /\ register'[r].pc = "deleteBlobEntries"
    BY <1>1, <1>11 DEF RegisterWorker, deleteWorkerState, RegisterCall
  <2>2. ~Registered(worker_state', w)
    BY <1>1, <2>1 DEF Registered, NoWorker, WorkerStateTable
  <2>3. RegisterReads'
    BY <1>1, <1>2, <1>4, <2>1, <2>2 DEF RegisterReads, Started, Final
  <2>4. \A v \in Workers : v # w => worker_state'[v] = worker_state[v]
    BY <1>1, <2>1 DEF WorkerStateTable
  <2>5. RightAt(w)'
    BY <2>2 DEF RightAt
  <2> QED
    BY <1>6, <1>9, <1>10, <2>1, <2>3, <2>4, <2>5 DEF Accounts, AccountsRight
<1>12. CASE DropCopies(r)
  <2>1. /\ blob_copy' = deleteBlobEntriesByWorkerAddress(blob_copy, w)
        /\ UNCHANGED worker_state
        /\ register[r].pc = "deleteBlobEntries"
        /\ register'[r].pc = "addWorkerState"
    BY <1>1, <1>12 DEF DropCopies, RegisterCall
  <2>2. \A h \in Hashes, v \in Workers :
          blob_copy'[h][v] = IF v = w THEN NoCopy ELSE blob_copy[h][v]
    BY <1>1, <2>1 DEF deleteBlobEntriesByWorkerAddress, BlobCopyTable
  <2>3. \A h \in Hashes : ~HasCopy(blob_copy', h, w)
    BY <1>1, <2>2 DEF HasCopy, NoCopy
  <2>4. ~Registered(worker_state, w)
    BY <1>0, <1>1, <2>1 DEF RegisterReads
  <2>5. RegisterReads'
    BY <1>1, <1>2, <1>4, <2>1, <2>3, <2>4 DEF RegisterReads, Started, Final
  <2>6. ASSUME NEW v \in Workers
        PROVE  IsFiniteSet(Reserved(v)') /\ Promised(v)' <= Promised(v)
    <3>1. \A h \in Hashes : HasCopy(blob_copy', h, v) =>
            HasCopy(blob_copy, h, v) /\ blob_copy'[h][v].size_mb = blob_copy[h][v].size_mb
      BY <2>2, <2>3 DEF HasCopy
    <3> QED
      BY <1>7, <3>1, ReservedShrinks
  <2>7. SizesCount'
    <3>1. NoCopy.size_mb \in Nat
      BY DEF NoCopy
    <3> QED
      BY <1>0, <2>2, <2>6, <3>1 DEF SizesCount
  <2>8. \A v \in Workers : RightAt(v)'
    BY <1>5, <1>7, <2>1, <2>6, RightKept DEF Registered
  <2> QED
    BY <1>6, <2>5, <2>7, <2>8 DEF Accounts, AccountsRight
<1>13. CASE AddWorkerState(r)
  <2>1. /\ register[r].pc = "addWorkerState"
        /\ UNCHANGED blob_copy
        /\ register'[r].pc \in Final
    BY <1>1, <1>13, AnswersAreFinal DEF AddWorkerState, RegisterCall, Final
  <2>2. ~Registered(worker_state, w) /\ \A h \in Hashes : ~HasCopy(blob_copy, h, w)
    BY <1>0, <1>1, <2>1 DEF RegisterReads
  <2>3. worker_state' = addWorkerState(worker_state, w, register[r].space)
    BY <1>1, <1>13, <2>2 DEF AddWorkerState
  <2>4. RegisterReads'
    BY <1>4, <2>1 DEF RegisterReads, Started, Final
  <2>5. \A v \in Workers : v # w => worker_state'[v] = worker_state[v]
    BY <1>1, <2>3 DEF addWorkerState, WorkerStateTable
  <2>6. RightAt(w)'
    <3>1. Promised(w)' = 0
      <4>1. \A x : x \notin Reserved(w)
        BY <2>2, ReservedPairs
      <4>2. Reserved(w) = {}
        BY <4>1
      <4> QED
        BY <1>1, <1>8, <2>1, <4>2, FS_EmptySet DEF Promised
    <3>2. FreeSpace(worker_state'[w]) = register[r].space - 0
      BY <1>1, <2>3 DEF addWorkerState, FreeSpace, WorkerStateTable
    <3>3. register[r].space - 0 <= register[r].space - 0 + 0
      <4>1. \A s \in Spaces : s \in Int
        BY SpacesAssumption
      <4>2. register[r].space \in Int
        BY <1>1, <4>1
      <4> QED
        BY <4>2
    <3> QED
      BY <1>1, <3>1, <3>2, <3>3 DEF RightAt, FreeWithin
  <2> QED
    BY <1>6, <1>9, <1>10, <2>1, <2>4, <2>5, <2>6 DEF Accounts, AccountsRight
<1> QED
  BY <1>11, <1>12, <1>13 DEF RegisterStep

LEMMA AccountsDelete ==
  ASSUME TypeOK, TypeOK', Accounts, OneAtATime', NEW d \in Deletes, DeleteStep(d)
  PROVE  Accounts'
<1>0. /\ SizesCount /\ AccountsRight /\ AllocReads /\ NotifyReads /\ RegisterReads
      /\ Alone
  BY AloneInFlight DEF Accounts
<1>1. UNCHANGED <<worker_state, alloc, notify, register>>
  BY DEF DeleteStep, DeleteBlob, AskWorker, DeleteEntries, tables
<1>2. AllocReads'
  BY <1>0, <1>1 DEF AllocReads, ToLock
<1>3. CASE UNCHANGED blob_copy
  <2>1. SizesCount' /\ AccountsRight'
    BY <1>0, <1>1, <1>3, RightUnwritten DEF ToLock, tables
  <2>2. NotifyReads' /\ RegisterReads'
    BY <1>0, <1>1, <1>3 DEF NotifyReads, RegisterReads
  <2> QED
    BY <1>2, <2>1, <2>2 DEF Accounts
<1>4. CASE DeleteEntries(d)
  <2>1. /\ delete[d].hash \in Hashes
        /\ blob_copy \in BlobCopyTable
        /\ blob_copy' = deleteBlobEntryByHash(blob_copy, delete[d].hash)
        /\ Started(delete[d].pc)
    BY <1>4 DEF TypeOK, DeleteCall, DeleteEntries, Started, Final
  <2>2. \A h \in Hashes, v \in Workers :
          blob_copy'[h][v] = IF h = delete[d].hash THEN NoCopy ELSE blob_copy[h][v]
    BY <2>1 DEF deleteBlobEntryByHash, BlobCopyTable
  <2>3. NotifyReads'
    BY <1>0, <1>1, <2>1 DEF Alone, NotifyReads, Started, Final
  <2>4. \A h \in Hashes, v \in Workers : HasCopy(blob_copy', h, v) =>
          HasCopy(blob_copy, h, v) /\ blob_copy'[h][v].size_mb = blob_copy[h][v].size_mb
    BY <2>2 DEF HasCopy, NoCopy
  <2>5. RegisterReads'
    <3>1. \A r \in Registers : register[r].worker \in Workers
      BY DEF TypeOK, RegisterCall
    <3> QED
      BY <1>0, <1>1, <2>4, <3>1 DEF RegisterReads
  <2>6. ASSUME NEW v \in Workers
        PROVE  /\ IsFiniteSet(Reserved(v)) /\ IsFiniteSet(Reserved(v)')
               /\ Promised(v)' <= Promised(v)
    BY <1>0, <2>4, ReservedShrinks DEF SizesCount
  <2>7. SizesCount'
    <3>1. NoCopy.size_mb \in Nat
      BY DEF NoCopy
    <3> QED
      BY <1>0, <2>2, <2>6, <3>1 DEF SizesCount
  <2>8. ASSUME NEW v \in Workers
        PROVE  RightAt(v)'
    <3>1. RightAt(v)
      BY <1>0 DEF AccountsRight
    <3> QED
      BY <1>1, <2>6, <3>1, RightKept DEF ToLock, Registered
  <2> QED
    BY <1>2, <2>3, <2>5, <2>7, <2>8 DEF Accounts, AccountsRight
<1> QED
  BY <1>3, <1>4 DEF DeleteStep, DeleteBlob, AskWorker, tables

LEMMA AccountsUntouched ==
  ASSUME TypeOK, TypeOK', Accounts, OneAtATime',
         UNCHANGED <<tables, alloc, notify, register>>
  PROVE  Accounts'
<1>1. SizesCount' /\ AccountsRight'
  BY RightUnwritten DEF Accounts, ToLock
<1>2. AllocReads' /\ NotifyReads' /\ RegisterReads'
  BY DEF Accounts, AllocReads, NotifyReads, RegisterReads, ToLock, tables
<1> QED
  BY <1>1, <1>2 DEF Accounts

\* The tables begin with no copy, and workers with the space they reported.
LEMMA AccountsInit == Init => Accounts
<1> SUFFICES ASSUME Init PROVE Accounts
  OBVIOUS
<1>1. InFlight = {}
  BY DEF Init, InFlight, Started
<1>2. \A h \in Hashes, w \in Workers : blob_copy[h][w] = NoCopy
  BY DEF Init
<1>3. ASSUME NEW w \in Workers
      PROVE  IsFiniteSet(Reserved(w)) /\ Promised(w) = 0
  <2>1. \A x : x \notin Reserved(w)
    BY <1>2, ReservedPairs DEF HasCopy, NoCopy
  <2>2. Reserved(w) = {}
    BY <2>1
  <2> QED
    BY <2>2, FS_EmptySet DEF Promised
<1>4. SizesCount
  BY <1>2, <1>3 DEF SizesCount, NoCopy
<1>5. ASSUME NEW w \in Workers, Registered(worker_state, w)
      PROVE  FreeWithin(w, 0)
  <2>1. worker_state[w] \in [registered : {TRUE}, available_space_mb : Spaces,
                             locked_space_mb : {0}]
    <3>1. NoWorker.registered = FALSE
      BY DEF NoWorker
    <3>2. worker_state[w] # NoWorker
      BY <1>5, <3>1 DEF Registered
    <3> QED
      BY <3>2 DEF Init
  <2>2. PICK s \in Spaces : FreeSpace(worker_state[w]) = s - 0
    BY <2>1 DEF FreeSpace
  <2>3. s - 0 <= s - 0 + 0
    BY SpacesAssumption
  <2> QED
    BY <1>3, <2>2, <2>3 DEF FreeWithin
<1>6. AllocReads /\ NotifyReads /\ RegisterReads
  BY DEF Init, AllocReads, NotifyReads, RegisterReads, Started, ToLock
<1> QED
  BY <1>1, <1>4, <1>5, <1>6 DEF Accounts, OneAtATime, AccountsRight, RightAt

\* The record of how the handlers were run changes nothing they do.
LEMMA AccountedIsSpec == AccountedSpec => Spec
<1>1. AccountedInit => Init
  BY DEF AccountedInit
<1>2. [AccountedNext]_<<vars, orderly>> => [Next]_vars
  BY DEF AccountedNext
<1> QED
  BY <1>1, <1>2, PTL DEF AccountedSpec, Spec

LEMMA OrderlyAccountsInductive == AccountedSpec => []OrderlyAccounts
<1>1. AccountedSpec => []TypeOK
  BY AccountedIsSpec, TypeCorrect, PTL
<1>2. AccountedInit => OrderlyAccounts
  BY AccountsInit DEF AccountedInit, OrderlyAccounts
<1>3. TypeOK /\ TypeOK' /\ OrderlyAccounts /\ [AccountedNext]_<<vars, orderly>>
        => OrderlyAccounts'
  <2> SUFFICES ASSUME TypeOK, TypeOK', OrderlyAccounts,
                      [AccountedNext]_<<vars, orderly>>, orderly'
               PROVE  Accounts'
    BY DEF OrderlyAccounts
  <2>1. CASE UNCHANGED <<vars, orderly>>
    <3>1. Accounts
      BY <2>1 DEF OrderlyAccounts
    <3>2. UNCHANGED <<tables, alloc, notify, register>> /\ OneAtATime'
      BY <2>1, <3>1 DEF vars, tables, Accounts, OneAtATime, InFlight
    <3> QED
      BY <3>1, <3>2, AccountsUntouched
  <2>2. CASE AccountedNext
    <3>1. Accounts /\ OneAtATime' /\ ~Fault /\ Next
      BY <2>2 DEF AccountedNext, OrderlyAccounts
    <3>2. ASSUME NEW l \in Locates, LocateStep(l)
          PROVE  UNCHANGED <<tables, alloc, notify, register>>
      BY <3>2 DEF LocateStep, GetWorkerWithBlob, AnswerLocate
    <3>3. UNCHANGED vars => UNCHANGED <<tables, alloc, notify, register>>
      BY DEF vars, tables
    <3> QED
      BY <3>1, <3>2, <3>3, AccountsAlloc, AccountsNotify, AccountsRegister, AccountsDelete,
         AccountsUntouched DEF Next
  <2> QED
    BY <2>1, <2>2
<1> QED
  BY <1>1, <1>2, <1>3, PTL DEF AccountedSpec

\* As long as the masters are given one call at a time and none fails midway,
\* what they believe free on a worker is, between calls, within what it reported
\* less the copies placed on it, whatever calls were made and in whatever order.
THEOREM OrderlyAccounting == AccountedSpec => []OrderlySpaceNotOverpromised
<1>1. OrderlyAccounts => OrderlySpaceNotOverpromised
  <2> SUFFICES ASSUME Accounts, InFlight = {}, NEW w \in Workers, Registered(worker_state, w)
               PROVE  FreeWithin(w, 0)
    BY DEF OrderlyAccounts, OrderlySpaceNotOverpromised, SpaceNotOverpromised
  <2>1. \A a \in Allocs : ~ToLock(a, w)
    <3>1. \A a \in Allocs : Started(alloc[a].pc) => <<"alloc", a>> \in InFlight
      BY DEF InFlight
    <3> QED
      BY <3>1 DEF ToLock, Started, Final
  <2> QED
    BY <2>1 DEF Accounts, AccountsRight, RightAt
<1> QED
  BY <1>1, OrderlyAccountsInductive, PTL

\* The two together: run one at a time, the masters never place on a worker more
\* than it can hold, so that every copy they announce has its space.
CopiesFit ==
  orderly /\ InFlight = {} =>
    \A w \in Workers : Registered(worker_state, w) => \E s \in Spaces : Promised(w) <= s

THEOREM OrderlyCopiesFit == AccountedSpec => []CopiesFit
<1>1. AccountedSpec => []BelievedSpaceNotNegative
  BY AccountedIsSpec, SpaceNeverNegative, PTL
<1>2. OrderlyAccounts /\ OrderlySpaceNotOverpromised /\ BelievedSpaceNotNegative /\ TypeOK
        => CopiesFit
  <2> SUFFICES ASSUME Accounts, SpaceNotOverpromised, BelievedSpaceNotNegative, TypeOK,
                      InFlight = {}, NEW w \in Workers, Registered(worker_state, w)
               PROVE  \E s \in Spaces : Promised(w) <= s
    BY DEF OrderlyAccounts, OrderlySpaceNotOverpromised, CopiesFit
  <2>1. PICK s \in Spaces : FreeSpace(worker_state[w]) <= s - Promised(w) + 0
    BY DEF SpaceNotOverpromised, FreeWithin
  <2>2. /\ FreeSpace(worker_state[w]) \in Int
        /\ FreeSpace(worker_state[w]) >= 0
        /\ Promised(w) \in Nat
        /\ s \in Int
    <3>1. worker_state[w] \in WorkerStateDTO
      BY DEF TypeOK, WorkerStateTable
    <3> QED
      BY <3>1, FreeSpaceOfWrites, PromisedCount, SpacesAssumption
      DEF BelievedSpaceNotNegative, Accounts
  <2> QED
    BY <2>1, <2>2
<1>3. AccountedSpec => []TypeOK
  BY AccountedIsSpec, TypeCorrect, PTL
<1> QED
  BY <1>1, <1>2, <1>3, OrderlyAccountsInductive, OrderlyAccounting, PTL
=============================================================================
