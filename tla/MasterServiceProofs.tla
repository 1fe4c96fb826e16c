------------------------ MODULE MasterServiceProofs -------------------------
(***************************************************************************)
(* The types of MasterService and what becomes of a copy, for any number   *)
(* of calls: ReportedCopyStaysSaved, ExclusivePlacement and                *)
(* AllocationComplete, and that the handlers implement BlobCatalog.        *)
(*                                                                         *)
(* The argument for copies: a step does one of four things to a row        *)
(* (CopyFate), an erased row stays accounted for (ErasedStable), so "has a *)
(* copy or was erased" and "is SAVED or was erased" survive every step     *)
(* once true.                                                              *)
(***************************************************************************)
EXTENDS MasterService, TLAPS

-----------------------------------------------------------------------------
(* The operators from table to table return tables. *)

\* Every mutation of blob_copy yields a table of copies.
LEMMA BlobCopyTyping ==
  ASSUME NEW copies \in BlobCopyTable, NEW h \in Hashes, NEW w \in Workers,
         NEW size \in Int
  PROVE  /\ addBlobEntry(copies, h, w, size) \in BlobCopyTable
         /\ updateBlobEntry(copies, h, w, size) \in BlobCopyTable
         /\ deleteBlobEntryByHash(copies, h) \in BlobCopyTable
         /\ deleteBlobEntriesByWorkerAddress(copies, w) \in BlobCopyTable
         /\ queryBlobByHashAndWorkerId(copies, h, w) \in BlobCopyDTO
         /\ querySavedBlobByHash(copies, h) \subseteq Workers
<1> USE DEF BlobCopyTable
<1>1. NoCopy \in BlobCopyDTO
  BY DEF NoCopy, BlobCopyDTO
<1>2. /\ [state |-> DURING_CREATION, size_mb |-> size] \in BlobCopyDTO
      /\ [state |-> SAVED, size_mb |-> size] \in BlobCopyDTO
  BY DEF BlobCopyDTO, DURING_CREATION, SAVED
<1>3. /\ addBlobEntry(copies, h, w, size) \in BlobCopyTable
      /\ updateBlobEntry(copies, h, w, size) \in BlobCopyTable
  BY <1>2 DEF addBlobEntry, updateBlobEntry
<1>4. deleteBlobEntryByHash(copies, h) \in BlobCopyTable
  BY <1>1 DEF deleteBlobEntryByHash
<1>5. deleteBlobEntriesByWorkerAddress(copies, w) \in BlobCopyTable
  BY <1>1 DEF deleteBlobEntriesByWorkerAddress
<1> QED
  BY <1>3, <1>4, <1>5 DEF queryBlobByHashAndWorkerId, querySavedBlobByHash

\* Every mutation of worker_state yields a table of workers, and the rows the
\* handlers write back are rows.
LEMMA WorkerStateTyping ==
  ASSUME NEW states \in WorkerStateTable, NEW w \in Workers,
         NEW row \in WorkerStateDTO, NEW size \in Int
  PROVE  /\ addWorkerState(states, w, size) \in WorkerStateTable
         /\ updateWorkerState(states, w, row) \in WorkerStateTable
         /\ deleteWorkerState(states, w) \in WorkerStateTable
         /\ getWorkerState(states, w) \in WorkerStateDTO
         /\ LockedRow(row, size) \in WorkerStateDTO
         /\ ChargedRow(row, size) \in WorkerStateDTO
<1> USE DEF WorkerStateTable
<1>1. NoWorker \in WorkerStateDTO
  BY DEF NoWorker, WorkerStateDTO
<1>2. [registered |-> TRUE, available_space_mb |-> size,
       locked_space_mb |-> 0] \in WorkerStateDTO
  BY DEF WorkerStateDTO
<1>3. LockedRow(row, size) \in WorkerStateDTO
  <2>1. size + row.locked_space_mb \in Int
    BY DEF WorkerStateDTO
  <2> QED
    BY <2>1 DEF LockedRow, WorkerStateDTO
<1>4. ChargedRow(row, size) \in WorkerStateDTO
  <2>1. /\ row.locked_space_mb - size \in Int
        /\ row.available_space_mb - size \in Int
    BY DEF WorkerStateDTO
  <2> QED
    BY <2>1 DEF ChargedRow, WorkerStateDTO
<1> QED
  BY <1>1, <1>2, <1>3, <1>4
  DEF addWorkerState, updateWorkerState, deleteWorkerState, getWorkerState

-----------------------------------------------------------------------------
(* Type correctness *)

\* An answer is a final status.
LEMMA AnswersAreFinal == Answers \subseteq Final
BY DEF Answers, Final

\* The records of the calls keep their type when a call returns.
LEMMA ReturnTyping ==
  ASSUME TypeOK
  PROVE  /\ \A a \in Allocs, status \in Final, placed \in SUBSET Workers :
              ReturnAlloc(a, status, placed) => alloc' \in [Allocs -> AllocCall]
         /\ \A n \in Notifies, status \in Final :
              ReturnNotify(n, status) => notify' \in [Notifies -> NotifyCall]
<1>1. NoRows \in WorkerStateTable /\ NoWorker \in WorkerStateDTO
  BY DEF NoRows, NoWorker, WorkerStateTable, WorkerStateDTO
<1>2. ASSUME NEW a \in Allocs, NEW status \in Final, NEW placed \in SUBSET Workers,
             ReturnAlloc(a, status, placed)
      PROVE  alloc' \in [Allocs -> AllocCall]
  <2>1. alloc \in [Allocs -> AllocCall]
    BY DEF TypeOK
  <2> QED
    BY <1>1, <1>2, <2>1, ZenonT(60) DEF ReturnAlloc, AllocCall
<1>3. ASSUME NEW n \in Notifies, NEW status \in Final, ReturnNotify(n, status)
      PROVE  notify' \in [Notifies -> NotifyCall]
  <2>1. notify \in [Notifies -> NotifyCall]
    BY DEF TypeOK
  <2>2. \A size \in Int : [notify[n] EXCEPT !.pc = status, !.row = NoWorker,
                                           !.size = size] \in NotifyCall
    BY <1>1, <2>1 DEF NotifyCall
  <2>3. [notify[n] EXCEPT !.pc = status, !.row = NoWorker, !.size = 0] \in NotifyCall
    <3>1. 0 \in Int
      OBVIOUS
    <3> QED
      BY <2>2, <3>1, Zenon
  <2> QED
    BY <1>3, <2>1, <2>3 DEF ReturnNotify
<1> QED
  BY <1>2, <1>3

\* The fields of an allocation, the size as the number it is.
LEMMA AllocTyping ==
  ASSUME TypeOK, NEW a \in Allocs
  PROVE  /\ alloc[a].hash \in Hashes
         /\ alloc[a].size \in Int
         /\ alloc[a].rows \in WorkerStateTable
         /\ alloc[a].todo \in SUBSET Workers
         /\ alloc[a].placed \in SUBSET Workers
<1>0. alloc \in [Allocs -> AllocCall]
  BY DEF TypeOK
<1>1. /\ alloc[a].hash \in Hashes
      /\ alloc[a].rows \in WorkerStateTable
      /\ alloc[a].todo \in SUBSET Workers
      /\ alloc[a].placed \in SUBSET Workers
  BY <1>0 DEF AllocCall
<1>2. alloc[a].size \in Int
  <2>1. alloc[a].size \in Sizes
    BY <1>0 DEF AllocCall
  <2>2. \A size \in Sizes : size \in Int
    BY SizesAssumption
  <2> QED
    BY <2>1, <2>2, Zenon
<1> QED
  BY <1>1, <1>2

LEMMA TypeAlloc ==
  ASSUME TypeOK, NEW a \in Allocs, AllocStep(a)
  PROVE  TypeOK'
<1> SUFFICES /\ blob_copy' \in BlobCopyTable
             /\ worker_state' \in WorkerStateTable
             /\ alloc' \in [Allocs -> AllocCall]
             /\ UNCHANGED <<notify, locate, register, delete>>
  BY DEF TypeOK
<1> USE DEF tables
<1>0. /\ alloc \in [Allocs -> AllocCall]
      /\ blob_copy \in BlobCopyTable
      /\ worker_state \in WorkerStateTable
  BY DEF TypeOK
<1>1. /\ alloc[a].hash \in Hashes
      /\ alloc[a].rows \in WorkerStateTable
      /\ alloc[a].todo \in SUBSET Workers
      /\ alloc[a].placed \in SUBSET Workers
  BY AllocTyping
<1>2. alloc[a].size \in Int
  BY AllocTyping
<1>3. \A status \in Final, placed \in SUBSET Workers :
        ReturnAlloc(a, status, placed) => alloc' \in [Allocs -> AllocCall]
  BY ReturnTyping
<1>4. ASSUME GetWorkersToSaveBlob(a)
      PROVE  alloc' \in [Allocs -> AllocCall] /\ UNCHANGED <<blob_copy, worker_state>>
  <2>1. ASSUME ReturnAlloc(a, "error", {})
        PROVE  alloc' \in [Allocs -> AllocCall]
    BY <1>3, <2>1 DEF Final
  <2>2. ASSUME NEW chosen \in SUBSET Workers,
               alloc' = [alloc EXCEPT
                 ![a].pc = "addBlobEntry",
                 ![a].todo = chosen,
                 ![a].rows = [w \in Workers |-> IF w \in chosen THEN worker_state[w]
                                                                ELSE NoWorker]]
        PROVE  alloc' \in [Allocs -> AllocCall]
    <3> DEFINE rows == [w \in Workers |-> IF w \in chosen THEN worker_state[w]
                                                          ELSE NoWorker]
    <3>1. rows \in WorkerStateTable
      <4>1. NoWorker \in WorkerStateDTO
        BY DEF NoWorker, WorkerStateDTO
      <4> QED
        BY <1>0, <4>1 DEF WorkerStateTable
    <3>2. alloc' = [alloc EXCEPT ![a].pc = "addBlobEntry", ![a].todo = chosen,
                                 ![a].rows = rows]
      BY <2>2
    <3> HIDE DEF rows
    <3> QED
      BY <1>0, <3>1, <3>2, ZenonT(60) DEF AllocCall
  <2> QED
    BY <1>4, <2>1, <2>2 DEF GetWorkersToSaveBlob, getWorkersWithFreeSpace, tables
<1>5. ASSUME NEW w \in Workers, AddBlobEntry(a, w)
      PROVE  alloc' \in [Allocs -> AllocCall] /\ blob_copy' \in BlobCopyTable
  <2>1. CASE ~HasCopy(blob_copy, alloc[a].hash, w)
    <3>1. alloc' = [alloc EXCEPT ![a].pc = "updateWorkerState", ![a].placed = @ \cup {w}]
      BY <1>5, <2>1 DEF AddBlobEntry
    <3>2. alloc' \in [Allocs -> AllocCall]
      BY <1>0, <1>1, <3>1 DEF AllocCall
    <3>3. blob_copy' \in BlobCopyTable
      BY <1>0, <1>1, <1>2, <1>5, <2>1, BlobCopyTyping DEF AddBlobEntry
    <3> QED
      BY <3>2, <3>3
  <2>2. CASE HasCopy(blob_copy, alloc[a].hash, w)
    BY <1>0, <1>1, <1>3, <1>5, <2>2 DEF AddBlobEntry, Final
  <2> QED
    BY <2>1, <2>2
<1>6. ASSUME NEW w \in Workers, LockSpace(a, w)
      PROVE  alloc' \in [Allocs -> AllocCall] /\ worker_state' \in WorkerStateTable
  <2>1. worker_state' \in WorkerStateTable
    <3>1. alloc[a].rows[w] \in WorkerStateDTO
      BY <1>1 DEF WorkerStateTable
    <3>2. LockedRow(alloc[a].rows[w], alloc[a].size) \in WorkerStateDTO
      BY <1>0, <1>2, <3>1, WorkerStateTyping
    <3> QED
      BY <1>0, <1>6, <3>2, WorkerStateTyping DEF LockSpace
  <2>2. CASE \E status \in Answers : ReturnAlloc(a, status, alloc[a].placed)
    BY <1>1, <1>3, <2>1, <2>2, AnswersAreFinal
  <2>3. CASE ReturnAlloc(a, "error", alloc[a].placed)
    BY <1>1, <1>3, <2>1, <2>3 DEF Final
  <2>4. CASE alloc' = [alloc EXCEPT ![a].pc = "addBlobEntry", ![a].todo = @ \ {w}]
    BY <1>0, <1>1, <2>1, <2>4 DEF AllocCall
  <2> QED
    BY <1>6, <2>1, <2>2, <2>3, <2>4 DEF LockSpace
<1> QED
  BY <1>0, <1>4, <1>5, <1>6
  DEF AllocStep, GetWorkersToSaveBlob, AddBlobEntry, LockSpace

LEMMA TypeNotify ==
  ASSUME TypeOK, NEW n \in Notifies, NotifyStep(n)
  PROVE  TypeOK'
<1> SUFFICES /\ blob_copy' \in BlobCopyTable
             /\ worker_state' \in WorkerStateTable
             /\ notify' \in [Notifies -> NotifyCall]
             /\ UNCHANGED <<alloc, locate, register, delete>>
  BY DEF TypeOK
<1>0. /\ notify \in [Notifies -> NotifyCall]
      /\ blob_copy \in BlobCopyTable
      /\ worker_state \in WorkerStateTable
  BY DEF TypeOK
<1>1. /\ notify[n].hash \in Hashes
      /\ notify[n].worker \in Workers
      /\ notify[n].row \in WorkerStateDTO
      /\ notify[n].size \in Int
  BY <1>0 DEF NotifyCall
<1>2. \A status \in Final :
        ReturnNotify(n, status) => notify' \in [Notifies -> NotifyCall]
  BY ReturnTyping
<1>3. ASSUME ReturnNotify(n, "ok") \/ ReturnNotify(n, "error")
      PROVE  notify' \in [Notifies -> NotifyCall]
  BY <1>2, <1>3 DEF Final
<1>4. ASSUME NotifyBlobSaved(n)
      PROVE  notify' \in [Notifies -> NotifyCall]
  <2> DEFINE copy == queryBlobByHashAndWorkerId(blob_copy, notify[n].hash, notify[n].worker)
  <2>1. copy.size_mb \in Int
    <3>1. copy \in BlobCopyDTO
      BY <1>0, <1>1, BlobCopyTyping
    <3> QED
      BY <3>1 DEF BlobCopyDTO
  <2> HIDE DEF copy
  <2>2. ASSUME notify' = [notify EXCEPT ![n].pc = "updateBlobEntry",
                                        ![n].size = copy.size_mb]
        PROVE  notify' \in [Notifies -> NotifyCall]
    BY <1>0, <2>1, <2>2 DEF NotifyCall
  <2> QED
    BY <1>3, <1>4, <2>2 DEF NotifyBlobSaved, copy
<1>5. ASSUME UpdateBlobEntry(n)
      PROVE  notify' \in [Notifies -> NotifyCall] /\ blob_copy' \in BlobCopyTable
  <2>1. blob_copy' \in BlobCopyTable
    BY <1>0, <1>1, <1>5, BlobCopyTyping DEF UpdateBlobEntry
  <2>2. ASSUME notify' = [notify EXCEPT ![n].pc = "getWorkerState"]
        PROVE  notify' \in [Notifies -> NotifyCall]
    BY <1>0, <2>2 DEF NotifyCall
  <2> QED
    BY <1>3, <1>5, <2>1, <2>2 DEF UpdateBlobEntry
<1>6. ASSUME ReadWorkerState(n)
      PROVE  notify' \in [Notifies -> NotifyCall]
  <2> DEFINE row == getWorkerState(worker_state, notify[n].worker)
  <2>1. row \in WorkerStateDTO
    BY <1>0, <1>1, WorkerStateTyping DEF getWorkerState, WorkerStateTable
  <2> HIDE DEF row
  <2>2. ASSUME notify' = [notify EXCEPT ![n].pc = "updateWorkerState", ![n].row = row]
        PROVE  notify' \in [Notifies -> NotifyCall]
    BY <1>0, <2>1, <2>2 DEF NotifyCall
  <2> QED
    BY <1>3, <1>6, <2>2 DEF ReadWorkerState, row
<1>7. ASSUME ChargeSpace(n)
      PROVE  notify' \in [Notifies -> NotifyCall] /\ worker_state' \in WorkerStateTable
  <2>1. ChargedRow(notify[n].row, notify[n].size) \in WorkerStateDTO
    BY <1>0, <1>1, WorkerStateTyping
  <2>2. worker_state' \in WorkerStateTable
    BY <1>0, <1>1, <1>7, <2>1, WorkerStateTyping DEF ChargeSpace
  <2> QED
    BY <1>2, <1>3, <1>7, <2>2, AnswersAreFinal DEF ChargeSpace
<1> QED
  BY <1>0, <1>4, <1>5, <1>6, <1>7
  DEF NotifyStep, NotifyBlobSaved, UpdateBlobEntry, ReadWorkerState, ChargeSpace, tables

LEMMA TypeLocate ==
  ASSUME TypeOK, NEW l \in Locates, LocateStep(l)
  PROVE  TypeOK'
<1> SUFFICES locate' \in [Locates -> LocateCall]
  BY DEF TypeOK, LocateStep, GetWorkerWithBlob, AnswerLocate, tables
<1>1. locate \in [Locates -> LocateCall] /\ locate[l].hash \in Hashes
  BY DEF TypeOK, LocateCall
<1>2. ASSUME NEW status \in Final, locate' = [locate EXCEPT ![l].pc = status]
      PROVE  locate' \in [Locates -> LocateCall]
  BY <1>1, <1>2 DEF LocateCall
<1>3. CASE GetWorkerWithBlob(l)
  <2>1. ASSUME NEW w \in Workers,
               locate' = [locate EXCEPT ![l].pc = "getWorkerState", ![l].chosen = {w}]
        PROVE  locate' \in [Locates -> LocateCall]
    BY <1>1, <2>1 DEF LocateCall
  <2> QED
    BY <1>2, <1>3, <2>1 DEF GetWorkerWithBlob, querySavedBlobByHash, Final
<1>4. CASE \E w \in Workers : AnswerLocate(l, w)
  BY <1>2, <1>4 DEF AnswerLocate, Final
<1> QED
  BY <1>3, <1>4 DEF LocateStep

LEMMA TypeRegister ==
  ASSUME TypeOK, NEW r \in Registers, RegisterStep(r)
  PROVE  TypeOK'
<1>1. /\ register \in [Registers -> RegisterCall]
      /\ blob_copy \in BlobCopyTable
      /\ worker_state \in WorkerStateTable
  BY DEF TypeOK
<1>2. register[r].worker \in Workers
  BY <1>1 DEF RegisterCall
<1>3. register[r].space \in Int
  <2>1. register[r].space \in Spaces
    BY <1>1 DEF RegisterCall
  <2>2. \A space \in Spaces : space \in Int
    BY SpacesAssumption
  <2> QED
    BY <2>1, <2>2, Zenon
<1>4. register' \in [Registers -> RegisterCall]
  BY <1>1 DEF RegisterStep, RegisterWorker, DropCopies, AddWorkerState, RegisterCall, Final,
     Answers
<1>5. CASE RegisterWorker(r)
  <2>1. worker_state' \in WorkerStateTable
    BY <1>1, <1>2, <1>3, <1>5 DEF RegisterWorker, deleteWorkerState, NoWorker,
       WorkerStateTable, WorkerStateDTO
  <2> QED
    BY <1>4, <1>5, <2>1 DEF TypeOK, RegisterWorker
<1>6. CASE DropCopies(r)
  <2>1. blob_copy' \in BlobCopyTable
    BY <1>1, <1>2, <1>6 DEF DropCopies, deleteBlobEntriesByWorkerAddress, NoCopy,
       BlobCopyTable, BlobCopyDTO
  <2> QED
    BY <1>4, <1>6, <2>1 DEF TypeOK, DropCopies
<1>7. CASE AddWorkerState(r)
  <2>1. addWorkerState(worker_state, register[r].worker, register[r].space)
          \in WorkerStateTable
    BY <1>1, <1>2, <1>3 DEF addWorkerState, WorkerStateTable, WorkerStateDTO
  <2> QED
    BY <1>1, <1>4, <1>7, <2>1 DEF TypeOK, AddWorkerState
<1> QED
  BY <1>5, <1>6, <1>7 DEF RegisterStep

LEMMA TypeDelete ==
  ASSUME TypeOK, NEW d \in Deletes, DeleteStep(d)
  PROVE  TypeOK'
<1>1. /\ delete \in [Deletes -> DeleteCall]
      /\ blob_copy \in BlobCopyTable
  BY DEF TypeOK
<1>2. delete[d].hash \in Hashes
  BY <1>1 DEF DeleteCall
<1>3. querySavedBlobByHash(blob_copy, delete[d].hash) \subseteq Workers
  BY DEF querySavedBlobByHash
<1>4. delete' \in [Deletes -> DeleteCall]
  <2>1. CASE DeleteBlob(d)
    BY <1>1, <1>3, <2>1 DEF DeleteBlob, DeleteCall
  <2>2. CASE \E w \in Workers : AskWorker(d, w)
    BY <1>1, <2>2 DEF AskWorker, DeleteCall
  <2>3. CASE DeleteEntries(d)
    <3>1. PICK status \in Answers :
            delete' = [delete EXCEPT ![d].pc = status, ![d].erased = TRUE]
      BY <2>3 DEF DeleteEntries
    <3>2. status \in Final
      BY AnswersAreFinal
    <3> QED
      BY <1>1, <3>1, <3>2 DEF DeleteCall
  <2> QED
    BY <2>1, <2>2, <2>3 DEF DeleteStep
<1>5. blob_copy' \in BlobCopyTable
  <2>1. deleteBlobEntryByHash(blob_copy, delete[d].hash) \in BlobCopyTable
    BY <1>1, <1>2 DEF deleteBlobEntryByHash, BlobCopyTable, BlobCopyDTO, NoCopy
  <2> QED
    BY <1>1, <2>1 DEF DeleteStep, DeleteBlob, AskWorker, DeleteEntries, tables
<1> QED
  BY <1>4, <1>5 DEF TypeOK, DeleteStep, DeleteBlob, AskWorker, DeleteEntries, tables

LEMMA TypeFault ==
  ASSUME TypeOK, Fault
  PROVE  TypeOK'
<1> USE DEF TypeOK, tables
<1>1. ASSUME NEW a \in Allocs, AllocFails(a)
      PROVE  TypeOK'
  <2>1. alloc[a].placed \in SUBSET Workers
    BY DEF AllocCall
  <2>2. alloc' \in [Allocs -> AllocCall]
    BY <1>1, <2>1, ReturnTyping DEF AllocFails, Final
  <2> QED
    BY <1>1, <2>2 DEF AllocFails
<1>2. ASSUME NEW n \in Notifies, NotifyFails(n)
      PROVE  TypeOK'
  <2>1. notify' \in [Notifies -> NotifyCall]
    BY <1>2, ReturnTyping DEF NotifyFails, Final
  <2> QED
    BY <1>2, <2>1 DEF NotifyFails
<1>3. ASSUME NEW l \in Locates, LocateFails(l)
      PROVE  TypeOK'
  BY <1>3 DEF LocateFails, LocateCall, Final
<1>4. ASSUME NEW r \in Registers, RegisterFails(r)
      PROVE  TypeOK'
  BY <1>4 DEF RegisterFails, RegisterCall, Final
<1>5. ASSUME NEW d \in Deletes, DeleteFails(d)
      PROVE  TypeOK'
  BY <1>5 DEF DeleteFails, DeleteCall, Final
<1> QED
  BY <1>1, <1>2, <1>3, <1>4, <1>5 DEF Fault

\* The tables and the records of the calls keep their types, whatever the
\* interleaving of the handlers and the faults.
THEOREM TypeCorrect == Spec => []TypeOK
<1>1. Init => TypeOK
  <2> SUFFICES ASSUME Init PROVE TypeOK
    OBVIOUS
  <2>1. NoRows \in WorkerStateTable
    BY DEF NoRows, NoWorker, WorkerStateTable, WorkerStateDTO
  <2>2. blob_copy \in BlobCopyTable
    BY DEF Init, BlobCopyTable, BlobCopyDTO, NoCopy
  <2>3. worker_state \in WorkerStateTable
    <3>1. NoWorker \in WorkerStateDTO
      BY DEF NoWorker, WorkerStateDTO
    <3>2. [registered : {TRUE}, available_space_mb : Spaces, locked_space_mb : {0}]
            \subseteq WorkerStateDTO
      <4>1. Spaces \subseteq Int /\ {0} \subseteq Int /\ {TRUE} \subseteq BOOLEAN
        BY SpacesAssumption
      <4> QED
        BY <4>1, Zenon DEF WorkerStateDTO
    <3> QED
      BY <3>1, <3>2 DEF Init, WorkerStateTable
  <2>4. alloc \in [Allocs -> AllocCall]
    BY <2>1 DEF Init, AllocCall
  <2>5. notify \in [Notifies -> NotifyCall]
    <3>1. NoWorker \in WorkerStateDTO
      BY DEF NoWorker, WorkerStateDTO
    <3>2. [hash : Hashes, worker : Workers, pc : {"idle"}, size : {0}, row : {NoWorker}]
            \subseteq NotifyCall
      BY <3>1 DEF NotifyCall
    <3> QED
      BY <3>2 DEF Init
  <2>6. /\ locate \in [Locates -> LocateCall]
        /\ register \in [Registers -> RegisterCall]
        /\ delete \in [Deletes -> DeleteCall]
    BY DEF Init, LocateCall, RegisterCall, DeleteCall
  <2> QED
    BY <2>2, <2>3, <2>4, <2>5, <2>6 DEF TypeOK
<1>2. TypeOK /\ [Next]_vars => TypeOK'
  <2> SUFFICES ASSUME TypeOK, [Next]_vars PROVE TypeOK'
    OBVIOUS
  <2>1. CASE UNCHANGED vars
    BY <2>1 DEF vars, TypeOK
  <2>2. CASE Next
    BY <2>1, <2>2, TypeAlloc, TypeNotify, TypeLocate, TypeRegister, TypeDelete, TypeFault
    DEF Next
  <2> QED
    BY <2>1, <2>2
<1> QED
  BY <1>1, <1>2, PTL DEF Spec

-----------------------------------------------------------------------------
(* What becomes of a copy *)

HasCopyOrErased(h, w) == HasCopy(blob_copy, h, w) \/ Erased(h, w)
SavedOrErased(h, w) == blob_copy[h][w].state = SAVED \/ Erased(h, w)

-----------------------------------------------------------------------------
(* Who changes what *)

\* The record of a call changes only by a step of that RPC, and blob_copy only
\* by the four commits of the repository on it.
LEMMA Frames ==
  ASSUME Next
  PROVE  /\ \/ UNCHANGED alloc
            \/ \E a \in Allocs : AllocStep(a) \/ AllocFails(a)
         /\ \/ UNCHANGED notify
            \/ \E n \in Notifies : NotifyStep(n) \/ NotifyFails(n)
         /\ \/ UNCHANGED locate
            \/ \E l \in Locates : LocateStep(l) \/ LocateFails(l)
         /\ \/ UNCHANGED register
            \/ \E r \in Registers : RegisterStep(r) \/ RegisterFails(r)
         /\ \/ UNCHANGED delete
            \/ \E d \in Deletes : DeleteStep(d) \/ DeleteFails(d)
         /\ \/ UNCHANGED blob_copy
            \/ \E a \in Allocs, w \in Workers : AddBlobEntry(a, w)
            \/ \E n \in Notifies : UpdateBlobEntry(n)
            \/ \E r \in Registers : DropCopies(r)
            \/ \E d \in Deletes : DeleteEntries(d)
<1> USE DEF tables
<1>1. ASSUME NEW a \in Allocs, AllocStep(a)
      PROVE  /\ UNCHANGED <<notify, locate, register, delete>>
             /\ UNCHANGED blob_copy \/ \E w \in Workers : AddBlobEntry(a, w)
  BY <1>1 DEF AllocStep, GetWorkersToSaveBlob, AddBlobEntry, LockSpace
<1>2. ASSUME NEW n \in Notifies, NotifyStep(n)
      PROVE  /\ UNCHANGED <<alloc, locate, register, delete>>
             /\ UNCHANGED blob_copy \/ UpdateBlobEntry(n)
  BY <1>2 DEF NotifyStep, NotifyBlobSaved, UpdateBlobEntry, ReadWorkerState, ChargeSpace
<1>3. ASSUME NEW l \in Locates, LocateStep(l)
      PROVE  UNCHANGED <<blob_copy, alloc, notify, register, delete>>
  BY <1>3 DEF LocateStep, GetWorkerWithBlob, AnswerLocate
<1>4. ASSUME NEW r \in Registers, RegisterStep(r)
      PROVE  /\ UNCHANGED <<alloc, notify, locate, delete>>
             /\ UNCHANGED blob_copy \/ DropCopies(r)
  BY <1>4 DEF RegisterStep, RegisterWorker, DropCopies, AddWorkerState
<1>5. ASSUME NEW d \in Deletes, DeleteStep(d)
      PROVE  /\ UNCHANGED <<alloc, notify, locate, register>>
             /\ UNCHANGED blob_copy \/ DeleteEntries(d)
  BY <1>5 DEF DeleteStep, DeleteBlob, AskWorker, DeleteEntries
<1>6. ASSUME Fault
      PROVE  /\ UNCHANGED blob_copy
             /\ \/ /\ \E a \in Allocs : AllocFails(a)
                   /\ UNCHANGED <<notify, locate, register, delete>>
                \/ /\ \E n \in Notifies : NotifyFails(n)
                   /\ UNCHANGED <<alloc, locate, register, delete>>
                \/ /\ \E l \in Locates : LocateFails(l)
                   /\ UNCHANGED <<alloc, notify, register, delete>>
                \/ /\ \E r \in Registers : RegisterFails(r)
                   /\ UNCHANGED <<alloc, notify, locate, delete>>
                \/ /\ \E d \in Deletes : DeleteFails(d)
                   /\ UNCHANGED <<alloc, notify, locate, register>>
  BY <1>6 DEF Fault, AllocFails, NotifyFails, LocateFails, RegisterFails, DeleteFails
<1> QED
  BY <1>1, <1>2, <1>3, <1>4, <1>5, <1>6 DEF Next, vars

\* The arguments of a call never change.
LEMMA ArgumentsKept ==
  ASSUME TypeOK, Next
  PROVE  /\ \A a \in Allocs : alloc'[a].hash = alloc[a].hash
         /\ \A n \in Notifies : /\ notify'[n].hash = notify[n].hash
                                /\ notify'[n].worker = notify[n].worker
         /\ \A l \in Locates : locate'[l].hash = locate[l].hash
         /\ \A r \in Registers : register'[r].worker = register[r].worker
         /\ \A d \in Deletes : delete'[d].hash = delete[d].hash
<1>1. ASSUME NEW b \in Allocs, AllocStep(b) \/ AllocFails(b), NEW a \in Allocs
      PROVE  alloc'[a].hash = alloc[a].hash
  <2>1. alloc \in [Allocs -> AllocCall]
    BY DEF TypeOK
  <2>2. ASSUME NEW status, NEW placed, ReturnAlloc(b, status, placed)
        PROVE  alloc'[a].hash = alloc[a].hash
    BY <2>1, <2>2 DEF ReturnAlloc, AllocCall
  <2>3. CASE GetWorkersToSaveBlob(b)
    <3>1. ASSUME NEW todo, NEW rows,
                 alloc' = [alloc EXCEPT ![b].pc = "addBlobEntry", ![b].todo = todo,
                                        ![b].rows = rows]
          PROVE  alloc'[a].hash = alloc[a].hash
      BY <2>1, <3>1 DEF AllocCall
    <3> QED
      BY <2>2, <2>3, <3>1 DEF GetWorkersToSaveBlob
  <2>4. ASSUME NEW w \in Workers, AddBlobEntry(b, w)
        PROVE  alloc'[a].hash = alloc[a].hash
    BY <2>1, <2>2, <2>4 DEF AddBlobEntry, AllocCall
  <2>5. ASSUME NEW w \in Workers, LockSpace(b, w)
        PROVE  alloc'[a].hash = alloc[a].hash
    BY <2>1, <2>2, <2>5 DEF LockSpace, AllocCall
  <2> QED
    BY <1>1, <2>2, <2>3, <2>4, <2>5 DEF AllocStep, AllocFails
<1>2. ASSUME NEW m \in Notifies, NotifyStep(m) \/ NotifyFails(m), NEW n \in Notifies
      PROVE  /\ notify'[n].hash = notify[n].hash
             /\ notify'[n].worker = notify[n].worker
  <2>1. ASSUME NEW status, ReturnNotify(m, status)
        PROVE  notify'[n].hash = notify[n].hash /\ notify'[n].worker = notify[n].worker
    BY <2>1 DEF TypeOK, ReturnNotify, NotifyCall
  <2> QED
    BY <1>2, <2>1 DEF TypeOK, NotifyStep, NotifyBlobSaved, UpdateBlobEntry, ReadWorkerState,
       ChargeSpace, NotifyFails, NotifyCall
<1>3. ASSUME NEW k \in Locates, LocateStep(k) \/ LocateFails(k), NEW l \in Locates
      PROVE  locate'[l].hash = locate[l].hash
  BY <1>3 DEF TypeOK, LocateStep, GetWorkerWithBlob, AnswerLocate, LocateFails, LocateCall
<1>4. ASSUME NEW q \in Registers, RegisterStep(q) \/ RegisterFails(q), NEW r \in Registers
      PROVE  register'[r].worker = register[r].worker
  BY <1>4 DEF TypeOK, RegisterStep, RegisterWorker, DropCopies, AddWorkerState, RegisterFails,
     RegisterCall
<1>5. ASSUME NEW e \in Deletes, DeleteStep(e) \/ DeleteFails(e), NEW d \in Deletes
      PROVE  delete'[d].hash = delete[d].hash
  <2>1. ASSUME NEW status,
               delete' = [delete EXCEPT ![e].pc = status, ![e].erased = TRUE]
        PROVE  delete'[d].hash = delete[d].hash
    BY <2>1 DEF TypeOK, DeleteCall
  <2>2. CASE DeleteEntries(e)
    BY <2>1, <2>2 DEF DeleteEntries
  <2> QED
    BY <1>5, <2>2 DEF TypeOK, DeleteStep, DeleteBlob, AskWorker, DeleteFails, DeleteCall
<1> QED
  BY <1>1, <1>2, <1>3, <1>4, <1>5, Frames

\* A call that has begun has begun for good, and one that was answered stays as it
\* was answered.
LEMMA CallsGoOn ==
  ASSUME TypeOK, Next
  PROVE  /\ \A a \in Allocs : alloc[a].pc # "idle" => alloc'[a].pc # "idle"
         /\ \A n \in Notifies : /\ notify[n].pc # "idle" => notify'[n].pc # "idle"
                                /\ notify[n].pc \in Final => notify'[n].pc = notify[n].pc
         /\ \A l \in Locates : locate[l].pc \in Final => locate'[l] = locate[l]
         /\ \A r \in Registers : register[r].pc # "idle" => register'[r].pc # "idle"
         /\ \A d \in Deletes : delete[d].pc # "idle" => delete'[d].pc # "idle"
<1> USE DEF TypeOK, Final, Answers
<1>0. ASSUME NEW b \in Allocs, AllocStep(b) \/ AllocFails(b), NEW a \in Allocs,
             alloc[a].pc # "idle"
      PROVE  alloc'[a].pc # "idle"
  <2>1. ASSUME NEW status \in Final, NEW placed, ReturnAlloc(b, status, placed)
        PROVE  alloc'[a].pc # "idle"
    BY <1>0, <2>1 DEF ReturnAlloc, AllocCall
  <2>2. CASE AllocFails(b)
    BY <2>1, <2>2 DEF AllocFails
  <2>3. CASE GetWorkersToSaveBlob(b)
    <3>1. b # a
      BY <1>0, <2>3 DEF GetWorkersToSaveBlob
    <3> QED
      BY <1>0, <2>1, <2>3, <3>1 DEF GetWorkersToSaveBlob
  <2>4. ASSUME NEW w \in Workers, AddBlobEntry(b, w)
        PROVE  alloc'[a].pc # "idle"
    BY <1>0, <2>1, <2>4 DEF AddBlobEntry, AllocCall
  <2>5. ASSUME NEW w \in Workers, LockSpace(b, w)
        PROVE  alloc'[a].pc # "idle"
    BY <1>0, <2>1, <2>5 DEF LockSpace, AllocCall
  <2> QED
    BY <1>0, <2>2, <2>3, <2>4, <2>5 DEF AllocStep
<1>1. ASSUME NEW m \in Notifies, NotifyStep(m) \/ NotifyFails(m), NEW n \in Notifies
      PROVE  /\ notify[n].pc # "idle" => notify'[n].pc # "idle"
             /\ notify[n].pc \in Final => notify'[n].pc = notify[n].pc
  <2>1. CASE m # n
    BY <1>1, <2>1 DEF NotifyStep, NotifyBlobSaved, UpdateBlobEntry, ReadWorkerState,
       ChargeSpace, NotifyFails, ReturnNotify
  <2>2. CASE m = n
    <3>1. notify[n].pc \notin {"idle"} \cup Final \/ NotifyBlobSaved(n)
      BY <1>1, <2>2 DEF NotifyStep, UpdateBlobEntry, ReadWorkerState, ChargeSpace, NotifyFails
    <3>2. notify[n].pc \notin Final
      BY <3>1 DEF NotifyBlobSaved
    <3>3. ASSUME NEW status \in Final, ReturnNotify(n, status)
          PROVE  notify'[n].pc # "idle"
      BY <3>3 DEF ReturnNotify, NotifyCall
    <3>4. CASE NotifyBlobSaved(n) \/ UpdateBlobEntry(n)
      BY <3>3, <3>4 DEF NotifyBlobSaved, UpdateBlobEntry, NotifyCall
    <3>5. CASE ReadWorkerState(n) \/ ChargeSpace(n) \/ NotifyFails(n)
      BY <3>3, <3>5, AnswersAreFinal DEF ReadWorkerState, ChargeSpace, NotifyFails, NotifyCall
    <3> QED
      BY <1>1, <2>2, <3>2, <3>4, <3>5 DEF NotifyStep
  <2> QED
    BY <2>1, <2>2
<1>2. ASSUME NEW k \in Locates, LocateStep(k) \/ LocateFails(k), NEW l \in Locates,
             locate[l].pc \in Final
      PROVE  locate'[l] = locate[l]
  BY <1>2 DEF LocateStep, GetWorkerWithBlob, AnswerLocate, LocateFails, LocateCall
<1>3. ASSUME NEW q \in Registers, RegisterStep(q) \/ RegisterFails(q), NEW r \in Registers,
             register[r].pc # "idle"
      PROVE  register'[r].pc # "idle"
  BY <1>3 DEF RegisterStep, RegisterWorker, DropCopies, AddWorkerState, RegisterFails,
     RegisterCall
<1>4. ASSUME NEW e \in Deletes, DeleteStep(e) \/ DeleteFails(e), NEW d \in Deletes,
             delete[d].pc # "idle"
      PROVE  delete'[d].pc # "idle"
  <2>1. ASSUME NEW status \in Final,
               delete' = [delete EXCEPT ![e].pc = status, ![e].erased = TRUE]
        PROVE  delete'[d].pc # "idle"
    BY <1>4, <2>1 DEF DeleteCall
  <2>2. CASE DeleteEntries(e)
    BY <2>1, <2>2, AnswersAreFinal DEF DeleteEntries
  <2> QED
    BY <1>4, <2>2 DEF DeleteStep, DeleteBlob, AskWorker, DeleteFails, DeleteCall
<1> QED
  BY <1>0, <1>1, <1>2, <1>3, <1>4, Frames

\* The calls that account for an erased row go on accounting for it.
LEMMA ErasedStable ==
  ASSUME TypeOK, Next, NEW h \in Hashes, NEW w \in Workers, Erased(h, w)
  PROVE  Erased(h, w)'
<1>1. ASSUME NEW d \in Deletes, delete[d].hash = h, delete[d].erased
      PROVE  Erased(h, w)'
  <2>1. ASSUME NEW e \in Deletes, DeleteStep(e) \/ DeleteFails(e)
        PROVE  delete'[d].hash = h /\ delete'[d].erased
    <3>1. ASSUME NEW status,
                 delete' = [delete EXCEPT ![e].pc = status, ![e].erased = TRUE]
          PROVE  delete'[d].hash = h /\ delete'[d].erased
      BY <1>1, <3>1 DEF TypeOK, DeleteCall
    <3>2. CASE DeleteEntries(e)
      BY <3>1, <3>2 DEF DeleteEntries
    <3> QED
      BY <1>1, <2>1, <3>2 DEF TypeOK, DeleteCall, DeleteStep, DeleteBlob, AskWorker,
         DeleteFails
  <2>2. delete'[d].hash = h /\ delete'[d].erased
    BY <1>1, <2>1, Frames
  <2> QED
    BY <2>2 DEF Erased
<1>2. ASSUME NEW r \in Registers, register[r].worker = w,
             register[r].pc \in {"addWorkerState"} \cup Final
      PROVE  Erased(h, w)'
  <2>1. ASSUME NEW q \in Registers, RegisterStep(q) \/ RegisterFails(q)
        PROVE  register'[r].worker = w /\ register'[r].pc \in {"addWorkerState"} \cup Final
    BY <1>2, <2>1 DEF TypeOK, RegisterCall, RegisterStep, RegisterWorker, DropCopies,
       AddWorkerState, RegisterFails, Final, Answers
  <2>2. register'[r].worker = w /\ register'[r].pc \in {"addWorkerState"} \cup Final
    BY <1>2, <2>1, Frames
  <2> QED
    BY <2>2 DEF Erased
<1> QED
  BY <1>1, <1>2 DEF Erased

-----------------------------------------------------------------------------
(* What becomes of a row *)

\* A step leaves the row of h at w, inserts one where there was none, makes one
\* SAVED, or erases it.
LEMMA CopyFate ==
  ASSUME TypeOK, Next, NEW h \in Hashes, NEW w \in Workers
  PROVE  \/ blob_copy'[h][w] = blob_copy[h][w]
         \/ ~HasCopy(blob_copy, h, w) /\ blob_copy'[h][w].state = DURING_CREATION
         \/ HasCopy(blob_copy, h, w) /\ blob_copy'[h][w].state = SAVED
         \/ Erased(h, w)'
<1>0. blob_copy \in BlobCopyTable
  BY DEF TypeOK
<1>1. CASE UNCHANGED blob_copy
  BY <1>1
<1>2. ASSUME NEW a \in Allocs, NEW v \in Workers, AddBlobEntry(a, v)
      PROVE  \/ blob_copy'[h][w] = blob_copy[h][w]
             \/ ~HasCopy(blob_copy, h, w) /\ blob_copy'[h][w].state = DURING_CREATION
  BY <1>0, <1>2 DEF AddBlobEntry, addBlobEntry, BlobCopyTable
<1>3. ASSUME NEW n \in Notifies, UpdateBlobEntry(n)
      PROVE  \/ blob_copy'[h][w] = blob_copy[h][w]
             \/ HasCopy(blob_copy, h, w) /\ blob_copy'[h][w].state = SAVED
  BY <1>0, <1>3 DEF UpdateBlobEntry, updateBlobEntry, BlobCopyTable
<1>4. ASSUME NEW r \in Registers, DropCopies(r)
      PROVE  blob_copy'[h][w] = blob_copy[h][w] \/ Erased(h, w)'
  <2>1. CASE register[r].worker = w
    <3>1. register'[r].worker = w /\ register'[r].pc = "addWorkerState"
      BY <1>4, <2>1 DEF TypeOK, RegisterCall, DropCopies
    <3> QED
      BY <3>1 DEF Erased
  <2>2. CASE register[r].worker # w
    BY <1>0, <1>4, <2>2 DEF DropCopies, deleteBlobEntriesByWorkerAddress, BlobCopyTable
  <2> QED
    BY <2>1, <2>2
<1>5. ASSUME NEW d \in Deletes, DeleteEntries(d)
      PROVE  blob_copy'[h][w] = blob_copy[h][w] \/ Erased(h, w)'
  <2>1. CASE delete[d].hash = h
    <3>1. delete'[d].hash = h /\ delete'[d].erased
      BY <1>5, <2>1 DEF TypeOK, DeleteCall, DeleteEntries
    <3> QED
      BY <3>1 DEF Erased
  <2>2. CASE delete[d].hash # h
    BY <1>0, <1>5, <2>2 DEF DeleteEntries, deleteBlobEntryByHash, BlobCopyTable
  <2> QED
    BY <2>1, <2>2
<1> QED
  BY <1>1, <1>2, <1>3, <1>4, <1>5, Frames

\* A copy becomes SAVED by a notification of its own.
LEMMA SavedBy ==
  ASSUME TypeOK, Next, NEW h \in Hashes, NEW w \in Workers, blob_copy'[h][w].state = SAVED
  PROVE  \/ blob_copy[h][w].state = SAVED
         \/ \E n \in Notifies : notify[n].hash = h /\ notify[n].worker = w /\ notify[n].pc # "idle"
<1>0. blob_copy \in BlobCopyTable
  BY DEF TypeOK
<1>1. ASSUME NEW a \in Allocs, NEW v \in Workers, AddBlobEntry(a, v)
      PROVE  blob_copy[h][w].state = SAVED
  BY <1>0, <1>1 DEF AddBlobEntry, addBlobEntry, BlobCopyTable, DURING_CREATION, SAVED
<1>2. ASSUME NEW n \in Notifies, UpdateBlobEntry(n)
      PROVE  \/ blob_copy[h][w].state = SAVED
             \/ notify[n].hash = h /\ notify[n].worker = w /\ notify[n].pc # "idle"
  BY <1>0, <1>2 DEF UpdateBlobEntry, updateBlobEntry, BlobCopyTable
<1>3. ASSUME NEW r \in Registers, DropCopies(r)
      PROVE  blob_copy[h][w].state = SAVED
  BY <1>0, <1>3 DEF DropCopies, deleteBlobEntriesByWorkerAddress, BlobCopyTable, NoCopy, SAVED
<1>4. ASSUME NEW d \in Deletes, DeleteEntries(d)
      PROVE  blob_copy[h][w].state = SAVED
  BY <1>0, <1>4 DEF DeleteEntries, deleteBlobEntryByHash, BlobCopyTable, NoCopy, SAVED
<1> QED
  BY <1>1, <1>2, <1>3, <1>4, Frames

\* A row comes from an allocation.
LEMMA RowBy ==
  ASSUME TypeOK, Next, NEW h \in Hashes, NEW w \in Workers, blob_copy[h][w] = NoCopy
  PROVE  blob_copy'[h][w] = NoCopy \/ \E a \in Allocs : alloc[a].pc = "addBlobEntry"
<1>0. blob_copy \in BlobCopyTable
  BY DEF TypeOK
<1>1. ASSUME NEW a \in Allocs, NEW v \in Workers, AddBlobEntry(a, v)
      PROVE  alloc[a].pc = "addBlobEntry"
  BY <1>1 DEF AddBlobEntry
<1>2. ASSUME NEW n \in Notifies, UpdateBlobEntry(n)
      PROVE  blob_copy'[h][w] = NoCopy
  <2>1. CASE UNCHANGED blob_copy
    BY <2>1
  <2>2. CASE HasCopy(blob_copy, notify[n].hash, notify[n].worker)
    <3>1. notify[n].hash # h \/ notify[n].worker # w
      BY <2>2 DEF HasCopy, NoCopy
    <3> QED
      BY <1>0, <1>2, <3>1 DEF UpdateBlobEntry, updateBlobEntry, BlobCopyTable
  <2> QED
    BY <1>2, <2>1, <2>2 DEF UpdateBlobEntry
<1>3. ASSUME NEW r \in Registers, DropCopies(r)
      PROVE  blob_copy'[h][w] = NoCopy
  BY <1>0, <1>3 DEF DropCopies, deleteBlobEntriesByWorkerAddress, BlobCopyTable
<1>4. ASSUME NEW d \in Deletes, DeleteEntries(d)
      PROVE  blob_copy'[h][w] = NoCopy
  BY <1>0, <1>4 DEF DeleteEntries, deleteBlobEntryByHash, BlobCopyTable
<1> QED
  BY <1>1, <1>2, <1>3, <1>4, Frames

\* So both of these are stable.
LEMMA CopyStable ==
  ASSUME TypeOK, Next, NEW h \in Hashes, NEW w \in Workers
  PROVE  /\ HasCopyOrErased(h, w) => HasCopyOrErased(h, w)'
         /\ SavedOrErased(h, w) => SavedOrErased(h, w)'
<1>1. Erased(h, w) => Erased(h, w)'
  BY ErasedStable
<1>2. \/ blob_copy'[h][w] = blob_copy[h][w]
      \/ ~HasCopy(blob_copy, h, w) /\ blob_copy'[h][w].state = DURING_CREATION
      \/ HasCopy(blob_copy, h, w) /\ blob_copy'[h][w].state = SAVED
      \/ Erased(h, w)'
  BY CopyFate
<1>3. HasCopyOrErased(h, w) => HasCopyOrErased(h, w)'
  BY <1>1, <1>2 DEF HasCopyOrErased, HasCopy, SAVED
<1>4. SavedOrErased(h, w) => SavedOrErased(h, w)'
  BY <1>1, <1>2 DEF SavedOrErased, HasCopy, SAVED
<1> QED
  BY <1>3, <1>4

-----------------------------------------------------------------------------
(* ReportedCopyStaysSaved is inductive as it stands *)

LEMMA ReportedStep ==
  ASSUME TypeOK, Next, ReportedCopyStaysSaved
  PROVE  ReportedCopyStaysSaved'
<1> DEFINE Reported == {"getWorkerState", "updateWorkerState", "ok"}
<1>1. ASSUME NEW n \in Notifies, notify'[n].pc \in Reported,
             NEW h \in Hashes, h = notify[n].hash,
             NEW w \in Workers, w = notify[n].worker
      PROVE  SavedOrErased(h, w)'
  <2>1. CASE notify[n].pc \in Reported
    <3>1. SavedOrErased(h, w)
      BY <1>1, <2>1 DEF ReportedCopyStaysSaved, SavedOrErased
    <3> QED
      BY <3>1, CopyStable
  <2>2. CASE notify[n].pc \notin Reported
    <3>1. UpdateBlobEntry(n) /\ HasCopy(blob_copy, h, w)
      <4>1. notify \in [Notifies -> NotifyCall]
        BY DEF TypeOK
      <4>2. ASSUME NEW m \in Notifies, NotifyFails(m)
            PROVE  FALSE
        BY <1>1, <2>2, <4>1, <4>2 DEF NotifyFails, ReturnNotify, NotifyCall
      <4>3. ASSUME NEW m \in Notifies, NotifyStep(m)
            PROVE  UpdateBlobEntry(n) /\ HasCopy(blob_copy, h, w)
        BY <1>1, <2>2, <4>1, <4>3, ZenonT(60) DEF NotifyStep, NotifyBlobSaved, UpdateBlobEntry,
           ReadWorkerState, ChargeSpace, ReturnNotify, NotifyCall
      <4> QED
        BY <1>1, <2>2, <4>2, <4>3, Frames
    <3>2. blob_copy'[h][w].state = SAVED
      BY <1>1, <3>1 DEF TypeOK, BlobCopyTable, UpdateBlobEntry, updateBlobEntry
    <3> QED
      BY <3>2 DEF SavedOrErased
  <2> QED
    BY <2>1, <2>2
<1>2. ASSUME NEW l \in Locates, NEW w \in locate'[l].chosen,
             NEW h \in Hashes, h = locate[l].hash
      PROVE  SavedOrErased(h, w)'
  <2>1. locate \in [Locates -> LocateCall]
    BY DEF TypeOK
  <2>2. ASSUME NEW k \in Locates, LocateStep(k) \/ LocateFails(k)
        PROVE  w \in locate[l].chosen \/ w \in querySavedBlobByHash(blob_copy, h)
    BY <1>2, <2>1, <2>2 DEF LocateStep, GetWorkerWithBlob, AnswerLocate, LocateFails,
       LocateCall
  <2>3. w \in locate[l].chosen \/ w \in querySavedBlobByHash(blob_copy, h)
    BY <1>2, <2>2, Frames
  <2>4. w \in Workers /\ SavedOrErased(h, w)
    BY <1>2, <2>1, <2>3 DEF LocateCall, querySavedBlobByHash, SavedOrErased,
       ReportedCopyStaysSaved
  <2> QED
    BY <2>4, CopyStable
<1>3. /\ \A n \in Notifies : /\ notify[n].hash \in Hashes
                             /\ notify[n].worker \in Workers
                             /\ notify'[n].hash = notify[n].hash
                             /\ notify'[n].worker = notify[n].worker
      /\ \A l \in Locates : locate[l].hash \in Hashes /\ locate'[l].hash = locate[l].hash
  BY ArgumentsKept DEF TypeOK, NotifyCall, LocateCall
<1>4. ASSUME NEW n \in Notifies, notify'[n].pc \in Reported
      PROVE  (\/ blob_copy[notify[n].hash][notify[n].worker].state = SAVED
              \/ Erased(notify[n].hash, notify[n].worker))'
  <2>1. PICK h \in Hashes, w \in Workers : h = notify[n].hash /\ w = notify[n].worker
    BY <1>3
  <2>2. SavedOrErased(h, w)'
    BY <1>1, <1>4, <2>1
  <2> QED
    BY <1>3, <2>1, <2>2 DEF SavedOrErased, Erased
<1>5. ASSUME NEW l \in Locates, NEW w \in locate'[l].chosen
      PROVE  (blob_copy[locate[l].hash][w].state = SAVED \/ Erased(locate[l].hash, w))'
  <2>1. PICK h \in Hashes : h = locate[l].hash
    BY <1>3
  <2>2. SavedOrErased(h, w)'
    BY <1>2, <2>1
  <2> QED
    BY <1>3, <2>1, <2>2 DEF SavedOrErased, Erased
<1> QED
  BY <1>4, <1>5 DEF ReportedCopyStaysSaved

\* A copy reported SAVED stays so until a DeleteBlob of its blob or a
\* RegisterWorker of its worker erases it.
THEOREM ReportedCopies == Spec => []ReportedCopyStaysSaved
<1>1. Init => ReportedCopyStaysSaved
  BY DEF Init, ReportedCopyStaysSaved
<1>2. TypeOK /\ ReportedCopyStaysSaved /\ [Next]_vars => ReportedCopyStaysSaved'
  <2>1. ASSUME ReportedCopyStaysSaved, UNCHANGED vars
        PROVE  ReportedCopyStaysSaved'
    BY <2>1 DEF ReportedCopyStaysSaved, Erased, vars
  <2> QED
    BY <2>1, ReportedStep
<1> QED
  BY <1>1, <1>2, TypeCorrect, PTL DEF Spec

\* GetWorkerWithBlob names one worker.
OneChosen == \A l \in Locates : \A v, w \in locate[l].chosen : v = w

LEMMA OneIsChosen == Spec => []OneChosen
<1>1. Init => OneChosen
  BY DEF Init, OneChosen
<1>2. TypeOK /\ OneChosen /\ [Next]_vars => OneChosen'
  <2>1. ASSUME OneChosen, UNCHANGED locate
        PROVE  OneChosen'
    BY <2>1 DEF OneChosen
  <2>2. ASSUME TypeOK, OneChosen, NEW l \in Locates, LocateStep(l) \/ LocateFails(l)
        PROVE  OneChosen'
    BY <2>2 DEF TypeOK, OneChosen, LocateStep, GetWorkerWithBlob, AnswerLocate, LocateFails,
       LocateCall
  <2> QED
    BY <2>1, <2>2, Frames DEF vars
<1> QED
  BY <1>1, <1>2, TypeCorrect, PTL DEF Spec

-----------------------------------------------------------------------------
(* Allocations *)

\* The workers placed and still to do are together those chosen.
AllocCount ==
  \A a \in Allocs :
    /\ alloc[a].pc = "idle" => alloc[a].placed = {}
    /\ alloc[a].pc \in {"addBlobEntry", "updateWorkerState"} =>
         Cardinality(alloc[a].todo \cup alloc[a].placed) = Replicas
    /\ alloc[a].pc = "ok" => Cardinality(alloc[a].placed) = Replicas

PlacedKept ==
  \A a \in Allocs : \A w \in alloc[a].placed : HasCopyOrErased(alloc[a].hash, w)

AllocInv == AllocCount /\ PlacedKept /\ ExclusivePlacement

\* A worker is added to those placed only by the insert of its copy, which
\* finds none.
LEMMA PlacedGrowth ==
  ASSUME TypeOK, Next, NEW a \in Allocs, NEW w \in alloc'[a].placed
  PROVE  \/ w \in alloc[a].placed
         \/ /\ ~HasCopy(blob_copy, alloc[a].hash, w)
            /\ HasCopy(blob_copy', alloc[a].hash, w)
            /\ w \in Workers
            /\ \A b \in Allocs : b # a => alloc'[b] = alloc[b]
<1>1. alloc \in [Allocs -> AllocCall] /\ alloc[a].hash \in Hashes
  BY AllocTyping DEF TypeOK
<1>2. ASSUME NEW b \in Allocs, NEW status, ReturnAlloc(b, status, alloc[b].placed)
      PROVE  w \in alloc[a].placed
  BY <1>1, <1>2 DEF ReturnAlloc, AllocCall
<1>3. ASSUME NEW b \in Allocs, GetWorkersToSaveBlob(b)
      PROVE  w \in alloc[a].placed
  <2>1. ASSUME ReturnAlloc(b, "error", {})
        PROVE  w \in alloc[a].placed
    BY <1>1, <2>1 DEF ReturnAlloc, AllocCall
  <2>2. ASSUME NEW todo, NEW rows,
               alloc' = [alloc EXCEPT ![b].pc = "addBlobEntry", ![b].todo = todo,
                                      ![b].rows = rows]
        PROVE  w \in alloc[a].placed
    BY <1>1, <2>2 DEF AllocCall
  <2> QED
    BY <1>3, <2>1, <2>2 DEF GetWorkersToSaveBlob
<1>4. ASSUME NEW b \in Allocs, NEW v \in Workers, LockSpace(b, v)
      PROVE  w \in alloc[a].placed
  <2>1. ASSUME alloc' = [alloc EXCEPT ![b].pc = "addBlobEntry", ![b].todo = @ \ {v}]
        PROVE  w \in alloc[a].placed
    BY <1>1, <2>1 DEF AllocCall
  <2> QED
    BY <1>2, <1>4, <2>1 DEF LockSpace
<1>5. ASSUME NEW b \in Allocs, NEW v \in Workers, AddBlobEntry(b, v),
             w \notin alloc[a].placed
      PROVE  /\ ~HasCopy(blob_copy, alloc[a].hash, w)
             /\ HasCopy(blob_copy', alloc[a].hash, w)
             /\ w \in Workers
             /\ \A c \in Allocs : c # a => alloc'[c] = alloc[c]
  <2>1. /\ ~HasCopy(blob_copy, alloc[b].hash, v)
        /\ blob_copy' = addBlobEntry(blob_copy, alloc[b].hash, v, alloc[b].size)
        /\ alloc' = [alloc EXCEPT ![b].pc = "updateWorkerState",
                                  ![b].placed = @ \cup {v}]
    BY <1>2, <1>5 DEF AddBlobEntry
  <2>2. a = b /\ w = v /\ \A c \in Allocs : c # a => alloc'[c] = alloc[c]
    BY <1>1, <1>5, <2>1 DEF AllocCall
  <2>3. HasCopy(blob_copy', alloc[b].hash, v)
    BY <1>1, <2>1, <2>2 DEF TypeOK, BlobCopyTable, HasCopy, addBlobEntry, DURING_CREATION
  <2> QED
    BY <2>1, <2>2, <2>3
<1> QED
  BY <1>2, <1>3, <1>4, <1>5, Frames DEF AllocStep, AllocFails

LEMMA AllocCountStep ==
  ASSUME TypeOK, AllocCount, Next
  PROVE  AllocCount'
<1>1. alloc \in [Allocs -> AllocCall]
  BY DEF TypeOK
<1>2. ASSUME NEW a \in Allocs, NEW placed, ReturnAlloc(a, "error", placed)
      PROVE  AllocCount'
  <2>1. /\ alloc'[a].pc = "error"
        /\ \A b \in Allocs : b # a => alloc'[b] = alloc[b]
    BY <1>1, <1>2 DEF ReturnAlloc, AllocCall
  <2> QED
    BY <2>1 DEF AllocCount
<1>3. ASSUME NEW a \in Allocs, GetWorkersToSaveBlob(a)
      PROVE  AllocCount'
  <2>1. ASSUME NEW chosen, Cardinality(chosen) = Replicas, NEW rows,
               alloc' = [alloc EXCEPT ![a].pc = "addBlobEntry", ![a].todo = chosen,
                                      ![a].rows = rows]
        PROVE  AllocCount'
    <3>1. /\ alloc'[a].pc = "addBlobEntry"
          /\ alloc'[a].todo = chosen
          /\ alloc'[a].placed = alloc[a].placed
          /\ \A b \in Allocs : b # a => alloc'[b] = alloc[b]
      BY <1>1, <2>1 DEF AllocCall
    <3>2. alloc[a].placed = {}
      BY <1>3 DEF GetWorkersToSaveBlob, AllocCount
    <3>3. chosen \cup {} = chosen
      OBVIOUS
    <3>4. Cardinality(alloc'[a].todo \cup alloc'[a].placed) = Replicas
      BY <2>1, <3>1, <3>2, <3>3
    <3> QED
      BY <3>1, <3>4, SMTT(30) DEF AllocCount
  <2>2. \A chosen \in getWorkersWithFreeSpace(worker_state, alloc[a].size, Replicas) :
          Cardinality(chosen) = Replicas
    BY DEF getWorkersWithFreeSpace
  <2> QED
    BY <1>2, <1>3, <2>1, <2>2 DEF GetWorkersToSaveBlob
<1>4. ASSUME NEW a \in Allocs, NEW w \in Workers, AddBlobEntry(a, w)
      PROVE  AllocCount'
  <2>1. ASSUME alloc' = [alloc EXCEPT ![a].pc = "updateWorkerState",
                                      ![a].placed = @ \cup {w}]
        PROVE  AllocCount'
    <3>1. /\ alloc'[a].pc = "updateWorkerState"
          /\ alloc'[a].todo = alloc[a].todo
          /\ alloc'[a].placed = alloc[a].placed \cup {w}
          /\ \A b \in Allocs : b # a => alloc'[b] = alloc[b]
      BY <1>1, <2>1 DEF AllocCall
    <3>2. alloc[a].pc = "addBlobEntry" /\ w \in alloc[a].todo
      BY <1>4 DEF AddBlobEntry
    <3>3. alloc'[a].todo \cup alloc'[a].placed = alloc[a].todo \cup alloc[a].placed
      BY <3>1, <3>2
    <3> QED
      BY <3>1, <3>2, <3>3 DEF AllocCount
  <2> QED
    BY <1>2, <1>4, <2>1 DEF AddBlobEntry
<1>5. ASSUME NEW a \in Allocs, NEW w \in Workers, LockSpace(a, w)
      PROVE  AllocCount'
  <2>1. /\ alloc[a].pc = "updateWorkerState"
        /\ w \in alloc[a].todo
        /\ w \in alloc[a].placed
        /\ Cardinality(alloc[a].todo \cup alloc[a].placed) = Replicas
    BY <1>5 DEF LockSpace, AllocCount
  <2>2. ASSUME alloc[a].todo = {w}, NEW status \in Final,
               ReturnAlloc(a, status, alloc[a].placed)
        PROVE  AllocCount'
    <3>1. /\ alloc'[a].pc \in Final
          /\ alloc'[a].placed = alloc[a].placed
          /\ \A b \in Allocs : b # a => alloc'[b] = alloc[b]
      BY <1>1, <2>2 DEF ReturnAlloc, AllocCall, Final
    <3>2. alloc[a].todo \cup alloc[a].placed = alloc[a].placed
      BY <2>1, <2>2
    <3>3. Cardinality(alloc'[a].placed) = Replicas
      BY <2>1, <3>1, <3>2
    <3> QED
      BY <3>1, <3>3 DEF AllocCount, Final
  <2>3. ASSUME alloc' = [alloc EXCEPT ![a].pc = "addBlobEntry", ![a].todo = @ \ {w}]
        PROVE  AllocCount'
    <3>1. /\ alloc'[a].pc = "addBlobEntry"
          /\ alloc'[a].todo = alloc[a].todo \ {w}
          /\ alloc'[a].placed = alloc[a].placed
          /\ \A b \in Allocs : b # a => alloc'[b] = alloc[b]
      BY <1>1, <2>3 DEF AllocCall
    <3>2. alloc'[a].todo \cup alloc'[a].placed = alloc[a].todo \cup alloc[a].placed
      BY <2>1, <3>1
    <3> QED
      BY <2>1, <3>1, <3>2 DEF AllocCount
  <2> QED
    BY <1>2, <1>5, <2>2, <2>3, AnswersAreFinal DEF LockSpace
<1>6. ASSUME UNCHANGED alloc
      PROVE  AllocCount'
  BY <1>6 DEF AllocCount
<1> QED
  BY <1>2, <1>3, <1>4, <1>5, <1>6, Frames DEF AllocStep, AllocFails

LEMMA PlacedKeptStep ==
  ASSUME TypeOK, PlacedKept, Next
  PROVE  PlacedKept'
<1>1. ASSUME NEW a \in Allocs, NEW w \in alloc'[a].placed,
             NEW h \in Hashes, h = alloc[a].hash
      PROVE  HasCopyOrErased(h, w)'
  <2>1. CASE w \in alloc[a].placed
    <3>1. w \in Workers /\ HasCopyOrErased(h, w)
      BY <1>1, <2>1, AllocTyping DEF PlacedKept
    <3> QED
      BY <3>1, CopyStable
  <2>2. CASE HasCopy(blob_copy', h, w)
    BY <2>2 DEF HasCopyOrErased, HasCopy
  <2> QED
    BY <1>1, <2>1, <2>2, PlacedGrowth
<1>2. ASSUME NEW a \in Allocs, NEW w \in alloc'[a].placed
      PROVE  HasCopyOrErased(alloc[a].hash, w)'
  <2>1. PICK h \in Hashes : h = alloc[a].hash
    BY AllocTyping
  <2>2. alloc'[a].hash = h
    BY <2>1, ArgumentsKept
  <2>3. HasCopyOrErased(h, w)'
    BY <1>1, <2>1
  <2> QED
    BY <2>2, <2>3 DEF HasCopyOrErased, HasCopy, Erased
<1> QED
  BY <1>2 DEF PlacedKept

LEMMA ExclusiveStep ==
  ASSUME TypeOK, PlacedKept, ExclusivePlacement, Next
  PROVE  ExclusivePlacement'
<1>1. ASSUME NEW a \in Allocs, NEW b \in Allocs, a # b,
             NEW h \in Hashes, h = alloc[a].hash, h = alloc[b].hash,
             NEW w \in alloc'[a].placed \cap alloc'[b].placed
      PROVE  Erased(h, w)'
  <2>1. ASSUME NEW c \in Allocs, NEW d \in Allocs, c # d,
               h = alloc[c].hash, h = alloc[d].hash,
               w \in alloc'[c].placed, w \in alloc'[d].placed, w \notin alloc[c].placed
        PROVE  w \in Workers /\ Erased(h, w)
    <3>1. w \in alloc[d].placed /\ ~HasCopy(blob_copy, h, w) /\ w \in Workers
      BY <2>1, PlacedGrowth
    <3> QED
      BY <2>1, <3>1 DEF PlacedKept, HasCopyOrErased
  <2>2. CASE w \in alloc[a].placed /\ w \in alloc[b].placed
    <3>1. Erased(h, w)
      BY <1>1, <2>2 DEF ExclusivePlacement
    <3>2. w \in Workers
      BY <2>2, AllocTyping
    <3> QED
      BY <3>1, <3>2, ErasedStable
  <2>3. CASE w \notin alloc[a].placed \/ w \notin alloc[b].placed
    <3>1. w \in Workers /\ Erased(h, w)
      BY <1>1, <2>1, <2>3
    <3> QED
      BY <3>1, ErasedStable
  <2> QED
    BY <2>2, <2>3
<1>2. ASSUME NEW a \in Allocs, NEW b \in Allocs,
             NEW w \in alloc'[a].placed \cap alloc'[b].placed,
             a # b, alloc'[a].hash = alloc'[b].hash
      PROVE  Erased(alloc[a].hash, w)'
  <2>1. PICK h \in Hashes : h = alloc[a].hash
    BY AllocTyping
  <2>2. alloc'[a].hash = h /\ alloc[b].hash = h
    BY <1>2, <2>1, ArgumentsKept
  <2>3. Erased(h, w)'
    BY <1>1, <1>2, <2>1, <2>2
  <2> QED
    BY <2>2, <2>3 DEF Erased
<1> QED
  BY <1>2 DEF ExclusivePlacement

LEMMA AllocInvariant == Spec => []AllocInv
<1>1. Init => AllocInv
  BY DEF Init, AllocInv, AllocCount, PlacedKept, ExclusivePlacement
<1>2. TypeOK /\ AllocInv /\ [Next]_vars => AllocInv'
  <2>1. ASSUME AllocInv, UNCHANGED vars
        PROVE  AllocInv'
    BY <2>1 DEF AllocInv, AllocCount, PlacedKept, HasCopyOrErased, HasCopy,
       ExclusivePlacement, Erased, vars
  <2>2. ASSUME TypeOK, AllocInv, Next
        PROVE  AllocInv'
    BY <2>2, AllocCountStep, PlacedKeptStep, ExclusiveStep DEF AllocInv
  <2> QED
    BY <2>1, <2>2
<1> QED
  BY <1>1, <1>2, TypeCorrect, PTL DEF Spec

\* Two uploads of one blob are never sent to the same worker, unless what the
\* first placed there was erased: the insert of the row excludes the second.
THEOREM Exclusion == Spec => []ExclusivePlacement
<1>1. AllocInv => ExclusivePlacement
  BY DEF AllocInv
<1> QED
  BY <1>1, AllocInvariant, PTL

\* An allocation answered OK names Replicas workers, each with its copy.
THEOREM CompleteAllocation == Spec => []AllocationComplete
<1>1. AllocInv => AllocationComplete
  BY DEF AllocInv, AllocCount, PlacedKept, HasCopyOrErased, AllocationComplete
<1> QED
  BY <1>1, AllocInvariant, PTL

-----------------------------------------------------------------------------
(* The catalog: each of the four commits on blob_copy is a step of           *)
(* BlobCatalog or leaves it, and nothing else touches it.                    *)

\* Insert of a row: the catalog places the copy.
LEMMA PlaceStep ==
  ASSUME TypeOK, NEW a \in Allocs, NEW w \in Workers, AddBlobEntry(a, w)
  PROVE  Catalog!Next \/ UNCHANGED catalog
<1>1. CASE UNCHANGED blob_copy
  BY <1>1 DEF catalog
<1>2. CASE /\ ~HasCopy(blob_copy, alloc[a].hash, w)
           /\ blob_copy' = addBlobEntry(blob_copy, alloc[a].hash, w, alloc[a].size)
  <2>1. PICK h \in Hashes : h = alloc[a].hash
    BY AllocTyping
  <2>2. catalog[h][w] = "none"
    BY <1>2, <2>1 DEF catalog, HasCopy
  <2>3. catalog' = [catalog EXCEPT ![h][w] = "DURING_CREATION"]
    BY <1>2, <2>1 DEF TypeOK, BlobCopyTable, catalog, addBlobEntry, DURING_CREATION
  <2>4. Catalog!Place(h, w)
    BY <2>2, <2>3 DEF Catalog!Place
  <2> QED
    BY <2>4 DEF Catalog!Next
<1> QED
  BY <1>1, <1>2 DEF AddBlobEntry

\* A copy reported saved: the catalog confirms it, or had done so.
LEMMA ConfirmStep ==
  ASSUME TypeOK, NEW n \in Notifies, UpdateBlobEntry(n)
  PROVE  Catalog!Next \/ UNCHANGED catalog
<1>1. CASE UNCHANGED blob_copy
  BY <1>1 DEF catalog
<1>2. CASE /\ HasCopy(blob_copy, notify[n].hash, notify[n].worker)
           /\ blob_copy' = updateBlobEntry(blob_copy, notify[n].hash, notify[n].worker,
                                           notify[n].size)
  <2>1. PICK h \in Hashes, w \in Workers : h = notify[n].hash /\ w = notify[n].worker
    BY DEF TypeOK, NotifyCall
  <2>2. catalog[h][w] \in {"DURING_CREATION", "SAVED"}
    BY <1>2, <2>1 DEF TypeOK, BlobCopyTable, BlobCopyDTO, catalog, HasCopy,
       DURING_CREATION, SAVED
  <2>3. catalog' = [catalog EXCEPT ![h][w] = "SAVED"]
    BY <1>2, <2>1 DEF TypeOK, BlobCopyTable, catalog, updateBlobEntry, SAVED
  <2>4. CASE catalog[h][w] = "DURING_CREATION"
    BY <2>3, <2>4 DEF Catalog!Confirm, Catalog!Next
  <2>5. CASE catalog[h][w] = "SAVED"
    <3>1. blob_copy[h][w].state = SAVED
      BY <2>5 DEF catalog, SAVED
    <3>2. \A x \in Hashes, y \in Workers : blob_copy'[x][y].state = blob_copy[x][y].state
      BY <1>2, <2>1, <3>1 DEF TypeOK, BlobCopyTable, updateBlobEntry
    <3> QED
      BY <3>2 DEF catalog
  <2> QED
    BY <2>2, <2>4, <2>5
<1> QED
  BY <1>1, <1>2 DEF UpdateBlobEntry

\* A worker registers: the catalog expels its copies.
LEMMA ExpelStep ==
  ASSUME TypeOK, NEW r \in Registers, DropCopies(r)
  PROVE  Catalog!Next
<1>1. PICK w \in Workers : w = register[r].worker
  BY DEF TypeOK, RegisterCall
<1>2. catalog' = [h \in Hashes |-> [catalog[h] EXCEPT ![w] = "none"]]
  BY <1>1 DEF TypeOK, BlobCopyTable, catalog, DropCopies, deleteBlobEntriesByWorkerAddress,
     NoCopy
<1> QED
  BY <1>2 DEF Catalog!Expel, Catalog!Next

\* A blob is deleted: the catalog forgets it.
LEMMA ForgetStep ==
  ASSUME TypeOK, NEW d \in Deletes, DeleteEntries(d)
  PROVE  Catalog!Next
<1>1. PICK h \in Hashes : h = delete[d].hash
  BY DEF TypeOK, DeleteCall
<1>2. catalog' = [catalog EXCEPT ![h] = [w \in Workers |-> "none"]]
  BY <1>1 DEF TypeOK, BlobCopyTable, catalog, DeleteEntries, deleteBlobEntryByHash, NoCopy
<1> QED
  BY <1>2 DEF Catalog!Forget, Catalog!Next

\* Every behaviour of the handlers is one of the catalog.
THEOREM CatalogImplemented == Spec => CatalogSpec
<1>1. Init => Catalog!Init
  BY DEF Init, Catalog!Init, catalog, NoCopy
<1>2. TypeOK /\ [Next]_vars => [Catalog!Next]_catalog
  <2>1. CASE UNCHANGED blob_copy
    BY <2>1 DEF catalog
  <2>2. CASE TypeOK /\ Next
    BY <2>1, <2>2, PlaceStep, ConfirmStep, ExpelStep, ForgetStep, Frames
  <2>3. UNCHANGED vars => UNCHANGED blob_copy
    BY DEF vars
  <2> QED
    BY <2>1, <2>2, <2>3
<1> QED
  BY <1>1, <1>2, TypeCorrect, PTL DEF Spec, CatalogSpec, Catalog!Spec
=============================================================================
