--------------------------- MODULE MasterService ----------------------------
(***************************************************************************)
(* The RPC handlers of the master (src/master/master_service.cpp) over the *)
(* shared tables of MasterDb.  A handler runs on a gRPC server thread and  *)
(* makes several commits with no transaction around them, so the steps of  *)
(* calls in flight, at one master or at several, interleave between        *)
(* commits.  One action is one query or one commit of one call, with the   *)
(* code up to the next.  What a handler read is kept in the record of its  *)
(* call: it may be stale when it is written back.                          *)
(*                                                                         *)
(* A call is an identifier used once.  Its arguments are fixed in Init, at *)
(* values any caller may choose; it arrives when its first step is taken.  *)
(* Masters keep no state outside the tables, hence no variable for them.   *)
(***************************************************************************)
EXTENDS MasterDb

CONSTANTS
  Allocs, Notifies, Locates, Registers, Deletes,  \* the calls, by RPC
  Replicas,   \* workers asked for by GetWorkersToSaveBlob; 3 in the code
  Sizes,      \* blob sizes a request may carry
  Spaces,     \* free space a worker may report
  Faults      \* whether queries and commits fail and masters die

ASSUME ReplicasAssumption == Replicas \in Nat \ {0}
ASSUME SizesAssumption == Sizes \subseteq Nat
ASSUME SpacesAssumption == Spaces \subseteq Nat
ASSUME FaultsAssumption == Faults \in BOOLEAN

VARIABLES
  blob_copy,      \* table: blob_copy[h][w]
  worker_state,   \* table: worker_state[w]
  alloc,          \* GetWorkersToSaveBlob calls
  notify,         \* NotifyBlobSaved calls
  locate,         \* GetWorkerWithBlob calls
  register,       \* RegisterWorker calls
  delete          \* DeleteBlob calls

tables == <<blob_copy, worker_state>>
vars == <<blob_copy, worker_state, alloc, notify, locate, register, delete>>

\* "ok" and "error" are the status of the finished call.
Final == {"ok", "error"}

\* rows: the workers' rows as the query returned them; todo: workers of the
\* loop not yet done; placed: workers this call inserted a copy for, which are
\* the addresses of the response when the status is OK.
AllocCall == [hash : Hashes, size : Sizes,
              pc : {"idle", "addBlobEntry", "updateWorkerState"} \cup Final,
              rows : WorkerStateTable, todo : SUBSET Workers, placed : SUBSET Workers]
\* size: that of the copy as read; row: the worker's row as read.
NotifyCall == [hash : Hashes, worker : Workers,
               pc : {"idle", "updateBlobEntry", "getWorkerState",
                     "updateWorkerState"} \cup Final,
               size : Int, row : WorkerStateDTO]
\* chosen: the worker of blob_copies[0], as a set of one.
LocateCall == [hash : Hashes, pc : {"idle", "getWorkerState"} \cup Final,
               chosen : SUBSET Workers]
RegisterCall == [worker : Workers, space : Spaces,
                 pc : {"idle", "deleteBlobEntries", "addWorkerState"} \cup Final]
\* todo: holders of a SAVED copy still to be asked; erased: whether the commit that
\* erases the rows took effect, whatever was answered.
DeleteCall == [hash : Hashes, pc : {"idle", "askWorkers"} \cup Final,
               todo : SUBSET Workers, erased : BOOLEAN]

\* What a call is answered whose last commit took effect: an error when the commit
\* is reported failed all the same, or the master dies before it answers.
Answers == IF Faults THEN Final ELSE {"ok"}

NoRows == [w \in Workers |-> NoWorker]

\* The tables outlive the masters: workers may be registered already.
Init ==
  /\ blob_copy = [h \in Hashes |-> [w \in Workers |-> NoCopy]]
  /\ worker_state \in [Workers -> {NoWorker} \cup
        [registered : {TRUE}, available_space_mb : Spaces, locked_space_mb : {0}]]
  /\ alloc \in [Allocs -> [hash : Hashes, size : Sizes, pc : {"idle"},
                           rows : {NoRows}, todo : {{}}, placed : {{}}]]
  /\ notify \in [Notifies -> [hash : Hashes, worker : Workers, pc : {"idle"},
                              size : {0}, row : {NoWorker}]]
  /\ locate \in [Locates -> [hash : Hashes, pc : {"idle"}, chosen : {{}}]]
  /\ register \in [Registers -> [worker : Workers, space : Spaces, pc : {"idle"}]]
  /\ delete \in [Deletes -> [hash : Hashes, pc : {"idle"}, todo : {{}}, erased : {FALSE}]]

-----------------------------------------------------------------------------
(* GetWorkersToSaveBlob *)

\* The call ends: what it read is dropped, what it placed stays placed.
ReturnAlloc(a, status, placed) ==
  alloc' = [alloc EXCEPT ![a].pc = status, ![a].rows = NoRows,
                         ![a].todo = {}, ![a].placed = placed]

\* Ask for Replicas workers with room, or fail with RESOURCE_EXHAUSTED.
GetWorkersToSaveBlob(a) ==
  LET answers == getWorkersWithFreeSpace(worker_state, alloc[a].size, Replicas)
  IN  /\ alloc[a].pc = "idle"
      /\ \/ /\ answers = {}
            /\ ReturnAlloc(a, "error", {})
         \/ \E chosen \in answers :
              alloc' = [alloc EXCEPT
                ![a].pc = "addBlobEntry",
                ![a].todo = chosen,
                ![a].rows = [w \in Workers |-> IF w \in chosen THEN worker_state[w]
                                                               ELSE NoWorker]]
      /\ UNCHANGED <<tables, notify, locate, register, delete>>

\* Slip: InsertOrUpdate in place of Insert.
AddBlobEntry_Upsert(a, w) ==
  /\ alloc[a].pc = "addBlobEntry"
  /\ w \in alloc[a].todo
  /\ blob_copy' = addBlobEntry(blob_copy, alloc[a].hash, w, alloc[a].size)
  /\ alloc' = [alloc EXCEPT ![a].pc = "updateWorkerState", ![a].placed = @ \cup {w}]
  /\ UNCHANGED <<worker_state, notify, locate, register, delete>>

\* The loop's first commit for w: insert its copy; a copy that exists ends the
\* call, and nothing undoes the iterations before.
AddBlobEntry(a, w) ==
  LET h == alloc[a].hash
  IN  /\ alloc[a].pc = "addBlobEntry"
      /\ w \in alloc[a].todo
      /\ \/ /\ ~HasCopy(blob_copy, h, w)
            /\ blob_copy' = addBlobEntry(blob_copy, h, w, alloc[a].size)
            /\ alloc' = [alloc EXCEPT ![a].pc = "updateWorkerState",
                                      ![a].placed = @ \cup {w}]
         \/ /\ HasCopy(blob_copy, h, w)
            /\ ReturnAlloc(a, "error", alloc[a].placed)
            /\ UNCHANGED blob_copy
      /\ UNCHANGED <<worker_state, notify, locate, register, delete>>

\* The row written back after an allocation of size on the row read.
LockedRow(row, size) ==
  [row EXCEPT !.locked_space_mb = size + row.locked_space_mb]

\* The loop's second commit for w: write back the row read by the query, with
\* the size added to its locked space.
LockSpace(a, w) ==
  /\ alloc[a].pc = "updateWorkerState"
  /\ w \in alloc[a].todo \cap alloc[a].placed
  /\ \/ /\ Registered(worker_state, w)
        /\ worker_state' = updateWorkerState(worker_state, w,
                             LockedRow(alloc[a].rows[w], alloc[a].size))
        /\ IF alloc[a].todo = {w}
             THEN \E status \in Answers : ReturnAlloc(a, status, alloc[a].placed)
             ELSE alloc' = [alloc EXCEPT ![a].pc = "addBlobEntry",
                                         ![a].todo = @ \ {w}]
     \/ /\ ~Registered(worker_state, w)
        /\ ReturnAlloc(a, "error", alloc[a].placed)
        /\ UNCHANGED worker_state
  /\ UNCHANGED <<blob_copy, notify, locate, register, delete>>

-----------------------------------------------------------------------------
(* NotifyBlobSaved *)

ReturnNotify(n, status) ==
  notify' = [notify EXCEPT ![n].pc = status, ![n].row = NoWorker, ![n].size = 0]

\* Read the one row of the copy; any other number of rows is an error.
NotifyBlobSaved(n) ==
  LET h == notify[n].hash
      w == notify[n].worker
  IN  /\ notify[n].pc = "idle"
      /\ IF HasCopy(blob_copy, h, w)
           THEN notify' = [notify EXCEPT
                  ![n].pc = "updateBlobEntry",
                  ![n].size = queryBlobByHashAndWorkerId(blob_copy, h, w).size_mb]
           ELSE ReturnNotify(n, "error")
      /\ UNCHANGED <<tables, alloc, locate, register, delete>>

\* Slip: InsertOrUpdate in place of Update.
UpdateBlobEntry_Upsert(n) ==
  /\ notify[n].pc = "updateBlobEntry"
  /\ blob_copy' = updateBlobEntry(blob_copy, notify[n].hash, notify[n].worker, notify[n].size)
  /\ notify' = [notify EXCEPT ![n].pc = "getWorkerState"]
  /\ UNCHANGED <<worker_state, alloc, locate, register, delete>>

\* Write the row read back as SAVED; it may have been deleted since.
UpdateBlobEntry(n) ==
  LET h == notify[n].hash
      w == notify[n].worker
  IN  /\ notify[n].pc = "updateBlobEntry"
      /\ \/ /\ HasCopy(blob_copy, h, w)
            /\ blob_copy' = updateBlobEntry(blob_copy, h, w, notify[n].size)
            /\ notify' = [notify EXCEPT ![n].pc = "getWorkerState"]
         \/ /\ ~HasCopy(blob_copy, h, w)
            /\ ReturnNotify(n, "error")
            /\ UNCHANGED blob_copy
      /\ UNCHANGED <<worker_state, alloc, locate, register, delete>>

ReadWorkerState(n) ==
  LET w == notify[n].worker
  IN  /\ notify[n].pc = "getWorkerState"
      /\ IF Registered(worker_state, w)
           THEN notify' = [notify EXCEPT ![n].pc = "updateWorkerState",
                                         ![n].row = getWorkerState(worker_state, w)]
           ELSE ReturnNotify(n, "error")
      /\ UNCHANGED <<tables, alloc, locate, register, delete>>

\* Slip: the lock on the space is not given up.
ChargedRow_KeepsLock(row, size) == [row EXCEPT !.available_space_mb = @ - size]

\* Slip: the lock is given up and the space not taken.
ChargedRow_OnlyUnlocks(row, size) == [row EXCEPT !.locked_space_mb = @ - size]

\* The row written back once a copy of size has been saved on the row read.
ChargedRow(row, size) ==
  [row EXCEPT !.locked_space_mb = @ - size, !.available_space_mb = @ - size]

ChargeSpace(n) ==
  LET w == notify[n].worker
  IN  /\ notify[n].pc = "updateWorkerState"
      /\ \/ /\ Registered(worker_state, w)
            /\ worker_state' = updateWorkerState(worker_state, w,
                                 ChargedRow(notify[n].row, notify[n].size))
            /\ \E status \in Answers : ReturnNotify(n, status)
         \/ /\ ~Registered(worker_state, w)
            /\ ReturnNotify(n, "error")
            /\ UNCHANGED worker_state
      /\ UNCHANGED <<blob_copy, alloc, locate, register, delete>>

-----------------------------------------------------------------------------
(* GetWorkerWithBlob *)

\* Choose the first of the SAVED copies, in an order the query leaves open.
GetWorkerWithBlob(l) ==
  LET holders == querySavedBlobByHash(blob_copy, locate[l].hash)
  IN  /\ locate[l].pc = "idle"
      /\ \/ /\ holders = {}
            /\ locate' = [locate EXCEPT ![l].pc = "error"]
         \/ \E w \in holders :
              locate' = [locate EXCEPT ![l].pc = "getWorkerState", ![l].chosen = {w}]
      /\ UNCHANGED <<tables, alloc, notify, register, delete>>

\* The chosen worker must still have a row; no other holder is tried.
AnswerLocate(l, w) ==
  /\ locate[l].pc = "getWorkerState"
  /\ w \in locate[l].chosen
  /\ locate' = [locate EXCEPT ![l].pc = IF Registered(worker_state, w) THEN "ok"
                                                                       ELSE "error"]
  /\ UNCHANGED <<tables, alloc, notify, register, delete>>

-----------------------------------------------------------------------------
(* RegisterWorker: three commits *)

RegisterWorker(r) ==
  /\ register[r].pc = "idle"
  /\ worker_state' = deleteWorkerState(worker_state, register[r].worker)
  /\ register' = [register EXCEPT ![r].pc = "deleteBlobEntries"]
  /\ UNCHANGED <<blob_copy, alloc, notify, locate, delete>>

DropCopies(r) ==
  /\ register[r].pc = "deleteBlobEntries"
  /\ blob_copy' = deleteBlobEntriesByWorkerAddress(blob_copy, register[r].worker)
  /\ register' = [register EXCEPT ![r].pc = "addWorkerState"]
  /\ UNCHANGED <<worker_state, alloc, notify, locate, delete>>

\* Slip: a failed insert is undone as if it had happened.
AddWorkerState_Undone(r) ==
  LET w == register[r].worker
      there == Registered(worker_state, w)
  IN  /\ register[r].pc = "addWorkerState"
      /\ worker_state' = IF there THEN deleteWorkerState(worker_state, w)
                         ELSE addWorkerState(worker_state, w, register[r].space)
      /\ register' = [register EXCEPT ![r].pc = IF there THEN "error" ELSE "ok"]
      /\ UNCHANGED <<blob_copy, alloc, notify, locate, delete>>

\* An insert: it fails when another registration of the address got there.
AddWorkerState(r) ==
  LET w == register[r].worker
  IN  /\ register[r].pc = "addWorkerState"
      /\ \/ /\ ~Registered(worker_state, w)
            /\ worker_state' = addWorkerState(worker_state, w, register[r].space)
            /\ \E status \in Answers : register' = [register EXCEPT ![r].pc = status]
         \/ /\ Registered(worker_state, w)
            /\ register' = [register EXCEPT ![r].pc = "error"]
            /\ UNCHANGED worker_state
      /\ UNCHANGED <<blob_copy, alloc, notify, locate, delete>>

-----------------------------------------------------------------------------
(* DeleteBlob *)

DeleteBlob(d) ==
  /\ delete[d].pc = "idle"
  /\ delete' = [delete EXCEPT ![d].pc = "askWorkers",
                              ![d].todo = querySavedBlobByHash(blob_copy, delete[d].hash)]
  /\ UNCHANGED <<tables, alloc, notify, locate, register>>

\* requestWorkerToDeleteBlob: whatever the worker answers, the loop goes on.
AskWorker(d, w) ==
  /\ delete[d].pc = "askWorkers"
  /\ w \in delete[d].todo
  /\ delete' = [delete EXCEPT ![d].todo = @ \ {w}]
  /\ UNCHANGED <<tables, alloc, notify, locate, register>>

\* Slip: the rows go without waiting for the workers.
DeleteEntries_Early(d) ==
  /\ delete[d].pc = "askWorkers"
  /\ blob_copy' = deleteBlobEntryByHash(blob_copy, delete[d].hash)
  /\ delete' = [delete EXCEPT ![d].pc = "ok", ![d].erased = TRUE]
  /\ UNCHANGED <<worker_state, alloc, notify, locate, register>>

\* Every row of the hash goes, whatever its state by now.
DeleteEntries(d) ==
  /\ delete[d].pc = "askWorkers"
  /\ delete[d].todo = {}
  /\ blob_copy' = deleteBlobEntryByHash(blob_copy, delete[d].hash)
  /\ \E status \in Answers :
       delete' = [delete EXCEPT ![d].pc = status, ![d].erased = TRUE]
  /\ UNCHANGED <<worker_state, alloc, notify, locate, register>>

-----------------------------------------------------------------------------
(* A query or a commit fails, or the master dies: the call ends there and    *)
(* nothing it committed is undone.  A call whose first query or commit fails *)
(* has done nothing, as if it had not arrived; for the last see Answers.     *)

AllocFails(a) ==
  /\ alloc[a].pc \notin {"idle"} \cup Final
  /\ ReturnAlloc(a, "error", alloc[a].placed)
  /\ UNCHANGED <<tables, notify, locate, register, delete>>

NotifyFails(n) ==
  /\ notify[n].pc \notin {"idle"} \cup Final
  /\ ReturnNotify(n, "error")
  /\ UNCHANGED <<tables, alloc, locate, register, delete>>

LocateFails(l) ==
  /\ locate[l].pc \notin {"idle"} \cup Final
  /\ locate' = [locate EXCEPT ![l].pc = "error"]
  /\ UNCHANGED <<tables, alloc, notify, register, delete>>

RegisterFails(r) ==
  /\ register[r].pc \notin {"idle"} \cup Final
  /\ register' = [register EXCEPT ![r].pc = "error"]
  /\ UNCHANGED <<tables, alloc, notify, locate, delete>>

DeleteFails(d) ==
  /\ delete[d].pc \notin {"idle"} \cup Final
  /\ delete' = [delete EXCEPT ![d].pc = "error", ![d].todo = {}]
  /\ UNCHANGED <<tables, alloc, notify, locate, register>>

-----------------------------------------------------------------------------
AllocStep(a) ==
  \/ GetWorkersToSaveBlob(a)
  \/ \E w \in Workers : AddBlobEntry(a, w) \/ LockSpace(a, w)

NotifyStep(n) ==
  NotifyBlobSaved(n) \/ UpdateBlobEntry(n) \/ ReadWorkerState(n) \/ ChargeSpace(n)

LocateStep(l) ==
  GetWorkerWithBlob(l) \/ \E w \in Workers : AnswerLocate(l, w)

RegisterStep(r) == RegisterWorker(r) \/ DropCopies(r) \/ AddWorkerState(r)

DeleteStep(d) ==
  \/ DeleteBlob(d)
  \/ \E w \in Workers : AskWorker(d, w)
  \/ DeleteEntries(d)

Fault ==
  /\ Faults
  /\ \/ \E a \in Allocs : AllocFails(a)
     \/ \E n \in Notifies : NotifyFails(n)
     \/ \E l \in Locates : LocateFails(l)
     \/ \E r \in Registers : RegisterFails(r)
     \/ \E d \in Deletes : DeleteFails(d)

\* Every call of the behaviour has been answered: the masters wait for more.
Quiet ==
  /\ \A a \in Allocs : alloc[a].pc \in Final
  /\ \A n \in Notifies : notify[n].pc \in Final
  /\ \A l \in Locates : locate[l].pc \in Final
  /\ \A r \in Registers : register[r].pc \in Final
  /\ \A d \in Deletes : delete[d].pc \in Final

Next ==
  \/ \E a \in Allocs : AllocStep(a)
  \/ \E n \in Notifies : NotifyStep(n)
  \/ \E l \in Locates : LocateStep(l)
  \/ \E r \in Registers : RegisterStep(r)
  \/ \E d \in Deletes : DeleteStep(d)
  \/ Fault
  \/ Quiet /\ UNCHANGED vars

Spec == Init /\ [][Next]_vars

-----------------------------------------------------------------------------
(* Properties *)

TypeOK ==
  /\ blob_copy \in BlobCopyTable
  /\ worker_state \in WorkerStateTable
  /\ alloc \in [Allocs -> AllocCall]
  /\ notify \in [Notifies -> NotifyCall]
  /\ locate \in [Locates -> LocateCall]
  /\ register \in [Registers -> RegisterCall]
  /\ delete \in [Deletes -> DeleteCall]

\* Some call may have erased the row of h at w: the last commit of a DeleteBlob of h
\* took effect, or a RegisterWorker of w got past its second (or failed, maybe there).
Erased(h, w) ==
  \/ \E d \in Deletes : delete[d].hash = h /\ delete[d].erased
  \/ \E r \in Registers : /\ register[r].worker = w
                          /\ register[r].pc \in {"addWorkerState"} \cup Final

\* Two GetWorkersToSaveBlob calls for one hash never both place a copy on the
\* same worker, unless the row was erased meanwhile: the insert of the row is
\* the only thing that keeps two uploads of a blob from one worker's file.
ExclusivePlacement ==
  \A a, b \in Allocs : \A w \in alloc[a].placed \cap alloc[b].placed :
    a # b /\ alloc[a].hash = alloc[b].hash => Erased(alloc[a].hash, w)

\* A copy reported SAVED, to the worker that notified or to the frontend that
\* asked where the blob is, stays SAVED until something erases its row: no
\* handler takes a copy back to DURING_CREATION, however stale what it read.
ReportedCopyStaysSaved ==
  /\ \A n \in Notifies :
       notify[n].pc \in {"getWorkerState", "updateWorkerState", "ok"} =>
         \/ blob_copy[notify[n].hash][notify[n].worker].state = SAVED
         \/ Erased(notify[n].hash, notify[n].worker)
  /\ \A l \in Locates : \A w \in locate[l].chosen :
       \/ blob_copy[locate[l].hash][w].state = SAVED
       \/ Erased(locate[l].hash, w)

\* The space a master believes free on a worker is never negative, although
\* rows are written back stale: each write leaves the difference of the row it
\* read, or lowers it by a size that row had room for.
BelievedSpaceNotNegative ==
  \A w \in Workers : Registered(worker_state, w) => FreeSpace(worker_state[w]) >= 0

\* An allocation answered OK names Replicas workers, and every worker it names
\* has the copy it inserted there, unless something erased it: the frontend is
\* never sent to a worker that the master would not let report the blob.
AllocationComplete ==
  \A a \in Allocs :
    /\ alloc[a].pc = "ok" => Cardinality(alloc[a].placed) = Replicas
    /\ \A w \in alloc[a].placed : \/ HasCopy(blob_copy, alloc[a].hash, w)
                                  \/ Erased(alloc[a].hash, w)

\* The handlers implement the catalog of BlobCatalog: a copy is placed, then
\* confirmed, and vanishes only with all copies of its blob or of its worker.
catalog == [h \in Hashes |-> [w \in Workers |-> blob_copy[h][w].state]]
Catalog == INSTANCE BlobCatalog
CatalogSpec == Catalog!Spec
=============================================================================
