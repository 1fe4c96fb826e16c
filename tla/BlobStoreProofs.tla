-------------------------- MODULE BlobStoreProofs ---------------------------
(***************************************************************************)
(* The system runs the masters of MasterService: whatever frontends and    *)
(* workers do, the tables and the calls at the masters change as that      *)
(* module says.  From what is proved of the masters, and from where a      *)
(* frontend sends a blob, no two uploads write one file (OneUpload).       *)
(***************************************************************************)
EXTENDS BlobStore, TLAPS

\* A step of an upload is a step of its allocation or leaves the masters alone.
LEMMA UploadAtMasters ==
  ASSUME NEW u \in Uploads, UploadStep(u)
  PROVE  Master!AllocStep(u) \/ UNCHANGED masters
<1>1. CASE AskMaster(u)
  BY <1>1 DEF AskMaster
<1>2. CASE ReceiveBlob(u) \/ TakeWorkers(u)
  BY <1>2 DEF ReceiveBlob, TakeWorkers, masters
<1>3. CASE \E w \in Workers : OpenSave(u, w) \/ OpenSaveFails(u, w) \/ SaveAnswered(u, w)
  BY <1>3 DEF OpenSave, OpenSaveFails, SaveAnswered, masters
<1> QED BY <1>1, <1>2, <1>3 DEF UploadStep

\* So is a step of a fetch one of its lookup.
LEMMA FetchAtMasters ==
  ASSUME NEW g \in Fetches, FetchStep(g) \/ FetchBreaks(g)
  PROVE  Master!LocateStep(g) \/ UNCHANGED masters
<1>1. CASE LocateBlob(g)
  BY <1>1 DEF LocateBlob
<1>2. CASE StartFetch(g) \/ FetchBreaks(g)
  BY <1>2 DEF StartFetch, FetchBreaks, masters
<1>3. CASE \E w \in Workers : ServeGet(g, w) \/ EndFetch(g, w)
  BY <1>3 DEF ServeGet, EndFetch, masters
<1> QED BY <1>1, <1>2, <1>3 DEF FetchStep

\* And that of a removal one of its deletion.
LEMMA RemovalAtMasters ==
  ASSUME NEW d \in Removals, RemovalStep(d)
  PROVE  Master!DeleteStep(d) \/ UNCHANGED masters
<1>1. CASE StartRemoval(d) \/ EndRemoval(d)
  BY <1>1 DEF StartRemoval, EndRemoval, Master!DeleteStep
<1>2. CASE \E w \in Workers : ServeErase(d, w)
  BY <1>2 DEF ServeErase, masters
<1>3. CASE \E w \in Workers : AskedWorker(d, w)
  BY <1>3 DEF AskedWorker, Master!DeleteStep
<1> QED BY <1>1, <1>2, <1>3 DEF RemovalStep

\* Every step of the system is a step of the masters or leaves them alone.
LEMMA StepAtMasters == [Next]_vars => [Master!Next]_(Master!vars)
<1> SUFFICES ASSUME [Next]_vars PROVE Master!Next \/ UNCHANGED masters
  BY DEF Master!vars, masters
<1>1. CASE \E u \in Uploads : UploadStep(u)
  BY <1>1, UploadAtMasters DEF Master!Next
<1>2. CASE \E u \in Uploads, w \in Workers :
             ServeSave(u, w) \/ ServeNotify(u, w) \/ NotifyAnswered(u, w) \/ StreamBreaks(u, w)
  <2>1. PICK u \in Uploads, w \in Workers :
          ServeSave(u, w) \/ ServeNotify(u, w) \/ NotifyAnswered(u, w) \/ StreamBreaks(u, w)
    BY <1>2
  <2>2. CASE ServeNotify(u, w)
    <3>1. <<u, w>> \in Saves
      BY DEF Saves
    <3> QED BY <3>1, <2>2 DEF ServeNotify, Master!Next
  <2>3. CASE ServeSave(u, w) \/ NotifyAnswered(u, w) \/ StreamBreaks(u, w)
    BY <2>3 DEF ServeSave, NotifyAnswered, StreamBreaks, masters
  <2> QED BY <2>1, <2>2, <2>3
<1>3. CASE \E g \in Fetches : FetchStep(g) \/ FetchBreaks(g)
  BY <1>3, FetchAtMasters DEF Master!Next
<1>4. CASE \E d \in Removals : RemovalStep(d)
  BY <1>4, RemovalAtMasters DEF Master!Next
<1>5. CASE \E w \in Workers, r \in Boots : Crash(w, r) \/ Retry(w, r)
  BY <1>5 DEF Crash, Retry, masters
<1>6. CASE \E r \in Boots : ServeRegister(r)
  BY <1>6 DEF ServeRegister, Master!Next
<1>7. CASE \E w \in Workers : Serve(w)
  BY <1>7 DEF Serve, masters
<1>8. CASE MasterFault
  BY <1>8 DEF MasterFault, Master!Next
<1>9. CASE UNCHANGED vars
  BY <1>9 DEF vars
<1> QED BY <1>1, <1>2, <1>3, <1>4, <1>5, <1>6, <1>7, <1>8, <1>9 DEF Next

\* The system implements the masters.
THEOREM MastersImplemented == Spec => Master!Spec
<1>1. Init => Master!Init
  BY DEF Init
<1> QED BY <1>1, StepAtMasters, PTL DEF Spec, Master!Spec

-----------------------------------------------------------------------------
(* What is proved of the masters holds in the system.  MP is the instance of *)
(* their theorems; its definitions are those of Master under another name.   *)

MP == INSTANCE MasterServiceProofs WITH
  Allocs <- Uploads, Notifies <- Saves, Locates <- Fetches, Registers <- Boots,
  Deletes <- Removals, Sizes <- {0}, Spaces <- {1}, delete <- deletion

\* Expanded, the two specifications are one formula.
LEMMA SameNext == Master!Next => MP!Next
BY DEF
   Master!NoCopy, MP!NoCopy, Master!NoWorker, MP!NoWorker, Master!HasCopy,
   MP!HasCopy, Master!Registered, MP!Registered, Master!DURING_CREATION,
   MP!DURING_CREATION, Master!SAVED, MP!SAVED, Master!addBlobEntry,
   MP!addBlobEntry, Master!updateBlobEntry, MP!updateBlobEntry,
   Master!querySavedBlobByHash, MP!querySavedBlobByHash,
   Master!queryBlobByHashAndWorkerId, MP!queryBlobByHashAndWorkerId,
   Master!deleteBlobEntryByHash, MP!deleteBlobEntryByHash,
   Master!deleteBlobEntriesByWorkerAddress, MP!deleteBlobEntriesByWorkerAddress,
   Master!addWorkerState, MP!addWorkerState, Master!updateWorkerState,
   MP!updateWorkerState, Master!deleteWorkerState, MP!deleteWorkerState,
   Master!getWorkerState, MP!getWorkerState, Master!FreeSpace, MP!FreeSpace,
   Master!getWorkersWithFreeSpace, MP!getWorkersWithFreeSpace,
   Master!Cardinality, MP!Cardinality,
   Master!vars, MP!vars, Master!tables, MP!tables, Master!Final, MP!Final,
   Master!Answers, MP!Answers, Master!NoRows, MP!NoRows,
   Master!AllocStep, MP!AllocStep, Master!GetWorkersToSaveBlob,
   MP!GetWorkersToSaveBlob, Master!AddBlobEntry, MP!AddBlobEntry,
   Master!LockedRow, MP!LockedRow, Master!LockSpace, MP!LockSpace,
   Master!ReturnAlloc, MP!ReturnAlloc,
   Master!NotifyStep, MP!NotifyStep, Master!NotifyBlobSaved, MP!NotifyBlobSaved,
   Master!UpdateBlobEntry, MP!UpdateBlobEntry, Master!ReadWorkerState,
   MP!ReadWorkerState, Master!ChargedRow, MP!ChargedRow, Master!ChargeSpace,
   MP!ChargeSpace, Master!ReturnNotify, MP!ReturnNotify,
   Master!LocateStep, MP!LocateStep, Master!GetWorkerWithBlob,
   MP!GetWorkerWithBlob, Master!AnswerLocate, MP!AnswerLocate,
   Master!RegisterStep, MP!RegisterStep, Master!RegisterWorker,
   MP!RegisterWorker, Master!DropCopies, MP!DropCopies, Master!AddWorkerState,
   MP!AddWorkerState,
   Master!DeleteStep, MP!DeleteStep, Master!DeleteBlob, MP!DeleteBlob,
   Master!AskWorker, MP!AskWorker, Master!DeleteEntries, MP!DeleteEntries,
   Master!Fault, MP!Fault, Master!AllocFails, MP!AllocFails, Master!NotifyFails,
   MP!NotifyFails, Master!LocateFails, MP!LocateFails, Master!RegisterFails,
   MP!RegisterFails, Master!DeleteFails, MP!DeleteFails,
   Master!Quiet, MP!Quiet, Master!Next, MP!Next

LEMMA SameMasters == Master!Spec => MP!Spec
<1>1. Master!Init => MP!Init
  BY DEF Master!Init, MP!Init, Master!NoCopy, MP!NoCopy, Master!NoWorker, MP!NoWorker,
     Master!NoRows, MP!NoRows
<1>2. [Master!Next]_(Master!vars) => [MP!Next]_(MP!vars)
  BY SameNext DEF Master!vars, MP!vars
<1> QED
  BY <1>1, <1>2, PTL DEF Master!Spec, MP!Spec

\* In the system, too, the rows keep two uploads of a blob apart.
LEMMA MastersExclude == Spec => [](MP!TypeOK /\ MP!ExclusivePlacement)
<1>1. MP!Spec => []MP!TypeOK
  BY MP!TypeCorrect, ReplicasAssumption, FaultsAssumption
<1>2. MP!Spec => []MP!ExclusivePlacement
  BY MP!Exclusion, ReplicasAssumption, FaultsAssumption
<1> QED
  BY <1>1, <1>2, MastersImplemented, SameMasters, PTL

-----------------------------------------------------------------------------
(* A frontend sends a blob only where its allocation, which is over, placed  *)
(* it.                                                                       *)

Typing ==
  /\ upload \in [Uploads -> UploadCall]
  /\ save \in [Saves -> Worker!SaveCall]

SentWherePlaced ==
  /\ \A u \in Uploads :
       upload[u].pc = "sending" => alloc[u].pc = "ok" /\ upload[u].todo \subseteq alloc[u].placed
  /\ \A u \in Uploads, w \in Workers :
       save[<<u, w>>].pc # "idle" => alloc[u].pc = "ok" /\ w \in alloc[u].placed

\* An allocation that was answered stays as it is.
LEMMA AnsweredAlloc ==
  ASSUME MP!TypeOK, Master!Next, NEW u \in Uploads, alloc[u].pc = "ok"
  PROVE  alloc'[u] = alloc[u]
<1>1. alloc \in [Uploads -> MP!AllocCall]
  BY DEF MP!TypeOK
<1>2. CASE \E a \in Uploads : Master!AllocStep(a)
  <2>1. PICK a \in Uploads : Master!AllocStep(a)
    BY <1>2
  <2>2. a # u
    BY <2>1 DEF Master!AllocStep, Master!GetWorkersToSaveBlob, Master!AddBlobEntry,
       Master!LockSpace
  <2>3. CASE Master!GetWorkersToSaveBlob(a)
    BY <1>1, <2>2, <2>3 DEF Master!GetWorkersToSaveBlob, Master!ReturnAlloc
  <2>4. CASE \E w \in Workers : Master!AddBlobEntry(a, w)
    BY <1>1, <2>2, <2>4 DEF Master!AddBlobEntry, Master!ReturnAlloc
  <2>5. CASE \E w \in Workers : Master!LockSpace(a, w)
    BY <1>1, <2>2, <2>5 DEF Master!LockSpace, Master!ReturnAlloc
  <2> QED
    BY <2>1, <2>3, <2>4, <2>5 DEF Master!AllocStep
<1>3. CASE \E a \in Uploads : Master!AllocFails(a)
  <2>1. PICK a \in Uploads : Master!AllocFails(a)
    BY <1>3
  <2>2. a # u
    BY <2>1 DEF Master!AllocFails, Master!Final
  <2> QED
    BY <1>1, <2>1, <2>2 DEF Master!AllocFails, Master!ReturnAlloc
<1>4. CASE UNCHANGED alloc
  BY <1>4
<1>5. ASSUME NEW n \in Saves, Master!NotifyStep(n) \/ Master!NotifyFails(n)
      PROVE  UNCHANGED alloc
  BY <1>5 DEF Master!NotifyStep, Master!NotifyBlobSaved, Master!UpdateBlobEntry,
     Master!ReadWorkerState, Master!ChargeSpace, Master!NotifyFails
<1>6. ASSUME NEW l \in Fetches, Master!LocateStep(l) \/ Master!LocateFails(l)
      PROVE  UNCHANGED alloc
  BY <1>6 DEF Master!LocateStep, Master!GetWorkerWithBlob, Master!AnswerLocate,
     Master!LocateFails
<1>7. ASSUME NEW r \in Boots, Master!RegisterStep(r) \/ Master!RegisterFails(r)
      PROVE  UNCHANGED alloc
  BY <1>7 DEF Master!RegisterStep, Master!RegisterWorker, Master!DropCopies,
     Master!AddWorkerState, Master!RegisterFails
<1>8. ASSUME NEW d \in Removals, Master!DeleteStep(d) \/ Master!DeleteFails(d)
      PROVE  UNCHANGED alloc
  BY <1>8 DEF Master!DeleteStep, Master!DeleteBlob, Master!AskWorker, Master!DeleteEntries,
     Master!DeleteFails
<1>9. UNCHANGED Master!vars => UNCHANGED alloc
  BY DEF Master!vars
<1>10. Master!Fault => UNCHANGED alloc \/ \E a \in Uploads : Master!AllocFails(a)
  BY <1>5, <1>6, <1>7, <1>8 DEF Master!Fault
<1>11. \/ UNCHANGED alloc
       \/ \E a \in Uploads : Master!AllocStep(a) \/ Master!AllocFails(a)
  BY <1>5, <1>6, <1>7, <1>8, <1>9, <1>10 DEF Master!Next
<1> QED
  BY <1>2, <1>3, <1>4, <1>11

\* A frontend begins to send with the workers of the answer, and then has fewer
\* and fewer of them to send to.
LEMMA UploadMoves ==
  ASSUME Typing, MP!TypeOK, Next
  PROVE  /\ upload' \in [Uploads -> UploadCall]
         /\ \A u \in Uploads : upload'[u].pc = "sending" =>
              \/ upload[u].pc = "sending" /\ upload'[u].todo \subseteq upload[u].todo
              \/ /\ alloc[u].pc = "ok"
                 /\ upload'[u].todo = alloc[u].placed
                 /\ UNCHANGED alloc
<1>1. ASSUME NEW u \in Uploads, ReceiveBlob(u)
      PROVE  upload' \in [Uploads -> UploadCall]
             /\ \A v \in Uploads : upload'[v].pc = "sending" => upload'[v] = upload[v]
  <2>1. PICK pc \in {"allocating", "error"}, temp \in BOOLEAN :
          upload' = [upload EXCEPT ![u].pc = pc, ![u].temp = temp]
    BY <1>1, Zenon DEF ReceiveBlob
  <2>2. upload[u] \in UploadCall
    BY DEF Typing
  <2>3. upload' = [upload EXCEPT ![u] = [upload[u] EXCEPT !.pc = pc, !.temp = temp]]
    BY <2>1, Zenon DEF Typing
  <2>4. [upload[u] EXCEPT !.pc = pc, !.temp = temp] \in UploadCall
    BY <2>2 DEF UploadCall, Final
  <2>5. upload'[u].pc # "sending"
    BY <2>2, <2>3 DEF Typing, UploadCall
  <2> QED
    BY <2>3, <2>4, <2>5 DEF Typing
<1>2. ASSUME NEW u \in Uploads, TakeWorkers(u)
      PROVE  upload' \in [Uploads -> UploadCall]
             /\ \A v \in Uploads : upload'[v].pc = "sending" =>
                  \/ upload'[v] = upload[v]
                  \/ /\ alloc[v].pc = "ok"
                     /\ upload'[v].todo = alloc[v].placed
                     /\ UNCHANGED alloc
  <2>1. alloc[u].placed \subseteq Workers
    BY DEF MP!TypeOK, MP!AllocCall
  <2> QED
    BY <1>2, <2>1 DEF Typing, TakeWorkers, UploadCall, Final, masters
<1>3. ASSUME NEW u \in Uploads, NEW w \in Workers, OpenSave(u, w)
      PROVE  upload' \in [Uploads -> UploadCall]
             /\ \A v \in Uploads : upload'[v].pc = "sending" =>
                  upload[v].pc = "sending" /\ upload'[v].todo \subseteq upload[v].todo
  BY <1>3 DEF Typing, OpenSave, UploadCall, Final
<1>4. ASSUME NEW u \in Uploads, NEW w \in Workers,
             OpenSaveFails(u, w) \/ SaveAnswered(u, w) \/ StreamBreaks(u, w)
      PROVE  upload' \in [Uploads -> UploadCall]
             /\ \A v \in Uploads : upload'[v].pc = "sending" =>
                  upload[v].pc = "sending" /\ upload'[v].todo \subseteq upload[v].todo
  BY <1>4 DEF Typing, OpenSaveFails, SaveAnswered, StreamBreaks, Streaming, UploadCall, Final
<1>5. CASE UNCHANGED upload
  BY <1>5 DEF Typing
<1>6. ASSUME NEW u \in Uploads, NEW w,
             AskMaster(u) \/ ServeSave(u, w) \/ ServeNotify(u, w) \/ NotifyAnswered(u, w)
      PROVE  UNCHANGED upload
  BY <1>6 DEF AskMaster, ServeSave, ServeNotify, NotifyAnswered, frontends
<1>7. ASSUME NEW g \in Fetches, FetchStep(g) \/ FetchBreaks(g)
      PROVE  UNCHANGED upload
  BY <1>7 DEF FetchStep, LocateBlob, StartFetch, ServeGet, EndFetch, FetchBreaks, frontends
<1>8. ASSUME NEW d \in Removals, RemovalStep(d)
      PROVE  UNCHANGED upload
  BY <1>8 DEF RemovalStep, StartRemoval, EndRemoval, ServeErase, AskedWorker, frontends
<1>9. \/ \E w \in Workers, r \in Boots : Crash(w, r) \/ Retry(w, r)
      \/ \E r \in Boots : ServeRegister(r)
      \/ \E w \in Workers : Serve(w)
      \/ MasterFault
      \/ UNCHANGED vars
      => UNCHANGED upload
  BY DEF Crash, Retry, ServeRegister, Serve, MasterFault, vars, frontends
<1>10. CASE \E u \in Uploads : UploadStep(u)
  <2>1. PICK u \in Uploads : UploadStep(u)
    BY <1>10
  <2> QED
    BY <1>1, <1>2, <1>3, <1>4, <1>5, <1>6, <2>1 DEF UploadStep
<1>11. CASE \E u \in Uploads, w \in Workers :
              ServeSave(u, w) \/ ServeNotify(u, w) \/ NotifyAnswered(u, w) \/ StreamBreaks(u, w)
  BY <1>4, <1>5, <1>6, <1>11
<1> QED
  BY <1>5, <1>7, <1>8, <1>9, <1>10, <1>11 DEF Next

\* Only OpenSave begins a SaveBlob; every other step that touches one moves a
\* call that had begun.
LEMMA SaveMoves ==
  ASSUME Typing, Next
  PROVE  /\ save' \in [Saves -> Worker!SaveCall]
         /\ \A s \in Saves : save'[s].pc # "idle" =>
              save[s].pc # "idle" \/ OpenSave(s[1], s[2])
<1> DEFINE Kept == /\ save' \in [Saves -> Worker!SaveCall]
                   /\ \A s \in Saves : save'[s].pc # "idle" => save[s].pc # "idle"
<1>1. ASSUME NEW u \in Uploads, NEW w \in Workers, OpenSave(u, w)
      PROVE  /\ save' \in [Saves -> Worker!SaveCall]
             /\ \A s \in Saves : save'[s].pc # "idle" => save[s].pc # "idle" \/ s = <<u, w>>
  <2>1. save' = [save EXCEPT ![<<u, w>>].pc = "receiving"]
    BY <1>1 DEF OpenSave, Worker!SaveBlob
  <2> QED
    BY <2>1 DEF Typing, Worker!SaveCall
<1>2. ASSUME NEW u \in Uploads, NEW w \in Workers, ServeSave(u, w)
      PROVE  Kept
  <2>1. <<u, w>> \in Saves
    BY DEF Saves
  <2>2. CASE Worker!ReceiveChunk(<<u, w>>)
    BY <2>1, <2>2, ChunksAssumption DEF Typing, Worker!SaveCall, Worker!ReceiveChunk
  <2>4. CASE Worker!ReceiveChunkShort(<<u, w>>)
    <3> DEFINE call == [save[<<u, w>>] EXCEPT !.received = @ + 1, !.short = TRUE]
    <3>1. save' = [save EXCEPT ![<<u, w>>] = call]
      BY <2>1, <2>4, Zenon DEF Typing, Worker!ReceiveChunkShort
    <3>2. call \in Worker!SaveCall /\ save[<<u, w>>].pc # "idle"
      BY <2>1, <2>4, ChunksAssumption DEF Typing, Worker!SaveCall, Worker!ReceiveChunkShort
    <3> QED
      BY <2>1, <3>1, <3>2 DEF Typing
  <2>3. CASE \/ Worker!ReceiveChunkFails(<<u, w>>)
             \/ Worker!AcceptStream(<<u, w>>)
             \/ Worker!RejectStream(<<u, w>>)
    BY <2>1, <2>3, ZenonT(60) DEF Typing, Worker!SaveCall, Worker!Final, Worker!ReceiveChunkFails,
       Worker!AcceptStream, Worker!RejectStream
  <2> QED
    BY <1>2, <2>2, <2>3, <2>4 DEF ServeSave
<1>3. ASSUME NEW u \in Uploads, NEW w \in Workers, NotifyAnswered(u, w)
      PROVE  Kept
  <2>1. PICK status \in Worker!Final : save' = [save EXCEPT ![<<u, w>>].pc = status]
    BY <1>3 DEF NotifyAnswered, Worker!MasterAnswers
  <2>2. <<u, w>> \in Saves /\ save[<<u, w>>].pc = "notifying"
    BY <1>3 DEF NotifyAnswered, Worker!MasterAnswers, Saves
  <2> QED
    BY <2>1, <2>2 DEF Typing, Worker!SaveCall, Worker!Final
<1>4. ASSUME NEW w \in Workers, NEW r \in Boots, Crash(w, r)
      PROVE  Kept
  <2>1. save' = [s \in Saves |->
          IF save[s].hash \in {w} \X Hashes /\ Worker!Active(save[s].pc)
            THEN [save[s] EXCEPT !.pc = "error"] ELSE save[s]]
    BY <1>4 DEF Crash, Worker!Lose
  <2> QED
    BY <2>1 DEF Typing, Worker!SaveCall, Worker!Final, Worker!Active
<1>5. ASSUME NEW d \in Removals, RemovalStep(d)
      PROVE  UNCHANGED save
  BY <1>5 DEF RemovalStep, StartRemoval, EndRemoval, ServeErase, AskedWorker, disks,
     Worker!DeleteBlob, Worker!RemoveFile
<1>6. ASSUME NEW g \in Fetches, FetchStep(g) \/ FetchBreaks(g)
      PROVE  UNCHANGED save
  BY <1>6 DEF FetchStep, FetchBreaks, LocateBlob, StartFetch, ServeGet, EndFetch, disks,
     Worker!GetStep, Worker!GetBlob, Worker!OpenStream, Worker!SendChunk, Worker!EndOfFile,
     Worker!SendFails, Worker!ReadFails
<1>7. ASSUME NEW u \in Uploads, NEW w,
             \/ ReceiveBlob(u) \/ AskMaster(u) \/ TakeWorkers(u)
             \/ OpenSaveFails(u, w) \/ SaveAnswered(u, w) \/ ServeNotify(u, w)
             \/ StreamBreaks(u, w)
      PROVE  UNCHANGED save
  BY <1>7 DEF ReceiveBlob, AskMaster, TakeWorkers, OpenSaveFails, SaveAnswered, ServeNotify,
     StreamBreaks, disks
<1>8. \/ \E w \in Workers, r \in Boots : Retry(w, r)
      \/ \E r \in Boots : ServeRegister(r)
      \/ \E w \in Workers : Serve(w)
      \/ MasterFault
      \/ UNCHANGED vars
      => UNCHANGED save
  BY DEF Retry, ServeRegister, Serve, MasterFault, vars, disks
<1>9. CASE UNCHANGED save
  BY <1>9 DEF Typing
<1>10. CASE \E u \in Uploads, w \in Workers : OpenSave(u, w)
  <2>1. PICK u \in Uploads, w \in Workers : OpenSave(u, w)
    BY <1>10
  <2>2. \A s \in Saves : s = <<u, w>> => OpenSave(s[1], s[2])
    BY <2>1
  <2> QED
    BY <1>1, <2>1, <2>2
<1>11. CASE \E u \in Uploads, w \in Workers : ServeSave(u, w) \/ NotifyAnswered(u, w)
  BY <1>2, <1>3, <1>11
<1>12. CASE \E w \in Workers, r \in Boots : Crash(w, r)
  BY <1>4, <1>12
<1> QED
  BY <1>5, <1>6, <1>7, <1>8, <1>9, <1>10, <1>11, <1>12 DEF Next, UploadStep

SendingInv == Typing /\ SentWherePlaced

LEMMA SendingStep ==
  ASSUME SendingInv, MP!TypeOK, Next
  PROVE  SendingInv'
<1> USE DEF SendingInv
<1>1. Typing'
  BY UploadMoves, SaveMoves DEF Typing
<1>2. ASSUME NEW u \in Uploads, alloc[u].pc = "ok"
      PROVE  alloc'[u] = alloc[u]
  BY <1>2, AnsweredAlloc, StepAtMasters DEF Master!vars
<1>3. ASSUME NEW u \in Uploads, upload'[u].pc = "sending"
      PROVE  alloc'[u].pc = "ok" /\ upload'[u].todo \subseteq alloc'[u].placed
  <2>1. CASE upload[u].pc = "sending" /\ upload'[u].todo \subseteq upload[u].todo
    BY <1>2, <2>1 DEF SentWherePlaced
  <2>2. CASE alloc[u].pc = "ok" /\ upload'[u].todo = alloc[u].placed /\ UNCHANGED alloc
    BY <2>2
  <2> QED
    BY <1>3, <2>1, <2>2, UploadMoves
<1>4. ASSUME NEW u \in Uploads, NEW w \in Workers, save'[<<u, w>>].pc # "idle"
      PROVE  alloc'[u].pc = "ok" /\ w \in alloc'[u].placed
  <2>1. <<u, w>> \in Saves
    BY DEF Saves
  <2>2. CASE save[<<u, w>>].pc # "idle"
    BY <1>2, <2>2 DEF SentWherePlaced
  <2>3. CASE OpenSave(u, w)
    BY <1>2, <2>3 DEF SentWherePlaced, OpenSave
  <2> QED
    BY <1>4, <2>1, <2>2, <2>3, SaveMoves
<1> QED
  BY <1>1, <1>3, <1>4 DEF SentWherePlaced

LEMMA SendingInvariant == Spec => []SendingInv
<1>1. Init => SendingInv
  <2> SUFFICES ASSUME Init PROVE SendingInv
    OBVIOUS
  <2>1. upload \in [Uploads -> UploadCall]
    BY DEF Init, UploadCall
  <2>2. save \in [Saves -> Worker!SaveCall] /\ \A s \in Saves : save[s].pc = "idle"
    BY ChunksAssumption DEF Init, Worker!Init, Worker!SaveCall
  <2>3. \A u \in Uploads, w \in Workers : <<u, w>> \in Saves
    BY DEF Saves
  <2>4. \A u \in Uploads : upload[u].pc = "idle"
    BY DEF Init
  <2> QED
    BY <2>1, <2>2, <2>3, <2>4 DEF SendingInv, Typing, SentWherePlaced
<1>2. SendingInv /\ MP!TypeOK /\ [Next]_vars => SendingInv'
  <2>1. CASE UNCHANGED vars
    BY <2>1 DEF SendingInv, Typing, SentWherePlaced, vars, masters, disks, frontends
  <2> QED
    BY <2>1, SendingStep
<1> QED
  BY <1>1, <1>2, MastersExclude, PTL DEF Spec

\* Two uploads of one blob never write the same file of a worker, unless the row
\* of the copy was erased between them: what keeps them apart is the insert of
\* that row by GetWorkersToSaveBlob.
THEOREM OneUpload == Spec => []OneUploadPerFile
<1>1. SendingInv /\ MP!ExclusivePlacement => OneUploadPerFile
  BY DEF SendingInv, SentWherePlaced, MP!ExclusivePlacement, OneUploadPerFile,
     MP!Erased, Master!Erased, MP!Final, Master!Final
<1> QED
  BY <1>1, SendingInvariant, MastersExclude, PTL
=============================================================================
