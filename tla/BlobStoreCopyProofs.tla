------------------------- MODULE BlobStoreCopyProofs --------------------------
(***************************************************************************)
(* What is proved of whole copies in the system: TypeOK,                   *)
(* UndisturbedCopyIsWhole, AcknowledgedUploadIsStored,                     *)
(* AcknowledgedIsFound, UndisturbedFetchIsWhole and DurableSpec, with and  *)
(* without faults.                                                         *)
(*                                                                         *)
(* The argument: as long as a copy is not disturbed, by a deletion of its  *)
(* blob, the death of its worker or a write that fell short, its row is    *)
(* not erased, so one upload alone writes its file (OneUpload), all that   *)
(* it streams goes there, and nothing removes it.  What the                *)
(* file holds then follows that upload (WrittenSoFar), what the masters    *)
(* say follows its notification (SavedByNotify), and what a reader gets    *)
(* follows the file (ReadSoFar).  Two sections of lemmas are for those who *)
(* call the frontends: what answers mean, what a deletion leaves.  In the  *)
(* last one all of this together is DurableStore, step by step.            *)
(***************************************************************************)
EXTENDS BlobStoreProofs

\* The workers' theorems; its definitions are those of Worker under another name.
WP == INSTANCE WorkerServiceProofs WITH
  Hashes <- Names, Saves <- Saves, Gets <- Fetches \X Workers,
  Deletes <- Removals \X Workers, Crashes <- FALSE, Faults <- Faults \/ BadDisks # {},
  delete <- erase, orderly <- TRUE

-----------------------------------------------------------------------------
(* Who changes what *)

\* Each variable that is no table changes only by these actions.
Moves ==
  /\ \/ UNCHANGED alloc
     \/ \E u \in Uploads : AskMaster(u) \/ Master!AllocFails(u)
  /\ \/ UNCHANGED notify
     \/ \E u \in Uploads, w \in Workers : ServeNotify(u, w)
     \/ \E s \in Saves : Master!NotifyFails(s)
  /\ \/ UNCHANGED locate
     \/ \E g \in Fetches : LocateBlob(g) \/ Master!LocateFails(g)
  /\ \/ UNCHANGED register
     \/ \E r \in Boots : ServeRegister(r) \/ Master!RegisterFails(r)
  /\ \/ UNCHANGED deletion
     \/ \E d \in Removals : StartRemoval(d) \/ EndRemoval(d) \/ Master!DeleteFails(d)
     \/ \E d \in Removals, w \in Workers : AskedWorker(d, w)
  /\ \/ UNCHANGED <<files, data>>
     \/ \E u \in Uploads, w \in Workers : OpenSave(u, w) \/ ServeSave(u, w)
     \/ \E d \in Removals, w \in Workers : ServeErase(d, w)
     \/ \E w \in Workers, r \in Boots : Crash(w, r)
  /\ \/ UNCHANGED save
     \/ \E u \in Uploads, w \in Workers :
          OpenSave(u, w) \/ ServeSave(u, w) \/ NotifyAnswered(u, w)
     \/ \E w \in Workers, r \in Boots : Crash(w, r)
  /\ \/ UNCHANGED get
     \/ \E g \in Fetches, w \in Workers : ServeGet(g, w)
     \/ \E u \in Uploads, w \in Workers : ServeSave(u, w)
     \/ \E d \in Removals, w \in Workers : ServeErase(d, w)
     \/ \E w \in Workers, r \in Boots : Crash(w, r)
  /\ \/ UNCHANGED erase
     \/ \E d \in Removals, w \in Workers : ServeErase(d, w)
     \/ \E w \in Workers, r \in Boots : Crash(w, r)
  /\ \/ UNCHANGED upload
     \/ \E u \in Uploads : ReceiveBlob(u) \/ TakeWorkers(u)
     \/ \E u \in Uploads, w \in Workers :
          OpenSave(u, w) \/ OpenSaveFails(u, w) \/ SaveAnswered(u, w) \/ StreamBreaks(u, w)
  /\ \/ UNCHANGED fetch
     \/ \E g \in Fetches : StartFetch(g) \/ FetchBreaks(g)
     \/ \E g \in Fetches, w \in Workers : EndFetch(g, w)
  /\ \/ UNCHANGED boots
     \/ \E w \in Workers, r \in Boots : Crash(w, r) \/ Retry(w, r)
     \/ \E w \in Workers : Serve(w)

\* Every action has its place in Moves.
LEMMA StoreFrames == Next => Moves
<1> SUFFICES ASSUME Next PROVE Moves
  OBVIOUS
<1> USE DEF Moves, masters, disks, frontends, boots
<1>1. ASSUME NEW u \in Uploads, AskMaster(u)
      PROVE  UNCHANGED <<notify, locate, register, deletion, disks, frontends, boots>>
  BY <1>1 DEF AskMaster, Master!AllocStep, Master!GetWorkersToSaveBlob, Master!AddBlobEntry,
     Master!LockSpace
<1>2. ASSUME NEW u \in Uploads, NEW w,
             \/ ReceiveBlob(u) \/ TakeWorkers(u)
             \/ OpenSaveFails(u, w) \/ SaveAnswered(u, w) \/ StreamBreaks(u, w)
      PROVE  UNCHANGED <<masters, disks, fetch, boots>>
  BY <1>2 DEF ReceiveBlob, TakeWorkers, OpenSaveFails, SaveAnswered, StreamBreaks
<1>3. ASSUME NEW u \in Uploads, NEW w \in Workers, OpenSave(u, w)
      PROVE  UNCHANGED <<masters, get, erase, fetch, boots>>
  BY <1>3 DEF OpenSave, Worker!SaveBlob
<1>4. ASSUME NEW u \in Uploads, NEW w \in Workers, ServeSave(u, w)
      PROVE  UNCHANGED <<masters, erase, frontends, boots>>
  BY <1>4 DEF ServeSave, Worker!ReceiveChunk, Worker!ReceiveChunkFails,
     Worker!ReceiveChunkShort, Worker!AcceptStream, Worker!RejectStream
<1>5. ASSUME NEW u \in Uploads, NEW w \in Workers, ServeNotify(u, w)
      PROVE  UNCHANGED <<alloc, locate, register, deletion, disks, frontends, boots>>
  BY <1>5 DEF ServeNotify, Master!NotifyStep, Master!NotifyBlobSaved, Master!UpdateBlobEntry,
     Master!ReadWorkerState, Master!ChargeSpace
<1>6. ASSUME NEW u \in Uploads, NEW w \in Workers, NotifyAnswered(u, w)
      PROVE  UNCHANGED <<masters, files, data, get, erase, frontends, boots>>
  BY <1>6 DEF NotifyAnswered, Worker!MasterAnswers
<1>7. ASSUME NEW g \in Fetches, LocateBlob(g)
      PROVE  UNCHANGED <<alloc, notify, register, deletion, disks, frontends, boots>>
  BY <1>7 DEF LocateBlob, Master!LocateStep, Master!GetWorkerWithBlob, Master!AnswerLocate
<1>8. ASSUME NEW g \in Fetches, NEW w,
             StartFetch(g) \/ FetchBreaks(g) \/ EndFetch(g, w)
      PROVE  UNCHANGED <<masters, disks, upload, boots>>
  BY <1>8 DEF StartFetch, FetchBreaks, EndFetch
<1>9. ASSUME NEW g \in Fetches, NEW w \in Workers, ServeGet(g, w)
      PROVE  UNCHANGED <<masters, files, data, save, erase, frontends, boots>>
  BY <1>9 DEF ServeGet, Worker!GetStep, Worker!GetBlob, Worker!OpenStream, Worker!SendChunk,
     Worker!EndOfFile, Worker!SendFails, Worker!ReadFails
<1>10. ASSUME NEW d \in Removals, NEW w,
              StartRemoval(d) \/ EndRemoval(d) \/ AskedWorker(d, w)
       PROVE  UNCHANGED <<alloc, notify, locate, register, disks, frontends, boots>>
  BY <1>10 DEF StartRemoval, EndRemoval, AskedWorker, Master!DeleteBlob, Master!DeleteEntries,
     Master!AskWorker
<1>11. ASSUME NEW d \in Removals, NEW w \in Workers, ServeErase(d, w)
       PROVE  UNCHANGED <<masters, save, frontends, boots>>
  BY <1>11 DEF ServeErase, Worker!DeleteBlob, Worker!RemoveFile
<1>12. ASSUME NEW w \in Workers, NEW r \in Boots, Crash(w, r)
       PROVE  UNCHANGED <<masters, frontends>>
  BY <1>12 DEF Crash
<1>13. ASSUME NEW w \in Workers, NEW r \in Boots, Retry(w, r) \/ Serve(w)
       PROVE  UNCHANGED <<masters, disks, frontends>>
  BY <1>13 DEF Retry, Serve
<1>14. ASSUME NEW r \in Boots, ServeRegister(r)
       PROVE  UNCHANGED <<alloc, notify, locate, deletion, disks, frontends, boots>>
  BY <1>14 DEF ServeRegister, Master!RegisterStep, Master!RegisterWorker, Master!DropCopies,
     Master!AddWorkerState
<1>15. ASSUME MasterFault
       PROVE  /\ UNCHANGED <<disks, frontends, boots>>
              /\ UNCHANGED alloc \/ \E u \in Uploads : Master!AllocFails(u)
              /\ UNCHANGED notify \/ \E s \in Saves : Master!NotifyFails(s)
              /\ UNCHANGED locate \/ \E g \in Fetches : Master!LocateFails(g)
              /\ UNCHANGED register \/ \E r \in Boots : Master!RegisterFails(r)
              /\ UNCHANGED deletion \/ \E d \in Removals : Master!DeleteFails(d)
  BY <1>15 DEF MasterFault, Master!Fault, Master!AllocFails, Master!NotifyFails,
     Master!LocateFails, Master!RegisterFails, Master!DeleteFails
<1>16. UNCHANGED vars => UNCHANGED <<masters, disks, frontends, boots>>
  BY DEF vars
<1>17. CASE \E u \in Uploads : UploadStep(u)
  <2>1. PICK u \in Uploads : UploadStep(u)
    BY <1>17
  <2>2. CASE ReceiveBlob(u) \/ TakeWorkers(u)
    BY <1>2, <2>2
  <2>3. CASE AskMaster(u)
    BY <1>1, <2>3
  <2>4. CASE \E w \in Workers : OpenSave(u, w)
    BY <1>3, <2>4
  <2>5. CASE \E w \in Workers : OpenSaveFails(u, w) \/ SaveAnswered(u, w)
    BY <1>2, <2>5
  <2> QED
    BY <2>1, <2>2, <2>3, <2>4, <2>5 DEF UploadStep
<1>18. ASSUME NEW u \in Uploads, NEW w \in Workers,
              ServeSave(u, w) \/ ServeNotify(u, w) \/ NotifyAnswered(u, w) \/ StreamBreaks(u, w)
       PROVE  Moves
  <2>1. CASE ServeSave(u, w)
    BY <1>4, <2>1
  <2>2. CASE ServeNotify(u, w)
    BY <1>5, <2>2
  <2>3. CASE NotifyAnswered(u, w)
    BY <1>6, <2>3
  <2>4. CASE StreamBreaks(u, w)
    BY <1>2, <2>4
  <2> QED
    BY <1>18, <2>1, <2>2, <2>3, <2>4
<1>19. ASSUME NEW g \in Fetches, FetchStep(g) \/ FetchBreaks(g)
       PROVE  Moves
  <2>1. CASE LocateBlob(g)
    BY <1>7, <2>1
  <2>2. CASE StartFetch(g) \/ FetchBreaks(g)
    BY <1>8, <2>2
  <2>3. CASE \E w \in Workers : EndFetch(g, w)
    BY <1>8, <2>3
  <2>4. CASE \E w \in Workers : ServeGet(g, w)
    BY <1>9, <2>4
  <2> QED
    BY <1>19, <2>1, <2>2, <2>3, <2>4 DEF FetchStep
<1>20. ASSUME NEW d \in Removals, RemovalStep(d)
       PROVE  Moves
  <2>1. CASE StartRemoval(d) \/ EndRemoval(d) \/ \E w \in Workers : AskedWorker(d, w)
    BY <1>10, <2>1
  <2>2. CASE \E w \in Workers : ServeErase(d, w)
    BY <1>11, <2>2
  <2> QED
    BY <1>20, <2>1, <2>2 DEF RemovalStep
<1>21. ASSUME NEW w \in Workers, NEW r \in Boots, Crash(w, r) \/ Retry(w, r)
       PROVE  Moves
  BY <1>12, <1>13, <1>21
<1>22. CASE \E r \in Boots : ServeRegister(r)
  BY <1>14, <1>22
<1>23. CASE \E w \in Workers : Serve(w)
  BY <1>23 DEF Serve
<1>24. CASE MasterFault
  BY <1>15, <1>24
<1>25. CASE UNCHANGED vars
  BY <1>16, <1>25
<1> QED
  BY <1>17, <1>18, <1>19, <1>20, <1>21, <1>22, <1>23, <1>24, <1>25 DEF Next

-----------------------------------------------------------------------------
(* The workers of the system are workers of WorkerService *)

\* A step of the system is one of the workers, the loss of some files, or leaves
\* the workers alone.
LEMMA StepAtWorkers ==
  Next => \/ Worker!Next
          \/ \E names \in SUBSET Names : Worker!Lose(names)
          \/ UNCHANGED disks
<1> SUFFICES ASSUME Next
             PROVE  \/ Worker!Next
                    \/ \E names \in SUBSET Names : Worker!Lose(names)
                    \/ UNCHANGED disks
  OBVIOUS
<1>1. ASSUME NEW u \in Uploads, NEW w \in Workers,
             OpenSave(u, w) \/ ServeSave(u, w) \/ NotifyAnswered(u, w)
      PROVE  Worker!Next
  <2>1. <<u, w>> \in Saves
    BY DEF Saves
  <2> QED
    BY <1>1, <2>1 DEF OpenSave, ServeSave, NotifyAnswered, Worker!Next, Worker!SaveStep,
       Worker!WriteFault
<1>2. ASSUME NEW g \in Fetches, NEW w \in Workers, ServeGet(g, w)
      PROVE  Worker!Next
  BY <1>2 DEF ServeGet, Worker!Next, Worker!ReadFault
<1>3. ASSUME NEW d \in Removals, NEW w \in Workers, ServeErase(d, w)
      PROVE  Worker!Next
  BY <1>3 DEF ServeErase, Worker!Next, Worker!DeleteStep
<1>4. ASSUME NEW w \in Workers, NEW r \in Boots, Crash(w, r)
      PROVE  \E names \in SUBSET Names : Worker!Lose(names)
  <2>1. {w} \X Hashes \in SUBSET Names
    BY DEF Names
  <2> QED
    BY <1>4, <2>1 DEF Crash
<1> QED
  BY <1>1, <1>2, <1>3, <1>4, StoreFrames DEF Moves, disks

\* Expanded, a step of Worker is a step of WP.
LEMMA SameWorkers ==
  /\ Worker!Init => WP!Init
  /\ Worker!Next => WP!Next
  /\ \A names \in SUBSET Names : Worker!Lose(names) => WP!Lose(names)
  /\ WP!TypeOK => Worker!TypeOK
<1>1. Worker!Init => WP!Init
  BY DEF Worker!Init, WP!Init
<1>2. \A names \in SUBSET Names : Worker!Lose(names) => WP!Lose(names)
  BY DEF Worker!Lose, WP!Lose, Worker!Active, WP!Active, Worker!Final, WP!Final
<1>3. WP!TypeOK => Worker!TypeOK
  BY DEF Worker!TypeOK, WP!TypeOK, Worker!Data, WP!Data, Worker!SaveCall, WP!SaveCall,
     Worker!GetCall, WP!GetCall, Worker!DeleteCall, WP!DeleteCall, Worker!Final, WP!Final
<1>4. Worker!Next => WP!Next
  BY DEF Worker!Next, WP!Next, Worker!vars, WP!vars, Worker!Final, WP!Final, Worker!Active,
     WP!Active, Worker!Prefix, WP!Prefix, Worker!New, WP!New, Worker!append_chunk,
     WP!append_chunk, Worker!remove, WP!remove, Worker!Lose, WP!Lose, Worker!Die, WP!Die,
     Worker!SaveStep, WP!SaveStep, Worker!SaveBlob, WP!SaveBlob, Worker!ReceiveChunk,
     WP!ReceiveChunk, Worker!ReceiveChunkShort, WP!ReceiveChunkShort,
     Worker!ReceiveChunkFails, WP!ReceiveChunkFails, Worker!HashMatches, WP!HashMatches,
     Worker!AcceptStream, WP!AcceptStream, Worker!RejectStream, WP!RejectStream,
     Worker!EmptyStream, WP!EmptyStream, Worker!MasterAnswers, WP!MasterAnswers,
     Worker!GetStep, WP!GetStep, Worker!GetBlob, WP!GetBlob, Worker!OpenStream,
     WP!OpenStream, Worker!Readable, WP!Readable, Worker!SendChunk, WP!SendChunk,
     Worker!EndOfFile, WP!EndOfFile, Worker!SendFails, WP!SendFails, Worker!DeleteStep,
     WP!DeleteStep, Worker!DeleteBlob, WP!DeleteBlob, Worker!RemoveFile, WP!RemoveFile,
     Worker!Crash, WP!Crash, Worker!WriteFault, WP!WriteFault, Worker!ReadFault,
     WP!ReadFault, Worker!ReadFails, WP!ReadFails, Worker!Quiet, WP!Quiet
<1> QED
  BY <1>1, <1>2, <1>3, <1>4

\* Types at the workers, and what their calls were given.
LEMMA WorkerTypes ==
  ASSUME WP!TypeOK, Next
  PROVE  /\ WP!TypeOK'
         /\ \A s \in Saves : /\ save'[s].hash = save[s].hash
                             /\ save'[s].blob = save[s].blob
         /\ \A c \in Fetches \X Workers : get'[c].hash = get[c].hash
         /\ \A c \in Removals \X Workers : erase'[c].hash = erase[c].hash

<1>1. WP!Next \/ (\E names \in SUBSET Names : WP!Lose(names)) \/ UNCHANGED disks
  BY StepAtWorkers, SameWorkers
<1>2. CASE UNCHANGED disks
  BY <1>2 DEF disks, WP!TypeOK
<1>3. CASE WP!Next \/ \E names \in SUBSET Names : WP!Lose(names)
  BY <1>3, WP!TypedStep, WP!CallArgumentsKept, ChunksAssumption
<1> QED
  BY <1>1, <1>2, <1>3

Types ==
  /\ MP!TypeOK
  /\ WP!TypeOK
  /\ upload \in [Uploads -> UploadCall]
  /\ fetch \in [Fetches -> FetchCall]
  /\ boot \in [Workers -> SUBSET Boots]
  /\ sent \subseteq Boots

\* What the lemmas on frontends assume is part of it.
LEMMA TypesGive == Types => MP!TypeOK /\ WP!TypeOK /\ Worker!TypeOK /\ Typing
BY SameWorkers DEF Types, Typing, Worker!TypeOK

\* A step of the system is one of the masters, or leaves them alone.
LEMMA MasterSteps == Next => MP!Next \/ UNCHANGED masters
BY StepAtMasters, SameNext DEF Master!vars, masters

\* Given those of the masters, types last.
LEMMA TypesStep ==
  ASSUME Types, MP!TypeOK', Next
  PROVE  Types'
<1>1. WP!TypeOK' /\ upload' \in [Uploads -> UploadCall]
  BY TypesGive, WorkerTypes, UploadMoves
<1>2. fetch' \in [Fetches -> FetchCall]
  <2>1. ASSUME NEW g \in Fetches, NEW w, StartFetch(g) \/ FetchBreaks(g) \/ EndFetch(g, w)
        PROVE  fetch' \in [Fetches -> FetchCall]
    BY <2>1 DEF Types, StartFetch, FetchBreaks, EndFetch, FetchCall, Final
  <2> QED
    BY <2>1, StoreFrames DEF Moves, Types
<1>3. boot' \in [Workers -> SUBSET Boots] /\ sent' \subseteq Boots
  <2>1. ASSUME NEW w \in Workers, NEW r \in Boots, Crash(w, r) \/ Retry(w, r)
        PROVE  boot' \in [Workers -> SUBSET Boots] /\ sent' \subseteq Boots
    BY <2>1 DEF Types, Crash, Retry, Send
  <2>2. ASSUME NEW w \in Workers, Serve(w)
        PROVE  boot' \in [Workers -> SUBSET Boots] /\ sent' \subseteq Boots
    BY <2>2 DEF Types, Serve
  <2> QED
    BY <2>1, <2>2, StoreFrames DEF Moves, Types, boots
<1> QED
  BY <1>1, <1>2, <1>3 DEF Types

\* The types of masters, workers and frontends together.
LEMMA TypesInvariant == Spec => []Types
<1>1. Init /\ MP!TypeOK => Types
  <2> SUFFICES ASSUME Init, MP!TypeOK PROVE Types
    OBVIOUS
  <2>1. WP!TypeOK
    BY SameWorkers, WP!TypedInit, ChunksAssumption DEF Init
  <2>2. upload \in [Uploads -> UploadCall]
    BY DEF Init, UploadCall
  <2>3. fetch \in [Fetches -> FetchCall]
    BY DEF Init, FetchCall
  <2>4. boot \in [Workers -> SUBSET Boots] /\ sent \subseteq Boots
    BY DEF Init
  <2> QED
    BY <2>1, <2>2, <2>3, <2>4 DEF Types
<1>2. Types /\ MP!TypeOK' /\ [Next]_vars => Types'
  <2>1. CASE UNCHANGED vars
    BY <2>1 DEF Types, WP!TypeOK, vars, disks, frontends, boots
  <2> QED
    BY <2>1, TypesStep
<1> QED
  BY <1>1, <1>2, MastersExclude, PTL DEF Spec

\* Every row, call and file of the system has its type.
THEOREM StoreTypeCorrect == Spec => []TypeOK
<1>1. MP!TypeOK => Master!TypeOK
  BY DEF MP!TypeOK, Master!TypeOK, MP!BlobCopyTable, Master!BlobCopyTable, MP!BlobCopyDTO,
     Master!BlobCopyDTO, MP!WorkerStateTable, Master!WorkerStateTable, MP!WorkerStateDTO,
     Master!WorkerStateDTO, MP!AllocCall, Master!AllocCall, MP!NotifyCall,
     Master!NotifyCall, MP!LocateCall, Master!LocateCall, MP!RegisterCall,
     Master!RegisterCall, MP!DeleteCall, Master!DeleteCall, MP!Final, Master!Final,
     MP!DURING_CREATION, Master!DURING_CREATION, MP!SAVED, Master!SAVED
<1>2. Types => TypeOK
  BY <1>1, TypesGive DEF Types, TypeOK
<1> QED
  BY <1>2, TypesInvariant, PTL

-----------------------------------------------------------------------------
(* What disturbs a copy *)

Disturbed(h, w) == Deleted(h) \/ Died(w) \/ Torn(h, w)

\* The calls of one request are about one blob.
Arguments ==
  /\ \A u \in Uploads, w \in Workers :
       /\ save[<<u, w>>].hash = <<w, alloc[u].hash>>
       /\ save[<<u, w>>].blob = <<w, alloc[u].hash>>
       /\ notify[<<u, w>>].hash = alloc[u].hash
       /\ notify[<<u, w>>].worker = w
  /\ \A g \in Fetches, w \in Workers : get[<<g, w>>].hash = <<w, locate[g].hash>>
  /\ \A d \in Removals, w \in Workers : erase[<<d, w>>].hash = <<w, deletion[d].hash>>

\* Workers and masters erase for a deletion that has begun, and masters register what
\* was sent.
Causes ==
  /\ \A d \in Removals, w \in Workers :
       erase[<<d, w>>].pc # "idle" => deletion[d].pc # "idle"
  /\ \A d \in Removals : deletion[d].erased => deletion[d].pc # "idle"
  /\ \A r \in Boots : register[r].pc # "idle" => r \in sent
  /\ \A w \in Workers : \A r \in boot[w] : register[r].worker = w /\ r \in sent

Frame == Types /\ Arguments /\ Causes

\* Nobody changes what a call was given.
LEMMA ArgumentsStep ==
  ASSUME Types, Arguments, Next
  PROVE  Arguments'
<1>1. UNCHANGED masters \/ MP!Next
  BY MasterSteps
<1>2. /\ \A u \in Uploads : alloc'[u].hash = alloc[u].hash
      /\ \A s \in Saves : notify'[s].hash = notify[s].hash /\ notify'[s].worker = notify[s].worker
      /\ \A g \in Fetches : locate'[g].hash = locate[g].hash
      /\ \A d \in Removals : deletion'[d].hash = deletion[d].hash
  BY <1>1, MP!ArgumentsKept, ReplicasAssumption, FaultsAssumption DEF Types, masters
<1>3. \A u \in Uploads, w \in Workers : <<u, w>> \in Saves
  BY DEF Saves
<1>4. /\ \A s \in Saves : save'[s].hash = save[s].hash /\ save'[s].blob = save[s].blob
      /\ \A c \in Fetches \X Workers : get'[c].hash = get[c].hash
      /\ \A c \in Removals \X Workers : erase'[c].hash = erase[c].hash
  BY WorkerTypes DEF Types
<1>5. ASSUME NEW u \in Uploads, NEW w \in Workers
      PROVE  /\ save'[<<u, w>>].hash = <<w, alloc'[u].hash>>
             /\ save'[<<u, w>>].blob = <<w, alloc'[u].hash>>
             /\ notify'[<<u, w>>].hash = alloc'[u].hash
             /\ notify'[<<u, w>>].worker = w
  BY <1>2, <1>3, <1>4 DEF Arguments
<1>6. ASSUME NEW g \in Fetches, NEW w \in Workers
      PROVE  get'[<<g, w>>].hash = <<w, locate'[g].hash>>
  BY <1>2, <1>4 DEF Arguments
<1>7. ASSUME NEW d \in Removals, NEW w \in Workers
      PROVE  erase'[<<d, w>>].hash = <<w, deletion'[d].hash>>
  BY <1>2, <1>4 DEF Arguments
<1> QED
  BY <1>5, <1>6, <1>7 DEF Arguments

\* A request that has arrived has arrived for good.
LEMMA RequestsStay ==
  ASSUME Types, Next
  PROVE  /\ \A d \in Removals : /\ deletion'[d].hash = deletion[d].hash
                                /\ deletion[d].pc # "idle" => deletion'[d].pc # "idle"
         /\ \A r \in Boots : /\ register'[r].worker = register[r].worker
                             /\ register[r].pc # "idle" => register'[r].pc # "idle"
         /\ sent \subseteq sent'
<1>1. sent \subseteq sent'
  BY StoreFrames DEF Moves, boots, Crash, Retry, Serve, Send
<1> QED
  BY <1>1, MasterSteps, MP!ArgumentsKept, MP!CallsGoOn, ReplicasAssumption, FaultsAssumption
  DEF Types, masters

\* Calls begin with their cause, and causes stay.
LEMMA CausesStep ==
  ASSUME Types, Causes, Next
  PROVE  Causes'
<1> USE DEF Types, Causes
<1>1. ASSUME NEW d \in Removals, NEW w \in Workers, erase'[<<d, w>>].pc # "idle"
      PROVE  deletion'[d].pc # "idle"
  <2>1. /\ erase \in [Removals \X Workers -> WP!DeleteCall]
        /\ <<d, w>> \in Removals \X Workers
    BY DEF WP!TypeOK
  <2>2. CASE erase[<<d, w>>].pc # "idle"
    BY <2>2, RequestsStay
  <2>3. ASSUME NEW e \in Removals, NEW v \in Workers, ServeErase(e, v),
               erase[<<d, w>>].pc = "idle"
        PROVE  deletion[d].pc # "idle"
    <3>1. <<e, v>> = <<d, w>> /\ Worker!DeleteBlob(<<e, v>>)
      BY <1>1, <2>1, <2>3 DEF ServeErase, Worker!DeleteBlob, Worker!RemoveFile
    <3> QED
      BY <2>3, <3>1 DEF ServeErase, Worker!DeleteBlob, Worker!RemoveFile
  <2>4. ASSUME NEW v \in Workers, NEW r \in Boots, Crash(v, r), erase[<<d, w>>].pc = "idle"
        PROVE  FALSE
    BY <1>1, <2>1, <2>4 DEF Crash, Worker!Lose, Worker!Active
  <2> QED
    BY <1>1, <2>2, <2>3, <2>4, StoreFrames, RequestsStay DEF Moves
<1>4. ASSUME NEW d \in Removals, deletion'[d].erased
      PROVE  deletion'[d].pc # "idle"
  <2>1. deletion \in [Removals -> MP!DeleteCall]
    BY DEF MP!TypeOK
  <2>2. CASE deletion[d].erased
    BY <2>2, RequestsStay
  <2>3. ASSUME NEW e \in Removals,
               \/ StartRemoval(e) \/ Master!DeleteFails(e)
               \/ \E v \in Workers : AskedWorker(e, v),
               ~deletion[d].erased
        PROVE  FALSE
    <3>1. CASE StartRemoval(e)
      BY <1>4, <2>1, <2>3, <3>1 DEF StartRemoval, Master!DeleteBlob, MP!DeleteCall
    <3>2. CASE Master!DeleteFails(e)
      BY <1>4, <2>1, <2>3, <3>2 DEF Master!DeleteFails, MP!DeleteCall
    <3>3. ASSUME NEW v \in Workers, AskedWorker(e, v)
          PROVE  FALSE
      BY <1>4, <2>1, <2>3, <3>3 DEF AskedWorker, Master!AskWorker, MP!DeleteCall
    <3> QED
      BY <2>3, <3>1, <3>2, <3>3
  <2>5. ASSUME NEW e \in Removals, EndRemoval(e), ~deletion[d].erased
        PROVE  deletion[d].pc # "idle"
    <3>1. PICK status : deletion' = [deletion EXCEPT ![e].pc = status, ![e].erased = TRUE]
      BY <2>5 DEF EndRemoval, Master!DeleteEntries
    <3>2. e = d
      BY <1>4, <2>1, <2>5, <3>1
    <3> QED
      BY <2>5, <3>2 DEF EndRemoval, Master!DeleteEntries
  <2> QED
    BY <1>4, <2>2, <2>3, <2>5, StoreFrames, RequestsStay DEF Moves
<1>2. ASSUME NEW r \in Boots, register'[r].pc # "idle"
      PROVE  r \in sent'
  <2>1. register \in [Boots -> MP!RegisterCall]
    BY DEF MP!TypeOK
  <2>2. CASE register[r].pc # "idle"
    BY <2>2, RequestsStay
  <2>3. ASSUME NEW q \in Boots, ServeRegister(q) \/ Master!RegisterFails(q),
               register[r].pc = "idle"
        PROVE  r \in sent
    BY <1>2, <2>1, <2>3 DEF ServeRegister, Master!RegisterFails, Master!RegisterStep,
       Master!RegisterWorker, Master!DropCopies, Master!AddWorkerState
  <2> QED
    BY <1>2, <2>2, <2>3, StoreFrames, RequestsStay DEF Moves
<1>3. ASSUME NEW w \in Workers, NEW r \in boot'[w]
      PROVE  register'[r].worker = w /\ r \in sent'
  <2>1. CASE r \in boot[w]
    BY <2>1, RequestsStay
  <2>2. ASSUME NEW v \in Workers, NEW q \in Boots, Crash(v, q) \/ Retry(v, q), r \notin boot[w]
        PROVE  register'[r].worker = w /\ r \in sent'
    BY <1>3, <2>2, RequestsStay DEF Crash, Retry, Send, Unsent
  <2>3. ASSUME NEW v \in Workers, Serve(v)
        PROVE  r \in boot[w]
    BY <1>3, <2>3 DEF Serve
  <2> QED
    BY <1>3, <2>1, <2>2, <2>3, StoreFrames DEF Moves, boots
<1> QED
  BY <1>1, <1>2, <1>3, <1>4

\* What a step does to a SaveBlob.
SaveChange(s) ==
  \/ save'[s] = save[s]
  \/ save[s].pc = "idle" /\ save'[s] = [save[s] EXCEPT !.pc = "receiving"]
  \/ /\ save[s].pc = "receiving"
     /\ \E n \in Nat : save'[s] = [save[s] EXCEPT !.received = n]
  \/ /\ save[s].pc = "receiving"
     /\ \E n \in Nat : save'[s] = [save[s] EXCEPT !.received = n, !.short = TRUE]
  \/ \E pc \in {"notifying"} \cup Final : save'[s] = [save[s] EXCEPT !.pc = pc]

LEMMA SaveMoved ==
  ASSUME Types, Next, NEW s \in Saves
  PROVE  SaveChange(s)
<1>1. save \in [Saves -> Worker!SaveCall]
  BY TypesGive DEF Worker!TypeOK
<1>2. ASSUME NEW u \in Uploads, NEW w \in Workers, OpenSave(u, w)
      PROVE  SaveChange(s)
  BY <1>1, <1>2 DEF OpenSave, Worker!SaveBlob, SaveChange
<1>3. ASSUME NEW u \in Uploads, NEW w \in Workers, ServeSave(u, w)
      PROVE  SaveChange(s)
  <2>1. <<u, w>> \in Saves
    BY DEF Saves
  <2>2. save[<<u, w>>].received + 1 \in Nat
    BY <1>1, <2>1, ChunksAssumption DEF Worker!SaveCall
  <2>3. CASE Worker!ReceiveChunk(<<u, w>>)
    BY <1>1, <2>1, <2>2, <2>3 DEF Worker!ReceiveChunk, SaveChange
  <2>4. CASE Worker!ReceiveChunkShort(<<u, w>>)
    BY <1>1, <2>1, <2>2, <2>4 DEF Worker!ReceiveChunkShort, SaveChange
  <2>5. CASE \/ Worker!ReceiveChunkFails(<<u, w>>)
             \/ Worker!AcceptStream(<<u, w>>)
             \/ Worker!RejectStream(<<u, w>>)
    <3>1. PICK pc \in {"notifying", "error"} : save' = [save EXCEPT ![<<u, w>>].pc = pc]
      BY <2>5 DEF Worker!ReceiveChunkFails, Worker!AcceptStream, Worker!RejectStream
    <3> QED
      BY <1>1, <2>1, <3>1 DEF SaveChange, Final
  <2> QED
    BY <1>3, <2>3, <2>4, <2>5 DEF ServeSave
<1>4. ASSUME NEW u \in Uploads, NEW w \in Workers, NotifyAnswered(u, w)
      PROVE  SaveChange(s)
  <2>1. PICK status \in Final : save' = [save EXCEPT ![<<u, w>>].pc = status]
    BY <1>4 DEF NotifyAnswered, Worker!MasterAnswers, Worker!Final, Final
  <2> QED
    BY <1>1, <2>1 DEF SaveChange
<1>5. ASSUME NEW w \in Workers, NEW r \in Boots, Crash(w, r)
      PROVE  SaveChange(s)
  BY <1>1, <1>5 DEF Crash, Worker!Lose, Final, SaveChange
<1>6. CASE UNCHANGED save
  BY <1>6 DEF SaveChange
<1> QED
  BY <1>2, <1>3, <1>4, <1>5, <1>6, StoreFrames DEF Moves

\* A write that fell short has fallen short for good.
LEMMA TornStays ==
  ASSUME Types, Next, NEW h, NEW w \in Workers, Torn(h, w)
  PROVE  Torn(h, w)'
<1>1. PICK u \in Uploads : alloc[u].hash = h /\ save[<<u, w>>].short
  BY DEF Torn
<1>2. <<u, w>> \in Saves /\ save[<<u, w>>] \in Worker!SaveCall
  BY TypesGive DEF Worker!TypeOK, Saves
<1>3. save'[<<u, w>>].short
  BY <1>1, <1>2, SaveMoved DEF SaveChange, Worker!SaveCall
<1>4. alloc'[u].hash = alloc[u].hash
  BY MasterSteps, MP!ArgumentsKept, ReplicasAssumption, FaultsAssumption DEF Types, masters
<1> QED
  BY <1>1, <1>3, <1>4 DEF Torn

\* Once disturbed, always disturbed.
LEMMA DisturbedStays ==
  ASSUME Types, Next, NEW h \in Hashes, NEW w \in Workers, Disturbed(h, w)
  PROVE  Disturbed(h, w)'
BY RequestsStay, TornStays DEF Types, Disturbed, Deleted, Died

\* Whoever erased the row of a copy has deleted the blob or died.
LEMMA ErasedIsDisturbed ==
  ASSUME Causes, NEW h \in Hashes, NEW w \in Workers, MP!Erased(h, w) \/ Master!Erased(h, w)
  PROVE  Deleted(h) \/ Died(w)
BY DEF Causes, MP!Erased, Master!Erased, MP!Final, Master!Final, Deleted, Died

\* What every later lemma on the system starts from.
LEMMA FrameInvariant == Spec => []Frame
<1>1. Init /\ Types => Frame
  <2> SUFFICES ASSUME Init, Types PROVE Arguments /\ Causes
    BY DEF Frame
  <2>1. Arguments
    BY DEF Init, Arguments, Saves
  <2>2. /\ \A d \in Removals, w \in Workers : erase[<<d, w>>].pc = "idle"
        /\ \A d \in Removals : ~deletion[d].erased
    BY DEF Init
  <2>3. \A r \in Boots : register[r].pc = "idle"
    BY DEF Init, Master!Init
  <2> QED
    BY <2>1, <2>2, <2>3 DEF Init, Causes
<1>2. Types' /\ Frame /\ [Next]_vars => Frame'
  <2>1. CASE UNCHANGED vars
    BY <2>1 DEF Frame, Arguments, Causes, vars, masters, disks, boots
  <2> QED
    BY <2>1, ArgumentsStep, CausesStep DEF Frame
<1> QED
  BY <1>1, <1>2, TypesInvariant, PTL DEF Spec

-----------------------------------------------------------------------------
(* A copy that is not disturbed *)

Same(h, w) ==
  /\ <<w, h>> \in files' <=> <<w, h>> \in files
  /\ data'[<<w, h>>] = data[<<w, h>>]

\* A handler other than those of the uploads of h to w leaves the file alone.
LEMMA FileFate ==
  ASSUME Frame, Next, NEW h \in Hashes, NEW w \in Workers, ~Disturbed(h, w)'
  PROVE  \/ Same(h, w)
         \/ \E u \in Uploads : alloc[u].hash = h /\ (OpenSave(u, w) \/ ServeSave(u, w))
<1> DEFINE f == <<w, h>>
<1>1. /\ f \in Names
      /\ data \in [Names -> Worker!Data]
      /\ Types /\ Worker!TypeOK
  BY TypesGive DEF Frame, Names, Worker!TypeOK
<1>2. CASE UNCHANGED <<files, data>>
  BY <1>2 DEF Same
<1>7. ASSUME NEW n \in Names, n # f, Worker!remove(n)
      PROVE  Same(h, w)
  <2>1. files' = files \ {n} /\ data' = [data EXCEPT ![n] = <<>>]
    BY <1>7 DEF Worker!remove
  <2> QED
    BY <1>1, <1>7, <2>1 DEF Same
<1>8. ASSUME NEW n \in Names, n # f, NEW chunk, Worker!append_chunk(n, chunk)
      PROVE  Same(h, w)
  <2>1. /\ files' = files \cup {n}
        /\ data' = [data EXCEPT ![n] = Append(data[n], chunk)]
    BY <1>1, <1>8 DEF Worker!append_chunk
  <2> QED
    BY <1>1, <1>8, <2>1 DEF Same
<1>3. ASSUME NEW u \in Uploads, NEW v \in Workers, OpenSave(u, v)
      PROVE  Same(h, w) \/ (alloc[u].hash = h /\ v = w)
  <2>1. save[<<u, v>>].hash = <<v, alloc[u].hash>>
    BY DEF Frame, Arguments
  <2> QED
    BY <1>1, <1>3, <2>1 DEF Same, OpenSave, Worker!SaveBlob, Worker!New
<1>4. ASSUME NEW u \in Uploads, NEW v \in Workers, ServeSave(u, v)
      PROVE  Same(h, w) \/ (alloc[u].hash = h /\ v = w)
  <2>1. save[<<u, v>>].hash = <<v, alloc[u].hash>>
    BY DEF Frame, Arguments
  <2>2. CASE alloc[u].hash = h /\ v = w
    BY <2>2
  <2>3. CASE save[<<u, v>>].hash # f
    <3>1. save[<<u, v>>].hash \in Names
      BY <1>1, <2>1 DEF Worker!TypeOK, Worker!SaveCall, Saves
    <3>2. CASE Worker!ReceiveChunk(<<u, v>>)
      <4>1. PICK chunk : Worker!append_chunk(save[<<u, v>>].hash, chunk)
        BY <3>2 DEF Worker!ReceiveChunk
      <4>2. Same(h, w)
        BY <1>8, <2>3, <3>1, <4>1
      <4> QED
        BY <4>2
    <3>5. CASE Worker!ReceiveChunkShort(<<u, v>>)
      <4>1. CASE \E chunk : Worker!append_chunk(save[<<u, v>>].hash, chunk)
        BY <1>8, <2>3, <3>1, <4>1
      <4>2. CASE files' = files \cup {save[<<u, v>>].hash} /\ UNCHANGED data
        BY <2>3, <4>2 DEF Same
      <4> QED
        BY <3>5, <4>1, <4>2 DEF Worker!ReceiveChunkShort
    <3>3. CASE Worker!ReceiveChunkFails(<<u, v>>) \/ Worker!AcceptStream(<<u, v>>)
      BY <3>3 DEF Worker!ReceiveChunkFails, Worker!AcceptStream, Same
    <3>4. CASE Worker!RejectStream(<<u, v>>)
      BY <1>7, <2>3, <3>1, <3>4 DEF Worker!RejectStream
    <3> QED
      BY <1>4, <3>2, <3>3, <3>4, <3>5 DEF ServeSave
  <2> QED
    BY <2>1, <2>2, <2>3
<1>5. ASSUME NEW d \in Removals, NEW v \in Workers, ServeErase(d, v)
      PROVE  Same(h, w)
  <2>1. erase[<<d, v>>].hash = <<v, deletion[d].hash>>
    BY DEF Frame, Arguments
  <2>2. CASE Worker!DeleteBlob(<<d, v>>)
    BY <2>2 DEF Worker!DeleteBlob, Same
  <2>3. CASE Worker!RemoveFile(<<d, v>>)
    <3>1. deletion[d].pc # "idle"
      BY <2>3 DEF Frame, Causes, Worker!RemoveFile
    <3>2. deletion[d].hash # h
      BY <1>1, <3>1, DisturbedStays DEF Disturbed, Deleted
    <3>3. erase[<<d, v>>].hash \in Names
      BY <1>1 DEF Worker!TypeOK, Worker!DeleteCall
    <3> QED
      BY <1>1, <1>7, <2>1, <2>3, <3>2, <3>3 DEF Worker!RemoveFile
  <2> QED
    BY <1>5, <2>2, <2>3 DEF ServeErase
<1>6. ASSUME NEW v \in Workers, NEW r \in Boots, Crash(v, r)
      PROVE  Same(h, w)
  <2>1. v # w
    BY <1>1, <1>6, RequestsStay DEF Crash, Unsent, Send, Disturbed, Died
  <2> QED
    BY <1>1, <1>6, <2>1 DEF Crash, Worker!Lose, Same
<1> QED
  BY <1>2, <1>3, <1>4, <1>5, <1>6, StoreFrames DEF Moves

\* Nor does the death of another worker reach a save.
LEMMA SaveFate ==
  ASSUME Frame, Next, NEW u \in Uploads, NEW w \in Workers,
         NEW h \in Hashes, alloc[u].hash = h, ~Disturbed(h, w)'
  PROVE  \/ save'[<<u, w>>] = save[<<u, w>>]
         \/ OpenSave(u, w) \/ ServeSave(u, w) \/ NotifyAnswered(u, w)
<1> DEFINE s == <<u, w>>
<1>1. /\ s \in Saves
      /\ save \in [Saves -> Worker!SaveCall]
      /\ Types /\ Worker!TypeOK
  BY TypesGive DEF Frame, Saves, Worker!TypeOK
<1>2. ASSUME NEW v \in Uploads, NEW x \in Workers,
             OpenSave(v, x) \/ ServeSave(v, x) \/ NotifyAnswered(v, x)
      PROVE  save'[s] = save[s] \/ (v = u /\ x = w)
  BY <1>1, <1>2 DEF OpenSave, Worker!SaveBlob, ServeSave, Worker!ReceiveChunk,
     Worker!ReceiveChunkShort, Worker!ReceiveChunkFails, Worker!AcceptStream,
     Worker!RejectStream, NotifyAnswered, Worker!MasterAnswers
<1>3. ASSUME NEW v \in Workers, NEW r \in Boots, Crash(v, r)
      PROVE  save'[s] = save[s]
  <2>1. v # w
    BY <1>1, <1>3, RequestsStay DEF Crash, Unsent, Send, Disturbed, Died
  <2>2. save[s].hash = <<w, alloc[u].hash>>
    BY DEF Frame, Arguments
  <2> QED
    BY <1>1, <1>3, <2>1, <2>2 DEF Crash, Worker!Lose
<1> QED
  BY <1>1, <1>2, <1>3, StoreFrames DEF Moves

\* How a save and its notification go together: the worker notifies once it has
\* accepted the blob, and answers with what it was answered.
SaveOrder ==
  \A s \in Saves :
    /\ save[s].pc = "idle" => save[s].received = 0
    /\ notify[s].pc # "idle" => save[s].pc \in {"notifying"} \cup Final
    /\ save[s].pc = "ok" => notify[s].pc = "ok"

\* A notification begins once its worker has sent it.
LEMMA NotifyBegins ==
  ASSUME Types, Next, NEW s \in Saves, notify[s].pc = "idle", notify'[s].pc # "idle"
  PROVE  save[s].pc = "notifying"
<1>0. notify \in [Saves -> MP!NotifyCall]
  BY DEF Types, MP!TypeOK
<1>1. ASSUME NEW t \in Saves, Master!NotifyFails(t)
      PROVE  FALSE
  BY <1>0, <1>1 DEF Master!NotifyFails, Master!ReturnNotify
<1>2. ASSUME NEW u \in Uploads, NEW w \in Workers, ServeNotify(u, w)
      PROVE  save[s].pc = "notifying"
  <2>1. <<u, w>> = s
    BY <1>0, <1>2 DEF ServeNotify, Master!NotifyStep, Master!NotifyBlobSaved,
       Master!UpdateBlobEntry, Master!ReadWorkerState, Master!ChargeSpace,
       Master!ReturnNotify
  <2> QED
    BY <1>2, <2>1 DEF ServeNotify
<1> QED
  BY <1>1, <1>2, StoreFrames DEF Moves

\* A worker and its notification keep their order.
LEMMA SaveOrderStep ==
  ASSUME Types, SaveOrder, Next
  PROVE  SaveOrder'
<1>1. /\ save \in [Saves -> Worker!SaveCall]
      /\ notify \in [Saves -> MP!NotifyCall]
  BY TypesGive DEF Worker!TypeOK, MP!TypeOK
<1>2. \A s \in Saves : /\ notify[s].pc # "idle" => notify'[s].pc # "idle"
                       /\ notify[s].pc = "ok" => notify'[s].pc = "ok"
  BY MasterSteps, MP!CallsGoOn, ReplicasAssumption, FaultsAssumption
  DEF Types, masters, MP!Final
<1>3. ASSUME NEW u \in Uploads, NEW w \in Workers, OpenSave(u, w)
      PROVE  SaveOrder'
  <2>1. <<u, w>> \in Saves /\ UNCHANGED notify
    BY <1>3 DEF Saves, OpenSave, masters
  <2> QED
    BY <1>1, <1>3, <2>1 DEF SaveOrder, OpenSave, Worker!SaveBlob, Final
<1>4. ASSUME NEW u \in Uploads, NEW w \in Workers, ServeSave(u, w)
      PROVE  SaveOrder'
  <2>1. <<u, w>> \in Saves /\ UNCHANGED notify
    BY <1>4 DEF Saves, ServeSave, masters
  <2>2. save[<<u, w>>].pc = "receiving"
    BY <1>4 DEF ServeSave, Worker!ReceiveChunk, Worker!ReceiveChunkShort,
       Worker!ReceiveChunkFails, Worker!AcceptStream, Worker!RejectStream
  <2>3. CASE Worker!ReceiveChunk(<<u, w>>) \/ Worker!ReceiveChunkShort(<<u, w>>)
    <3>1. /\ \A s \in Saves : save'[s].pc = save[s].pc
          /\ \A s \in Saves : s # <<u, w>> => save'[s] = save[s]
      BY <1>1, <2>1, <2>3 DEF Worker!ReceiveChunk, Worker!ReceiveChunkShort, Worker!SaveCall
    <3> QED
      BY <2>1, <2>2, <3>1 DEF SaveOrder
  <2>4. CASE \/ Worker!ReceiveChunkFails(<<u, w>>)
             \/ Worker!AcceptStream(<<u, w>>)
             \/ Worker!RejectStream(<<u, w>>)
    <3>1. PICK pc \in {"notifying", "error"} : save' = [save EXCEPT ![<<u, w>>].pc = pc]
      BY <2>4 DEF Worker!ReceiveChunkFails, Worker!AcceptStream, Worker!RejectStream
    <3> QED
      BY <1>1, <2>1, <2>2, <3>1 DEF SaveOrder, Final
  <2> QED
    BY <1>4, <2>3, <2>4 DEF ServeSave
<1>5. ASSUME NEW u \in Uploads, NEW w \in Workers, NotifyAnswered(u, w)
      PROVE  SaveOrder'
  <2>1. <<u, w>> \in Saves /\ UNCHANGED notify
    BY <1>5 DEF Saves, NotifyAnswered, masters
  <2>2. PICK status \in Final : save' = [save EXCEPT ![<<u, w>>].pc = status]
    BY <1>5 DEF NotifyAnswered, Worker!MasterAnswers, Worker!Final, Final
  <2>3. status = "ok" => notify[<<u, w>>].pc = "ok"
    BY <1>1, <1>5, <2>1, <2>2 DEF NotifyAnswered
  <2> QED
    BY <1>1, <2>1, <2>2, <2>3 DEF SaveOrder, Final
<1>6. ASSUME NEW w \in Workers, NEW r \in Boots, Crash(w, r)
      PROVE  SaveOrder'
  <2>1. UNCHANGED notify
    BY <1>6 DEF Crash, masters
  <2>2. \A s \in Saves : \/ save'[s] = save[s]
                          \/ /\ save[s].pc \notin {"idle"} \cup Final
                             /\ save'[s] = [save[s] EXCEPT !.pc = "error"]
    BY <1>1, <1>6 DEF Crash, Worker!Lose, Worker!Active, Worker!Final, Final
  <2>3. \A s \in Saves : \/ save'[s] = save[s]
                          \/ save'[s].pc = "error"
    BY <1>1, <2>2 DEF Worker!SaveCall
  <2> QED
    BY <2>1, <2>3 DEF SaveOrder, Final
<1>7. CASE UNCHANGED save
  BY <1>2, <1>7, NotifyBegins DEF SaveOrder
<1> QED
  BY <1>3, <1>4, <1>5, <1>6, <1>7, StoreFrames DEF Moves

-----------------------------------------------------------------------------
(* UndisturbedCopyIsWhole *)

\* The file of an undisturbed upload holds what came so far, and all of the blob
\* from the moment the worker has accepted it.
Accepted(s) == save[s].pc = "notifying" \/ notify[s].pc # "idle"

WrittenSoFar ==
  \A u \in Uploads, w \in Workers :
    LET s == <<u, w>>
        h == alloc[u].hash
    IN  \/ Disturbed(h, w)
        \/ /\ save[s].pc = "receiving" =>
                /\ <<w, h>> \in files
                /\ data[<<w, h>>] = Worker!Prefix(<<w, h>>, save[s].received)
           /\ Accepted(s) => Whole(h, w)

\* Prefixes as the workers' proofs know them.
LEMMA Prefixes ==
  ASSUME NEW f \in Names, NEW n \in 0..Chunks
  PROVE  /\ Worker!Prefix(f, 0) = <<>>
         /\ Worker!Prefix(f, Chunks) = Worker!Content(f)
         /\ Append(Worker!Prefix(f, n), <<f, n + 1>>) = Worker!Prefix(f, n + 1)
         /\ Len(Worker!Prefix(f, n)) = n
         /\ \A i \in 1..n : Worker!Prefix(f, n)[i] = <<f, i>>
<1>1. /\ WP!Prefix(f, n) \in WP!Data
      /\ Len(WP!Prefix(f, n)) = n
      /\ WP!Prefix(f, 0) = <<>>
      /\ Append(WP!Prefix(f, n), <<f, n + 1>>) = WP!Prefix(f, n + 1)
  BY WP!PrefixFacts, ChunksAssumption
<1>2. \A m : Worker!Prefix(f, m) = WP!Prefix(f, m)
  BY DEF Worker!Prefix, WP!Prefix
<1>3. \A i \in 1..n : Worker!Prefix(f, n)[i] = <<f, i>>
  BY DEF Worker!Prefix
<1> QED
  BY <1>1, <1>2, <1>3 DEF Worker!Content

LEMMA WrittenStep ==
  ASSUME Frame, Frame', SaveOrder, SaveOrder', WrittenSoFar, OneUploadPerFile', Next
  PROVE  WrittenSoFar'
<1>1. \A u \in Uploads : alloc[u].hash \in Hashes /\ alloc'[u].hash = alloc[u].hash
  BY MasterSteps, MP!ArgumentsKept, ReplicasAssumption, FaultsAssumption
  DEF Frame, Types, masters, MP!TypeOK, MP!AllocCall
<1> SUFFICES ASSUME NEW u \in Uploads, NEW w \in Workers,
                    NEW h \in Hashes, alloc[u].hash = h, alloc'[u].hash = h,
                    ~Disturbed(h, w)'
             PROVE  /\ save'[<<u, w>>].pc = "receiving" =>
                         /\ <<w, h>> \in files'
                         /\ data'[<<w, h>>] =
                              Worker!Prefix(<<w, h>>, save'[<<u, w>>].received)
                    /\ Accepted(<<u, w>>)' => Whole(h, w)'
  <2> SUFFICES ASSUME NEW u \in Uploads, NEW w \in Workers
               PROVE  \/ Disturbed(alloc[u].hash, w)'
                      \/ /\ save'[<<u, w>>].pc = "receiving" =>
                              /\ <<w, alloc'[u].hash>> \in files'
                              /\ data'[<<w, alloc'[u].hash>>] =
                                   Worker!Prefix(<<w, alloc'[u].hash>>, save'[<<u, w>>].received)
                         /\ Accepted(<<u, w>>)' => Whole(alloc[u].hash, w)'
    BY DEF WrittenSoFar, Worker!Prefix
  <2>1. PICK h \in Hashes : alloc[u].hash = h /\ alloc'[u].hash = h
    BY <1>1
  <2>2. /\ Disturbed(h, w)' <=> Disturbed(alloc[u].hash, w)'
        /\ Whole(h, w)' <=> Whole(alloc[u].hash, w)'
    BY <2>1 DEF Disturbed, Deleted, Died, Torn, Whole, Worker!Content, Worker!Prefix
  <2> QED
    BY <2>1, <2>2
<1> DEFINE s == <<u, w>>
           f == <<w, h>>
<1>2. /\ s \in Saves /\ f \in Names
      /\ save \in [Saves -> Worker!SaveCall]
      /\ data \in [Names -> Worker!Data]
      /\ save[s].hash = f /\ save[s].blob = f
      /\ Types /\ Types'
  <2>1. save[s].hash = f /\ save[s].blob = f
    BY DEF Frame, Arguments
  <2>2. Types /\ Types' /\ Worker!TypeOK
    BY TypesGive DEF Frame
  <2> QED
    BY <2>1, <2>2 DEF Saves, Names, Worker!TypeOK
<1>3. /\ save[s].pc = "receiving" =>
           f \in files /\ data[f] = Worker!Prefix(f, save[s].received)
      /\ Accepted(s) => f \in files /\ data[f] = Worker!Content(f)
  <2>1. ~Disturbed(h, w)
    BY <1>2, DisturbedStays
  <2> QED
    BY <2>1 DEF WrittenSoFar, Whole
<1> DEFINE Goal == /\ save'[s].pc = "receiving" =>
                        f \in files' /\ data'[f] = Worker!Prefix(f, save'[s].received)
                   /\ save'[s].pc = "notifying" \/ notify'[s].pc # "idle" =>
                        f \in files' /\ data'[f] = Worker!Content(f)
<1>4. SUFFICES Goal
  BY DEF Accepted, Whole, Worker!Content, Worker!Prefix
<1> HIDE DEF Goal
<1>5. CASE OpenSave(u, w)
  <2>1. /\ save[s].pc = "idle"
        /\ save' = [save EXCEPT ![s].pc = "receiving"]
        /\ files' = files \cup {f}
        /\ data' = [data EXCEPT ![f] = <<>>]
    BY <1>2, <1>5 DEF OpenSave, Worker!SaveBlob, Worker!New
  <2>2. save'[s].pc = "receiving" /\ save'[s].received = 0
    BY <1>2, <2>1 DEF SaveOrder, Worker!SaveCall
  <2>3. notify'[s].pc = "idle"
    BY <1>2, <2>2 DEF SaveOrder, Final
  <2>4. data'[f] = Worker!Prefix(f, 0)
    BY <1>2, <2>1, Prefixes, ChunksAssumption
  <2> QED
    BY <2>1, <2>2, <2>3, <2>4 DEF Goal
<1>6. CASE ServeSave(u, w)
  <2>1. save[s].pc = "receiving" /\ notify'[s].pc = "idle"
    <3>1. save[s].pc = "receiving" /\ notify' = notify
      BY <1>6 DEF ServeSave, masters, Worker!ReceiveChunk, Worker!ReceiveChunkShort,
         Worker!ReceiveChunkFails, Worker!AcceptStream, Worker!RejectStream
    <3> QED
      BY <1>2, <3>1 DEF SaveOrder, Final
  <2>2. f \in files /\ data[f] = Worker!Prefix(f, save[s].received)
    BY <1>3, <2>1
  <2>3. save[s].received \in 0..Chunks
    BY <1>2 DEF Worker!SaveCall
  <2>4. CASE Worker!ReceiveChunk(s)
    <3>1. /\ save' = [save EXCEPT ![s].received = save[s].received + 1]
          /\ files' = files \cup {f}
          /\ data' = [data EXCEPT ![f] = Append(data[f], <<f, save[s].received + 1>>)]
      BY <1>2, <2>4 DEF Worker!ReceiveChunk, Worker!append_chunk
    <3>2. save'[s].pc = "receiving" /\ save'[s].received = save[s].received + 1
      BY <1>2, <2>1, <3>1 DEF Worker!SaveCall
    <3>3. data'[f] = Worker!Prefix(f, save[s].received + 1)
      BY <1>2, <2>2, <2>3, <3>1, Prefixes
    <3> QED
      BY <2>1, <3>1, <3>2, <3>3 DEF Goal
  <2>5. CASE Worker!AcceptStream(s)
    <3>1. save[s].received = Chunks /\ UNCHANGED <<files, data>> /\ save'[s].pc = "notifying"
      BY <1>2, <2>5 DEF Worker!AcceptStream, Worker!HashMatches
    <3>2. data'[f] = Worker!Content(f)
      BY <1>2, <2>2, <2>3, <3>1, Prefixes
    <3> QED
      BY <2>2, <3>1, <3>2 DEF Goal
  <2>7. CASE Worker!ReceiveChunkShort(s)
    <3>1. save'[s].short
      BY <1>2, <2>7 DEF Worker!ReceiveChunkShort, Worker!SaveCall
    <3>2. Torn(h, w)'
      BY <3>1 DEF Torn
    <3> QED
      BY <3>2 DEF Disturbed
  <2>6. CASE Worker!ReceiveChunkFails(s) \/ Worker!RejectStream(s)
    <3>1. save' = [save EXCEPT ![s].pc = "error"]
      BY <2>6 DEF Worker!ReceiveChunkFails, Worker!RejectStream
    <3>2. save'[s].pc = "error"
      BY <1>2, <3>1 DEF Worker!SaveCall
    <3> QED
      BY <2>1, <3>2 DEF Goal
  <2> QED
    BY <1>6, <2>4, <2>5, <2>6, <2>7 DEF ServeSave
<1>7. CASE NotifyAnswered(u, w)
  <2>1. save[s].pc = "notifying" /\ UNCHANGED <<files, data>> /\ save'[s].pc \in Final
    BY <1>2, <1>7 DEF NotifyAnswered, Worker!MasterAnswers, Worker!Final, Final
  <2> QED
    BY <1>3, <2>1 DEF Goal, Accepted, Final
<1>8. CASE save'[s] = save[s] /\ ~OpenSave(u, w) /\ ~ServeSave(u, w)
  <2>1. CASE save[s].pc = "idle"
    BY <1>2, <1>8, <2>1 DEF Goal, SaveOrder, Final
  <2>2. CASE save[s].pc # "idle"
    <3>1. Same(h, w)
      <4>1. ASSUME NEW v \in Uploads, v # u, alloc[v].hash = h,
                   OpenSave(v, w) \/ ServeSave(v, w)
            PROVE  FALSE
        <5>1. save'[<<v, w>>].pc # "idle"
          <6>1. <<v, w>> \in Saves
            BY DEF Saves
          <6>2. CASE OpenSave(v, w)
            BY <1>2, <6>1, <6>2 DEF OpenSave, Worker!SaveBlob, Worker!SaveCall
          <6>3. CASE Worker!ReceiveChunk(<<v, w>>) \/ Worker!ReceiveChunkShort(<<v, w>>)
            BY <1>2, <6>1, <6>3 DEF Worker!ReceiveChunk, Worker!ReceiveChunkShort,
               Worker!SaveCall
          <6>4. CASE \/ Worker!ReceiveChunkFails(<<v, w>>) \/ Worker!AcceptStream(<<v, w>>)
                     \/ Worker!RejectStream(<<v, w>>)
            BY <1>2, <6>1, <6>4 DEF Worker!ReceiveChunkFails, Worker!AcceptStream,
               Worker!RejectStream, Worker!SaveCall
          <6> QED
            BY <4>1, <6>2, <6>3, <6>4 DEF ServeSave
        <5>2. alloc'[v].hash = alloc'[u].hash
          BY <1>2, <1>1, <4>1, MasterSteps, MP!ArgumentsKept, ReplicasAssumption,
             FaultsAssumption DEF Types, masters
        <5>3. Master!Erased(h, w)'
          BY <1>1, <1>2, <1>8, <2>2, <4>1, <5>1, <5>2 DEF OneUploadPerFile, Master!Erased
        <5>4. Disturbed(h, w)'
          BY <1>2, <5>3 DEF Frame, Causes, Master!Erased, Master!Final, Disturbed, Deleted, Died
        <5> QED
          BY <1>3, <5>4
      <4> QED
        BY <1>2, <1>3, <1>8, <4>1, FileFate
    <3>2. Accepted(s)' => Accepted(s)
      BY <1>2, <1>8, NotifyBegins DEF Accepted
    <3> QED
      BY <1>3, <1>8, <3>1, <3>2 DEF Goal, Same, Accepted
  <2> QED
    BY <2>1, <2>2
<1> QED
  BY <1>3, <1>5, <1>6, <1>7, <1>8, SaveFate

\* A copy is SAVED once a worker has notified.
SavedByNotify ==
  \A h \in Hashes, w \in Workers : Saved(h, w) =>
    \E u \in Uploads : alloc[u].hash = h /\ notify[<<u, w>>].pc # "idle"

LEMMA SavedByNotifyStep ==
  ASSUME Frame, SavedByNotify, Next
  PROVE  SavedByNotify'
<1> SUFFICES ASSUME NEW h \in Hashes, NEW w \in Workers, Saved(h, w)'
             PROVE  (\E u \in Uploads : alloc[u].hash = h /\ notify[<<u, w>>].pc # "idle")'
  BY DEF SavedByNotify
<1>1. Types /\ \A u \in Uploads, v \in Workers : <<u, v>> \in Saves
  BY DEF Frame, Saves
<1>2. /\ \A u \in Uploads : alloc'[u].hash = alloc[u].hash
      /\ \A s \in Saves : notify[s].pc # "idle" => notify'[s].pc # "idle"
  BY <1>1, MasterSteps, MP!ArgumentsKept, MP!CallsGoOn, ReplicasAssumption, FaultsAssumption
  DEF Types, masters
<1>3. CASE Saved(h, w)
  <2>1. PICK u \in Uploads : alloc[u].hash = h /\ notify[<<u, w>>].pc # "idle"
    BY <1>3 DEF SavedByNotify
  <2>2. alloc'[u].hash = h /\ notify'[<<u, w>>].pc # "idle"
    BY <1>1, <1>2, <2>1
  <2> QED
    BY <2>2
<1>4. CASE ~Saved(h, w)
  <2>1. MP!Next
    BY <1>1, <1>4, MasterSteps DEF masters, Saved, Master!SAVED
  <2>2. PICK n \in Saves : notify[n].hash = h /\ notify[n].worker = w /\ notify[n].pc # "idle"
    BY <1>1, <1>4, <2>1, MP!SavedBy, ReplicasAssumption, FaultsAssumption
    DEF Types, Saved, MP!SAVED, Master!SAVED
  <2>3. PICK u \in Uploads, v \in Workers : n = <<u, v>>
    BY DEF Saves
  <2>4. alloc[u].hash = h /\ v = w
    BY <2>2, <2>3 DEF Frame, Arguments
  <2>5. notify'[<<u, w>>].pc # "idle"
    BY <1>2, <2>2, <2>3, <2>4
  <2> QED
    BY <1>2, <2>4, <2>5
<1> QED
  BY <1>3, <1>4

CopyInv == Frame /\ SaveOrder /\ WrittenSoFar /\ SavedByNotify

LEMMA CopyInvariant == Spec => []CopyInv
<1>1. Init /\ Frame => CopyInv
  <2> SUFFICES ASSUME Init, Frame PROVE SaveOrder /\ WrittenSoFar /\ SavedByNotify
    BY DEF CopyInv
  <2>1. /\ \A s \in Saves : save[s].pc = "idle" /\ save[s].received = 0 /\ notify[s].pc = "idle"
        /\ \A u \in Uploads, w \in Workers : <<u, w>> \in Saves
    BY DEF Init, Saves
  <2>2. \A h \in Hashes, w \in Workers : ~Saved(h, w)
    BY DEF Init, Master!Init, Saved, Master!NoCopy, Master!SAVED
  <2> QED
    BY <2>1, <2>2 DEF SaveOrder, WrittenSoFar, Accepted, SavedByNotify
<1>2. CopyInv /\ Frame' /\ OneUploadPerFile' /\ [Next]_vars => CopyInv'
  <2> SUFFICES ASSUME CopyInv, Frame', OneUploadPerFile', [Next]_vars PROVE CopyInv'
    OBVIOUS
  <2>1. CASE UNCHANGED vars
    <3>1. SaveOrder' /\ SavedByNotify'
      BY <2>1 DEF CopyInv, SaveOrder, SavedByNotify, Saved, vars, masters, disks
    <3>2. ASSUME NEW u \in Uploads, NEW w \in Workers
          PROVE  /\ Disturbed(alloc[u].hash, w) <=> Disturbed(alloc[u].hash, w)'
                 /\ Whole(alloc[u].hash, w) <=> Whole(alloc[u].hash, w)'
                 /\ Accepted(<<u, w>>) <=> Accepted(<<u, w>>)'
      BY <2>1 DEF Disturbed, Deleted, Died, Torn, Whole, Accepted, Worker!Content,
         Worker!Prefix, vars, masters, disks, boots
    <3>3. UNCHANGED <<alloc, save, files, data>>
      BY <2>1 DEF vars, masters, disks
    <3>4. WrittenSoFar'
      <4> SUFFICES ASSUME NEW u \in Uploads, NEW w \in Workers
                   PROVE  \/ Disturbed(alloc[u].hash, w)'
                          \/ /\ save'[<<u, w>>].pc = "receiving" =>
                                  /\ <<w, alloc'[u].hash>> \in files'
                                  /\ data'[<<w, alloc'[u].hash>>] =
                                       Worker!Prefix(<<w, alloc'[u].hash>>,
                                                     save'[<<u, w>>].received)
                             /\ Accepted(<<u, w>>)' => Whole(alloc[u].hash, w)'
        BY DEF WrittenSoFar, Worker!Prefix
      <4> QED
        BY <3>2, <3>3 DEF CopyInv, WrittenSoFar
    <3> QED
      BY <3>1, <3>4 DEF CopyInv
  <2>2. CASE Next
    <3>1. SaveOrder'
      BY <2>2, SaveOrderStep DEF CopyInv, Frame
    <3> QED
      BY <2>2, <3>1, WrittenStep, SavedByNotifyStep DEF CopyInv
  <2> QED
    BY <2>1, <2>2
<1> QED
  BY <1>1, <1>2, FrameInvariant, OneUpload, PTL DEF Spec

\* What the masters announce is whole on its worker, until a deletion begins or the
\* worker dies, and unless a write of it fell short, however uploads of the blob
\* overlap, break and are given up: the worker notifies after it has checked what it
\* received, all of which has gone to the file, and until the row is erased nobody
\* else writes that file.
THEOREM CopiesAreWhole == Spec => []UndisturbedCopyIsWhole
<1>1. CopyInv => UndisturbedCopyIsWhole
  <2> SUFFICES ASSUME CopyInv, NEW h \in Hashes, NEW w \in Workers, Saved(h, w)
               PROVE  Whole(h, w) \/ Disturbed(h, w)
    BY DEF UndisturbedCopyIsWhole, Disturbed
  <2>1. PICK u \in Uploads : alloc[u].hash = h /\ notify[<<u, w>>].pc # "idle"
    BY DEF CopyInv, SavedByNotify
  <2> QED
    BY <2>1 DEF CopyInv, WrittenSoFar, Accepted
<1> QED
  BY <1>1, CopyInvariant, PTL

-----------------------------------------------------------------------------
(* AcknowledgedUploadIsStored *)

\* A frontend that goes on has an OK from every worker it is done with.
AnsweredSoFar(u) ==
  /\ \A v, w \in upload[u].at : v = w
  /\ upload[u].pc \in {"sending", "ok"} =>
       /\ alloc[u].pc = "ok"
       /\ \A w \in alloc[u].placed \ (upload[u].todo \cup upload[u].at) :
            save[<<u, w>>].pc = "ok"
  /\ upload[u].pc = "ok" => upload[u].todo = {} /\ upload[u].at = {}

AnsweredOK == \A u \in Uploads : AnsweredSoFar(u)

\* A SaveBlob that was answered OK stays so.
LEMMA SavedForGood ==
  ASSUME Types, Next, NEW s \in Saves, save[s].pc = "ok"
  PROVE  save'[s].pc = "ok"
<1>0. save \in [Saves -> Worker!SaveCall]
  BY TypesGive DEF Worker!TypeOK
<1>1. ASSUME NEW u \in Uploads, NEW w \in Workers,
             OpenSave(u, w) \/ ServeSave(u, w) \/ NotifyAnswered(u, w)
      PROVE  save'[s] = save[s]
  <2>1. save[<<u, w>>].pc # "ok"
    BY <1>1 DEF OpenSave, Worker!SaveBlob, ServeSave, Worker!ReceiveChunk,
       Worker!ReceiveChunkShort, Worker!ReceiveChunkFails, Worker!AcceptStream,
       Worker!RejectStream, NotifyAnswered, Worker!MasterAnswers
  <2> QED
    BY <1>0, <1>1, <2>1 DEF OpenSave, Worker!SaveBlob, ServeSave, Worker!ReceiveChunk,
       Worker!ReceiveChunkShort, Worker!ReceiveChunkFails, Worker!AcceptStream,
       Worker!RejectStream, NotifyAnswered, Worker!MasterAnswers
<1>2. ASSUME NEW w \in Workers, NEW r \in Boots, Crash(w, r)
      PROVE  save'[s] = save[s]
  BY <1>0, <1>2 DEF Crash, Worker!Lose, Worker!Active, Worker!Final
<1> QED
  BY <1>1, <1>2, StoreFrames DEF Moves

LEMMA AnsweredStep ==
  ASSUME Types, SentWherePlaced, AnsweredOK, Next
  PROVE  AnsweredOK'
<1>1. upload \in [Uploads -> UploadCall] /\ MP!TypeOK
  BY DEF Types
<1>2. ASSUME NEW u \in Uploads, alloc[u].pc = "ok"
      PROVE  alloc'[u] = alloc[u]
  BY <1>1, <1>2, AnsweredAlloc, StepAtMasters DEF Master!vars
<1>3. ASSUME NEW u \in Uploads, NEW w \in Workers, save[<<u, w>>].pc = "ok"
      PROVE  save'[<<u, w>>].pc = "ok"
  BY <1>3, SavedForGood DEF Saves
<1>4. \A u \in Uploads : alloc[u].placed \subseteq Workers
  BY <1>1 DEF MP!TypeOK, MP!AllocCall
<1>5. ASSUME NEW u \in Uploads, upload'[u] = upload[u]
      PROVE  AnsweredSoFar(u)'
  BY <1>2, <1>3, <1>4, <1>5 DEF AnsweredOK, AnsweredSoFar
<1>6. ASSUME NEW u \in Uploads, ReceiveBlob(u) \/ TakeWorkers(u)
      PROVE  AnsweredOK'
  <2>1. CASE ReceiveBlob(u)
    <3>1. \A v \in Uploads : \/ upload'[v] = upload[v]
                             \/ /\ upload'[v].pc \notin {"sending", "ok"}
                                /\ upload'[v].at = upload[v].at
      BY <1>1, <2>1 DEF ReceiveBlob, UploadCall
    <3> QED
      BY <1>5, <3>1 DEF AnsweredOK, AnsweredSoFar
  <2>2. CASE TakeWorkers(u)
    <3>1. \A v \in Uploads :
            \/ upload'[v] = upload[v]
            \/ upload'[v].pc = "error" /\ upload'[v].at = upload[v].at
            \/ /\ upload'[v].pc = "sending"
               /\ upload'[v].at = upload[v].at
               /\ alloc[v].pc = "ok"
               /\ upload'[v].todo = alloc[v].placed
      BY <1>1, <2>2 DEF TakeWorkers, UploadCall
    <3>2. alloc' = alloc
      BY <2>2 DEF TakeWorkers, masters
    <3> QED
      BY <1>5, <3>1, <3>2 DEF AnsweredOK, AnsweredSoFar
  <2> QED
    BY <1>6, <2>1, <2>2
<1>7. ASSUME NEW u \in Uploads, NEW w \in Workers,
             OpenSave(u, w) \/ OpenSaveFails(u, w) \/ SaveAnswered(u, w) \/ StreamBreaks(u, w)
      PROVE  AnsweredOK'
  <2>1. upload[u].pc = "sending" /\ UNCHANGED alloc
    BY <1>7 DEF OpenSave, OpenSaveFails, SaveAnswered, StreamBreaks, Streaming, masters
  <2>2. \A v \in Uploads : v # u => upload'[v] = upload[v]
    BY <1>1, <1>7 DEF OpenSave, OpenSaveFails, SaveAnswered, StreamBreaks
  <2>3. CASE OpenSave(u, w)
    <3>1. /\ upload[u].at = {}
          /\ upload'[u].pc = "sending"
          /\ upload'[u].at = {w}
          /\ upload'[u].todo = upload[u].todo \ {w}
      BY <1>1, <2>1, <2>3 DEF OpenSave, UploadCall
    <3>2. AnsweredSoFar(u)'
      BY <1>3, <1>4, <2>1, <3>1 DEF AnsweredOK, AnsweredSoFar
    <3> QED
      BY <1>5, <2>2, <3>2 DEF AnsweredOK
  <2>4. CASE OpenSaveFails(u, w) \/ StreamBreaks(u, w)
    <3>1. upload'[u].pc = "error" /\ upload'[u].at \subseteq upload[u].at
      BY <1>1, <2>4 DEF OpenSaveFails, StreamBreaks, UploadCall
    <3>2. AnsweredSoFar(u)'
      BY <3>1 DEF AnsweredOK, AnsweredSoFar
    <3> QED
      BY <1>5, <2>2, <3>2 DEF AnsweredOK
  <2>5. CASE SaveAnswered(u, w)
    <3>1. /\ w \in upload[u].at
          /\ upload'[u].at = {}
          /\ \/ upload'[u].pc = "error"
             \/ /\ save[<<u, w>>].pc = "ok"
                /\ upload'[u].todo = upload[u].todo
                /\ upload'[u].pc = "ok" => upload[u].todo = {}
      BY <1>1, <2>1, <2>5 DEF SaveAnswered, Streaming, UploadCall
    <3>2. upload[u].at = {w}
      BY <3>1 DEF AnsweredOK, AnsweredSoFar
    <3>3. AnsweredSoFar(u)'
      BY <1>3, <1>4, <2>1, <3>1, <3>2 DEF AnsweredOK, AnsweredSoFar
    <3> QED
      BY <1>5, <2>2, <3>3 DEF AnsweredOK
  <2> QED
    BY <1>7, <2>3, <2>4, <2>5
<1> QED
  BY <1>5, <1>6, <1>7, StoreFrames DEF Moves, AnsweredOK

LEMMA AnsweredInvariant == Spec => []AnsweredOK
<1>1. Init => AnsweredOK
  BY DEF Init, AnsweredOK, AnsweredSoFar
<1>2. Types /\ SendingInv /\ AnsweredOK /\ [Next]_vars => AnsweredOK'
  <2>1. UNCHANGED vars /\ AnsweredOK => AnsweredOK'
    BY DEF AnsweredOK, AnsweredSoFar, vars, masters, disks, frontends
  <2> QED
    BY <2>1, AnsweredStep DEF SendingInv
<1> QED
  BY <1>1, <1>2, TypesInvariant, SendingInvariant, PTL DEF Spec

\* What is reported to a worker or to a frontend stays SAVED in the system, too,
\* and allocations are complete.
LEMMA MastersReport == Spec => [](MP!ReportedCopyStaysSaved /\ MP!AllocationComplete)
<1>1. MP!Spec => []MP!ReportedCopyStaysSaved
  BY MP!ReportedCopies, ReplicasAssumption, FaultsAssumption
<1>2. MP!Spec => []MP!AllocationComplete
  BY MP!CompleteAllocation, ReplicasAssumption, FaultsAssumption
<1> QED
  BY <1>1, <1>2, MastersImplemented, SameMasters, PTL

\* An acknowledged upload is stored on as many workers as were asked for, but for
\* what deletions, deaths and short writes took, and the last leave it announced: the
\* frontend waited for every worker, each worker for a master, and the master had
\* written SAVED.
THEOREM AcknowledgedStored == Spec => []AcknowledgedUploadIsStored
<1>1. CopyInv /\ AnsweredOK /\ UndisturbedCopyIsWhole /\ MP!ReportedCopyStaysSaved
        /\ MP!AllocationComplete => AcknowledgedUploadIsStored
  <2> SUFFICES ASSUME CopyInv, AnsweredOK, UndisturbedCopyIsWhole,
                      MP!ReportedCopyStaysSaved, MP!AllocationComplete,
                      NEW u \in Uploads, upload[u].pc = "ok"
               PROVE  /\ Cardinality(alloc[u].placed) = Replicas
                      /\ \A w \in alloc[u].placed :
                           \/ /\ Saved(alloc[u].hash, w)
                              /\ Whole(alloc[u].hash, w) \/ Torn(alloc[u].hash, w)
                           \/ Deleted(alloc[u].hash) \/ Died(w)
    BY DEF AcknowledgedUploadIsStored
  <2>1. alloc[u].pc = "ok" /\ \A w \in alloc[u].placed : save[<<u, w>>].pc = "ok"
    BY DEF AnsweredOK, AnsweredSoFar
  <2>2. Cardinality(alloc[u].placed) = Replicas
    BY <2>1 DEF MP!AllocationComplete, MP!Cardinality, Cardinality
  <2>3. ASSUME NEW w \in alloc[u].placed
        PROVE  \/ /\ Saved(alloc[u].hash, w)
                  /\ Whole(alloc[u].hash, w) \/ Torn(alloc[u].hash, w)
               \/ Deleted(alloc[u].hash) \/ Died(w)
    <3>1. w \in Workers /\ alloc[u].hash \in Hashes /\ <<u, w>> \in Saves
      BY DEF CopyInv, Frame, Types, MP!TypeOK, MP!AllocCall, Saves
    <3>2. /\ notify[<<u, w>>].pc = "ok"
          /\ notify[<<u, w>>].hash = alloc[u].hash
          /\ notify[<<u, w>>].worker = w
      BY <2>1, <3>1 DEF CopyInv, SaveOrder, Frame, Arguments
    <3>3. Saved(alloc[u].hash, w) \/ MP!Erased(alloc[u].hash, w)
      BY <3>1, <3>2 DEF MP!ReportedCopyStaysSaved, Saved, Master!SAVED, MP!SAVED
    <3>4. MP!Erased(alloc[u].hash, w) => Deleted(alloc[u].hash) \/ Died(w)
      BY <3>1, ErasedIsDisturbed DEF CopyInv, Frame
    <3> QED
      BY <3>1, <3>3, <3>4 DEF UndisturbedCopyIsWhole
  <2> QED
    BY <2>2, <2>3
<1> QED
  BY <1>1, CopyInvariant, AnsweredInvariant, CopiesAreWhole, MastersReport, PTL

\* What was acknowledged is found: the row of a copy that the acknowledgement rests on
\* is SAVED when the master looks, at whichever master and however late.
THEOREM AcknowledgedFound == Spec => AcknowledgedIsFound
<1>1. ASSUME Frame, AcknowledgedUploadIsStored, Next, NEW u \in Uploads, NEW g \in Fetches,
             NEW w \in alloc[u].placed,
             upload[u].pc = "ok", locate[g].hash = alloc[u].hash, ~Deleted(locate[g].hash),
             ~Died(w), locate[g].pc = "idle"
      PROVE  locate'[g].pc \in {"idle", "getWorkerState"}
  <2>1. /\ w \in Workers
        /\ locate \in [Fetches -> MP!LocateCall]
    BY <1>1 DEF Frame, Types, MP!TypeOK, MP!AllocCall
  <2>2. w \in Master!querySavedBlobByHash(blob_copy, locate[g].hash)
    BY <1>1, <2>1 DEF AcknowledgedUploadIsStored, Saved, Master!querySavedBlobByHash
  <2>3. ASSUME NEW e \in Fetches, LocateBlob(e) \/ Master!LocateFails(e)
        PROVE  locate'[g].pc \in {"idle", "getWorkerState"}
    <3>1. CASE e # g
      BY <1>1, <2>1, <2>3, <3>1 DEF LocateBlob, Master!LocateStep, Master!GetWorkerWithBlob,
         Master!AnswerLocate, Master!LocateFails, MP!LocateCall
    <3>2. CASE e = g
      BY <1>1, <2>1, <2>2, <2>3, <3>2 DEF LocateBlob, Master!LocateStep,
         Master!GetWorkerWithBlob, Master!AnswerLocate, Master!LocateFails, MP!LocateCall
    <3> QED
      BY <3>1, <3>2
  <2> QED
    BY <1>1, <2>3, StoreFrames DEF Moves
<1>2. Frame /\ AcknowledgedUploadIsStored /\ [Next]_vars =>
        [\A u \in Uploads, g \in Fetches :
           /\ upload[u].pc = "ok"
           /\ locate[g].hash = alloc[u].hash /\ ~Deleted(locate[g].hash)
           /\ \E w \in alloc[u].placed : ~Died(w)
           /\ locate[g].pc = "idle"
           => locate'[g].pc \in {"idle", "getWorkerState"}]_vars
  BY <1>1
<1> QED
  BY <1>2, FrameInvariant, AcknowledgedStored, PTL DEF Spec, AcknowledgedIsFound

-----------------------------------------------------------------------------
(* UndisturbedFetchIsWhole *)

\* A frontend reads from the worker a master named, to the end, and a worker reads
\* for it.
ReadingOrder(g, w) ==
  /\ fetch[g].pc \in {"reading", "cut", "ok"} => locate[g].pc = "ok"
  /\ fetch[g].pc = "ok" /\ w \in locate[g].chosen =>
       get[<<g, w>>].pc \in {"idle"} \cup Final
  /\ get[<<g, w>>].pc # "idle" =>
       /\ locate[g].pc = "ok"
       /\ w \in locate[g].chosen
       /\ fetch[g].pc # "idle"

\* What a reader has of an undisturbed copy: the beginning of the blob, of a file
\* it took to be whole, and all of it when it has been answered OK.  If it ends
\* before, its frontend is gone or its disk has failed it.
WholeSoFar(g, w) ==
  LET c == get[<<g, w>>]
      f == <<w, locate[g].hash>>
  IN  /\ c.pc \in {"idle", "loaded"} => c.sent = <<>> /\ ~c.unlinked
      /\ c.pc \in {"loaded", "sending"} => c.size = Chunks
      /\ c.pc = "sending" => /\ ~c.unlinked
                             /\ Len(c.sent) \in 0..Chunks
                             /\ c.sent = Worker!Prefix(f, Len(c.sent))
      /\ c.pc = "ok" => c.sent = Worker!Content(f)
      /\ c.pc = "error" => fetch[g].pc \in {"cut", "error"} \/ c.unread
      /\ fetch[g].pc = "ok" /\ w \in locate[g].chosen => c.pc = "ok" \/ c.unread

ReadSoFar ==
  \A g \in Fetches, w \in Workers :
    ReadingOrder(g, w) /\ (WholeSoFar(g, w) \/ Disturbed(locate[g].hash, w))

\* A stream that comes short is not rejected where the file is whole.
LEMMA NoReject ==
  ASSUME Frame, WrittenSoFar, NEW u \in Uploads, NEW w \in Workers, NEW h \in Hashes,
         alloc[u].hash = h, Whole(h, w), ~Disturbed(h, w), Worker!RejectStream(<<u, w>>)
  PROVE  FALSE
<1> DEFINE s == <<u, w>>
           f == <<w, h>>
<1>1. /\ save[s] \in Worker!SaveCall
      /\ save[s].hash = f /\ save[s].blob = f
      /\ f \in Names
  BY TypesGive DEF Frame, Arguments, Worker!TypeOK, Saves, Names
<1>2. /\ save[s].received \in 0..Chunks
      /\ save[s].received # Chunks
      /\ save[s].pc = "receiving"
  BY <1>1 DEF Worker!RejectStream, Worker!HashMatches, Worker!SaveCall
<1>3. Worker!Prefix(f, save[s].received) = Worker!Prefix(f, Chunks)
  BY <1>1, <1>2 DEF WrittenSoFar, Whole, Worker!Content
<1>4. Len(Worker!Prefix(f, save[s].received)) = save[s].received
  BY <1>1, <1>2, Prefixes
<1>5. Len(Worker!Prefix(f, Chunks)) = Chunks
  BY <1>1, Prefixes, ChunksAssumption
<1> QED
  BY <1>2, <1>3, <1>4, <1>5

\* Whoever reads an undisturbed copy goes on reading it.
LEMMA GetFate ==
  ASSUME Frame, WrittenSoFar, Next, NEW g \in Fetches, NEW w \in Workers, NEW h \in Hashes,
         locate[g].hash = h, ~Disturbed(h, w)',
         get[<<g, w>>].pc = "sending" => Whole(h, w)
  PROVE  get'[<<g, w>>] = get[<<g, w>>] \/ ServeGet(g, w)
<1> DEFINE c == <<g, w>>
<1>1. /\ c \in Fetches \X Workers
      /\ get \in [Fetches \X Workers -> Worker!GetCall]
      /\ get[c].hash = <<w, h>>
      /\ Types
  BY TypesGive DEF Frame, Arguments, Worker!TypeOK
<1>2. ~Disturbed(h, w)
  BY <1>1, DisturbedStays
<1>3. ASSUME NEW n, Worker!remove(n), n # <<w, h>> \/ get[c].pc # "sending"
      PROVE  get'[c] = get[c]
  BY <1>1, <1>3 DEF Worker!remove
<1>4. ASSUME NEW e \in Fetches, NEW v \in Workers, ServeGet(e, v)
      PROVE  get'[c] = get[c] \/ (e = g /\ v = w)
  BY <1>1, <1>4 DEF ServeGet, Worker!GetStep, Worker!GetBlob, Worker!OpenStream,
     Worker!SendChunk, Worker!EndOfFile, Worker!SendFails, Worker!ReadFails
<1>5. ASSUME NEW u \in Uploads, NEW v \in Workers, ServeSave(u, v)
      PROVE  get'[c] = get[c]
  <2>1. CASE Worker!RejectStream(<<u, v>>)
    <3>1. Worker!remove(<<v, alloc[u].hash>>)
      BY <2>1 DEF Worker!RejectStream, Frame, Arguments
    <3>2. CASE alloc[u].hash = h /\ v = w
      BY <1>2, <1>3, <2>1, <3>1, <3>2, NoReject
    <3>3. CASE <<v, alloc[u].hash>> # <<w, h>>
      BY <1>3, <3>1, <3>3
    <3> QED
      BY <3>2, <3>3
  <2>2. CASE \/ Worker!ReceiveChunk(<<u, v>>) \/ Worker!ReceiveChunkShort(<<u, v>>)
             \/ Worker!ReceiveChunkFails(<<u, v>>) \/ Worker!AcceptStream(<<u, v>>)
    BY <2>2 DEF Worker!ReceiveChunk, Worker!ReceiveChunkShort, Worker!ReceiveChunkFails,
       Worker!AcceptStream
  <2> QED
    BY <1>5, <2>1, <2>2 DEF ServeSave
<1>6. ASSUME NEW d \in Removals, NEW v \in Workers, ServeErase(d, v)
      PROVE  get'[c] = get[c]
  <2>1. CASE Worker!DeleteBlob(<<d, v>>)
    BY <2>1 DEF Worker!DeleteBlob
  <2>2. CASE Worker!RemoveFile(<<d, v>>)
    <3>1. deletion[d].hash # h
      BY <1>2, <2>2 DEF Frame, Causes, Worker!RemoveFile, Disturbed, Deleted
    <3>2. Worker!remove(<<v, deletion[d].hash>>)
      BY <2>2 DEF Worker!RemoveFile, Frame, Arguments
    <3> QED
      BY <1>3, <3>1, <3>2
  <2> QED
    BY <1>6, <2>1, <2>2 DEF ServeErase
<1>7. ASSUME NEW v \in Workers, NEW r \in Boots, Crash(v, r)
      PROVE  get'[c] = get[c]
  <2>1. v # w
    BY <1>1, <1>7, RequestsStay DEF Crash, Unsent, Send, Disturbed, Died
  <2> QED
    BY <1>1, <1>7, <2>1 DEF Crash, Worker!Lose
<1> QED
  BY <1>4, <1>5, <1>6, <1>7, StoreFrames DEF Moves

\* What ServeGet does to a reader of a whole file.
LEMMA ReaderMoves ==
  ASSUME Types, NEW g \in Fetches, NEW w \in Workers, NEW h \in Hashes,
         get[<<g, w>>].hash = <<w, h>>, locate[g].hash = h, Whole(h, w),
         ReadingOrder(g, w), WholeSoFar(g, w), ServeGet(g, w)
  PROVE  LET c == <<g, w>>
             f == <<w, h>>
         IN  /\ c \in Fetches \X Workers
             /\ UNCHANGED <<fetch, locate>>
             /\ \/ /\ get'[c].pc = "loaded"
                   /\ get'[c].size = Chunks
                   /\ get'[c].sent = <<>> /\ ~get'[c].unlinked
                \/ /\ get'[c].pc = "sending"
                   /\ get'[c].size = Chunks
                   /\ ~get'[c].unlinked
                   /\ Len(get'[c].sent) \in 0..Chunks
                   /\ get'[c].sent = Worker!Prefix(f, Len(get'[c].sent))
                \/ get'[c].pc = "ok" /\ get'[c].sent = Worker!Content(f)
                \/ get'[c].pc = "error" /\ (fetch[g].pc \in {"cut", "error"} \/ get'[c].unread)
<1> DEFINE c == <<g, w>>
           f == <<w, h>>
<1>1. /\ c \in Fetches \X Workers
      /\ f \in Names
      /\ get \in [Fetches \X Workers -> Worker!GetCall]
      /\ f \in files /\ data[f] = Worker!Content(f)
      /\ UNCHANGED <<fetch, locate>>
  BY TypesGive DEF Worker!TypeOK, Names, Whole, ServeGet, frontends, masters
<1>2. /\ Len(Worker!Content(f)) = Chunks
      /\ Worker!Prefix(f, 0) = <<>>
      /\ Worker!Prefix(f, Chunks) = Worker!Content(f)
      /\ Chunks \in Nat \ {0}
      /\ \A n \in 1..Chunks : Worker!Content(f)[n] = <<f, n>>
      /\ \A n \in 0..Chunks : Append(Worker!Prefix(f, n), <<f, n + 1>>) = Worker!Prefix(f, n + 1)
  <2>1. Chunks \in Nat \ {0} /\ 0 \in 0..Chunks /\ Chunks \in 0..Chunks
    BY ChunksAssumption
  <2>2. /\ Worker!Prefix(f, 0) = <<>>
        /\ Worker!Prefix(f, Chunks) = Worker!Content(f)
        /\ Len(Worker!Prefix(f, Chunks)) = Chunks
        /\ \A n \in 1..Chunks : Worker!Prefix(f, Chunks)[n] = <<f, n>>
    BY <1>1, <2>1, Prefixes
  <2>3. \A n \in 0..Chunks : Append(Worker!Prefix(f, n), <<f, n + 1>>) = Worker!Prefix(f, n + 1)
    BY <1>1, Prefixes
  <2> QED
    BY <2>1, <2>2, <2>3
<1>3. CASE Worker!GetBlob(c)
  <2>1. /\ get[c].pc = "idle"
        /\ get' = [get EXCEPT ![c].pc = "loaded", ![c].size = Chunks]
    BY <1>1, <1>2, <1>3 DEF Worker!GetBlob
  <2> QED
    BY <1>1, <2>1 DEF WholeSoFar, Worker!GetCall
<1>4. CASE Worker!OpenStream(c)
  <2>1. /\ get[c].pc = "loaded"
        /\ get' = [get EXCEPT ![c].pc = "sending"]
    BY <1>1, <1>4 DEF Worker!OpenStream
  <2>2. /\ get'[c].pc = "sending" /\ get'[c].size = Chunks
        /\ ~get'[c].unlinked /\ get'[c].sent = <<>>
    BY <1>1, <2>1 DEF WholeSoFar, Worker!GetCall
  <2>3. Len(get'[c].sent) = 0
    BY <2>2
  <2>4. 0 \in 0..Chunks
    BY ChunksAssumption
  <2>5. get'[c].sent = Worker!Prefix(f, 0)
    BY <1>2, <2>2
  <2> QED
    BY <1>1, <2>2, <2>3, <2>4, <2>5
<1>5. CASE Worker!SendChunk(c)
  <2> DEFINE n == Len(get[c].sent)
  <2>1. /\ get[c].pc = "sending" /\ get[c].size = Chunks /\ ~get[c].unlinked
        /\ n \in 0..Chunks /\ n + 1 <= Chunks
        /\ get[c].sent = Worker!Prefix(f, n)
    BY <1>5 DEF WholeSoFar, Worker!SendChunk
  <2>2. Worker!Readable(c) = Worker!Content(f)
    BY <1>1, <2>1 DEF Worker!Readable
  <2>3. get' = [get EXCEPT ![c].sent = Append(get[c].sent, Worker!Content(f)[n + 1])]
    BY <1>1, <1>2, <1>5, <2>1, <2>2 DEF Worker!SendChunk
  <2>4. get'[c].sent = Worker!Prefix(f, n + 1)
    <3>1. n + 1 \in 1..Chunks
      BY <2>1, ChunksAssumption
    <3>2. get'[c].sent = Append(Worker!Prefix(f, n), <<f, n + 1>>)
      BY <1>1, <1>2, <2>1, <2>3, <3>1 DEF Worker!GetCall
    <3> QED
      BY <1>2, <2>1, <3>2
  <2>5. Len(Worker!Prefix(f, n + 1)) = n + 1 /\ n + 1 \in 0..Chunks
    <3>1. n + 1 \in 0..Chunks
      BY <2>1, ChunksAssumption
    <3> QED
      BY <1>1, <3>1, Prefixes
  <2>6. get'[c].pc = "sending" /\ get'[c].size = Chunks /\ ~get'[c].unlinked
    BY <1>1, <2>1, <2>3 DEF Worker!GetCall
  <2> QED
    BY <1>1, <2>4, <2>5, <2>6
<1>6. CASE Worker!EndOfFile(c)
  <2>1. /\ get[c].pc = "sending"
        /\ Len(get[c].sent) = Chunks
        /\ get[c].sent = Worker!Prefix(f, Len(get[c].sent))
        /\ get' = [get EXCEPT ![c].pc = "ok"]
    BY <1>2, <1>6 DEF WholeSoFar, Worker!EndOfFile
  <2> QED
    BY <1>1, <1>2, <2>1, ZenonT(60) DEF Worker!GetCall
<1>7. CASE fetch[g].pc \in {"cut", "error"} /\ Worker!SendFails(c)
  BY <1>1, <1>7 DEF Worker!SendFails, Worker!GetCall
<1>8. CASE Worker!ReadFails(c)
  BY <1>1, <1>8 DEF Worker!ReadFails, Worker!GetCall
<1> QED
  BY <1>3, <1>4, <1>5, <1>6, <1>7, <1>8 DEF ServeGet, Worker!GetStep

\* A frontend begins to read when a master has answered, and stops when the worker
\* it reads from has ended, has never begun and is down, or a stream breaks.
LEMMA FetchFate ==
  ASSUME Types, MP!OneChosen, Next, NEW g \in Fetches, NEW w \in Workers
  PROVE  \/ fetch'[g].pc = fetch[g].pc
         \/ /\ fetch[g].pc = "idle"
            /\ UNCHANGED <<get, locate>>
            /\ \/ fetch'[g].pc = "reading" /\ locate[g].pc = "ok"
               \/ fetch'[g].pc = "error"
         \/ /\ fetch[g].pc = "reading"
            /\ UNCHANGED <<get, locate>>
            /\ fetch'[g].pc \in {"cut", "error", "ok"}
            /\ fetch'[g].pc = "ok" /\ w \in locate[g].chosen =>
                 get[<<g, w>>].pc \in Final \/ (get[<<g, w>>].pc = "idle" /\ ~Up(w))
<1>1. fetch \in [Fetches -> FetchCall]
  BY DEF Types
<1>2. ASSUME NEW e \in Fetches, StartFetch(e)
      PROVE  \/ fetch'[g].pc = fetch[g].pc
             \/ /\ fetch[g].pc = "idle"
                /\ UNCHANGED <<get, locate>>
                /\ \/ fetch'[g].pc = "reading" /\ locate[g].pc = "ok"
                   \/ fetch'[g].pc = "error"
  BY <1>1, <1>2 DEF StartFetch, masters, disks, FetchCall
<1>3. ASSUME NEW e \in Fetches, FetchBreaks(e)
      PROVE  \/ fetch'[g].pc = fetch[g].pc
             \/ /\ fetch[g].pc = "reading"
                /\ UNCHANGED <<get, locate>>
                /\ fetch'[g].pc \in {"cut", "error"}
  BY <1>1, <1>3 DEF FetchBreaks, masters, disks, FetchCall
<1>4. ASSUME NEW e \in Fetches, NEW v \in Workers, EndFetch(e, v)
      PROVE  \/ fetch'[g].pc = fetch[g].pc
             \/ /\ fetch[g].pc = "reading"
                /\ UNCHANGED <<get, locate>>
                /\ fetch'[g].pc = "ok"
                /\ w \in locate[g].chosen =>
                     get[<<g, w>>].pc \in Final \/ (get[<<g, w>>].pc = "idle" /\ ~Up(w))
  <2>1. CASE e # g
    BY <1>1, <1>4, <2>1 DEF EndFetch
  <2>2. CASE e = g
    <3>1. w \in locate[g].chosen => v = w
      BY <1>4, <2>2 DEF EndFetch, MP!OneChosen
    <3> QED
      BY <1>1, <1>4, <2>2, <3>1 DEF EndFetch, masters, disks, FetchCall
  <2> QED
    BY <2>1, <2>2
<1> QED
  BY <1>2, <1>3, <1>4, StoreFrames DEF Moves

\* The master's answer is there to stay once the frontend has gone on.
LEMMA LocateFate ==
  ASSUME Types, Next, NEW g \in Fetches
  PROVE  \/ locate'[g] = locate[g]
         \/ locate[g].pc \notin Final /\ locate'[g].hash = locate[g].hash
BY MasterSteps, MP!CallsGoOn, MP!ArgumentsKept, ReplicasAssumption, FaultsAssumption
DEF Types, masters, MP!Final, Final

\* A copy a master named is whole until something disturbs it.
LEMMA NamedIsWhole ==
  ASSUME Frame, UndisturbedCopyIsWhole, MP!ReportedCopyStaysSaved,
         NEW g \in Fetches, NEW w \in Workers, NEW h \in Hashes,
         locate[g].hash = h, w \in locate[g].chosen, ~Disturbed(h, w)
  PROVE  Whole(h, w)
<1>1. Saved(h, w) \/ MP!Erased(h, w)
  BY DEF MP!ReportedCopyStaysSaved, Saved, Master!SAVED, MP!SAVED
<1>2. ~MP!Erased(h, w)
  BY ErasedIsDisturbed DEF Frame, Disturbed
<1> QED
  BY <1>1, <1>2 DEF UndisturbedCopyIsWhole, Disturbed

\* What a frontend has relayed of an answered fetch is relayed for good: its worker
\* has ended.
LEMMA RelayedForGood ==
  ASSUME Types, Next, NEW g \in Fetches, NEW w \in Workers, fetch[g].pc = "ok",
         w \in locate[g].chosen, get[<<g, w>>].pc \in {"idle"} \cup Final
  PROVE  /\ get'[<<g, w>>].sent = get[<<g, w>>].sent
         /\ get'[<<g, w>>].unread = get[<<g, w>>].unread
         /\ get'[<<g, w>>].pc = get[<<g, w>>].pc
<1> DEFINE Kept == /\ get'[<<g, w>>].sent = get[<<g, w>>].sent
                   /\ get'[<<g, w>>].unread = get[<<g, w>>].unread
                   /\ get'[<<g, w>>].pc = get[<<g, w>>].pc
<1>1. /\ get \in [Fetches \X Workers -> WP!GetCall]
      /\ <<g, w>> \in Fetches \X Workers
  BY DEF Types, WP!TypeOK
<1>2. ASSUME NEW e \in Fetches, NEW v \in Workers, ServeGet(e, v)
      PROVE  Kept
  <2>1. <<e, v>> # <<g, w>>
    BY <1>2 DEF ServeGet, Worker!ReadFails, Final
  <2> QED
    BY <1>1, <1>2, <2>1 DEF ServeGet, Worker!GetStep, Worker!GetBlob, Worker!OpenStream,
       Worker!SendChunk, Worker!EndOfFile, Worker!SendFails, Worker!ReadFails
<1>3. ASSUME NEW f, Worker!remove(f)
      PROVE  Kept
  BY <1>1, <1>3 DEF Worker!remove, WP!GetCall
<1>4. ASSUME NEW u \in Uploads, NEW v \in Workers, ServeSave(u, v)
      PROVE  Kept
  BY <1>3, <1>4 DEF ServeSave, Worker!ReceiveChunk, Worker!ReceiveChunkShort,
     Worker!ReceiveChunkFails, Worker!AcceptStream, Worker!RejectStream
<1>5. ASSUME NEW d \in Removals, NEW v \in Workers, ServeErase(d, v)
      PROVE  Kept
  BY <1>3, <1>5 DEF ServeErase, Worker!DeleteBlob, Worker!RemoveFile
<1>6. ASSUME NEW v \in Workers, NEW r \in Boots, Crash(v, r)
      PROVE  Kept
  BY <1>1, <1>6 DEF Crash, Worker!Lose, Worker!Active, Worker!Final, Final, WP!GetCall
<1> QED
  BY <1>2, <1>4, <1>5, <1>6, StoreFrames DEF Moves

ReadInv == Frame /\ WrittenSoFar /\ UndisturbedCopyIsWhole /\ MP!ReportedCopyStaysSaved
             /\ MP!OneChosen

LEMMA OrderStep ==
  ASSUME ReadInv, Next, NEW g \in Fetches, NEW w \in Workers, ReadingOrder(g, w)
  PROVE  ReadingOrder(g, w)'
<1>1. /\ Types /\ MP!OneChosen
      /\ <<g, w>> \in Fetches \X Workers
      /\ get \in [Fetches \X Workers -> Worker!GetCall]
  BY TypesGive DEF ReadInv, Frame, Worker!TypeOK
<1>2. locate[g].pc = "ok" => locate'[g] = locate[g]
  BY <1>1, LocateFate DEF Final
<1>3. fetch'[g].pc \in {"reading", "cut", "ok"} => locate'[g].pc = "ok"
  BY <1>1, <1>2, FetchFate DEF ReadingOrder
<1>4. ASSUME get[<<g, w>>].pc = "idle", get'[<<g, w>>].pc # "idle"
      PROVE  ServeGet(g, w)
  <2>1. ASSUME NEW n, Worker!remove(n)
        PROVE  FALSE
    BY <1>1, <1>4, <2>1 DEF Worker!remove
  <2>2. ASSUME NEW e \in Fetches, NEW v \in Workers, ServeGet(e, v)
        PROVE  e = g /\ v = w
    BY <1>1, <1>4, <2>2 DEF ServeGet, Worker!GetStep, Worker!GetBlob, Worker!OpenStream,
       Worker!SendChunk, Worker!EndOfFile, Worker!SendFails, Worker!ReadFails
  <2>3. ASSUME NEW u \in Uploads, NEW v \in Workers, ServeSave(u, v)
        PROVE  FALSE
    BY <1>4, <2>1, <2>3 DEF ServeSave, Worker!ReceiveChunk, Worker!ReceiveChunkShort,
       Worker!ReceiveChunkFails, Worker!AcceptStream, Worker!RejectStream
  <2>4. ASSUME NEW d \in Removals, NEW v \in Workers, ServeErase(d, v)
        PROVE  FALSE
    BY <1>4, <2>1, <2>4 DEF ServeErase, Worker!DeleteBlob, Worker!RemoveFile
  <2>5. ASSUME NEW v \in Workers, NEW r \in Boots, Crash(v, r)
        PROVE  FALSE
    BY <1>1, <1>4, <2>5 DEF Crash, Worker!Lose, Worker!Active
  <2> QED
    BY <1>4, <2>2, <2>3, <2>4, <2>5, StoreFrames DEF Moves
<1>5. ASSUME ServeGet(g, w)
      PROVE  /\ UNCHANGED <<locate, fetch>>
             /\ w \in locate[g].chosen
             /\ fetch[g].pc # "idle"
             /\ locate[g].pc = "ok"
  <2>1. \/ fetch[g].pc = "reading"
        \/ get[<<g, w>>].pc # "idle"
    BY <1>5 DEF ServeGet, Worker!ReadFails
  <2> QED
    BY <1>5, <2>1 DEF ServeGet, masters, frontends, ReadingOrder
<1>6. fetch[g].pc # "idle" => fetch'[g].pc # "idle"
  BY <1>1, FetchFate
<1>7. ASSUME fetch'[g].pc = "ok", w \in locate'[g].chosen
      PROVE  get'[<<g, w>>].pc \in {"idle"} \cup Final
  <2>1. CASE fetch[g].pc = "ok"
    BY <1>1, <1>2, <1>7, <2>1, RelayedForGood DEF ReadingOrder
  <2>2. CASE fetch[g].pc # "ok"
    BY <1>1, <1>7, <2>2, FetchFate DEF Final
  <2> QED
    BY <2>1, <2>2
<1> QED
  BY <1>2, <1>3, <1>4, <1>5, <1>6, <1>7 DEF ReadingOrder

LEMMA ReadStep ==
  ASSUME ReadInv, ReadSoFar, Next
  PROVE  ReadSoFar'
<1>1. \A g \in Fetches : locate[g].hash \in Hashes /\ locate'[g].hash = locate[g].hash
  BY LocateFate DEF ReadInv, Frame, Types, MP!TypeOK, MP!LocateCall
<1> SUFFICES ASSUME NEW g \in Fetches, NEW w \in Workers, NEW h \in Hashes,
                    locate[g].hash = h, locate'[g].hash = h, ~Disturbed(h, w)'
             PROVE  WholeSoFar(g, w)'
  <2>1. ASSUME NEW g \in Fetches, NEW w \in Workers
        PROVE  ReadingOrder(g, w)' /\ (WholeSoFar(g, w)' \/ Disturbed(locate[g].hash, w)')
    <3>1. ReadingOrder(g, w)'
      BY OrderStep DEF ReadSoFar
    <3>2. PICK h \in Hashes : locate[g].hash = h /\ locate'[g].hash = h
      BY <1>1
    <3>3. Disturbed(h, w)' => Disturbed(locate[g].hash, w)'
      BY <3>2 DEF Disturbed, Deleted, Died, Torn
    <3> QED
      BY <3>1, <3>2, <3>3
  <2> QED
    BY <2>1 DEF ReadSoFar
<1> DEFINE c == <<g, w>>
           f == <<w, h>>
<1>2. /\ Types /\ MP!OneChosen /\ Frame /\ WrittenSoFar
      /\ c \in Fetches \X Workers
      /\ get[c].hash = f
  BY DEF ReadInv, Frame, Arguments
<1>3. ~Disturbed(h, w)
  BY <1>2, DisturbedStays
<1>4. ReadingOrder(g, w) /\ WholeSoFar(g, w)
  BY <1>3 DEF ReadSoFar
<1>5. w \in locate[g].chosen => Whole(h, w)
  BY <1>3, NamedIsWhole DEF ReadInv
<1>6. Up(w)
  BY <1>2, <1>3 DEF Frame, Types, Causes, Up, Disturbed, Died
<1>7. locate[g].pc = "ok" => locate'[g] = locate[g]
  BY <1>2, LocateFate DEF Final
<1>8. CASE ServeGet(g, w)
  <2>1. Whole(h, w)
    BY <1>5, <1>8 DEF ServeGet
  <2>2. /\ UNCHANGED <<fetch, locate>>
        /\ \/ /\ get'[c].pc = "loaded"
              /\ get'[c].size = Chunks
              /\ get'[c].sent = <<>> /\ ~get'[c].unlinked
           \/ /\ get'[c].pc = "sending"
              /\ get'[c].size = Chunks
              /\ ~get'[c].unlinked
              /\ Len(get'[c].sent) \in 0..Chunks
              /\ get'[c].sent = Worker!Prefix(f, Len(get'[c].sent))
           \/ get'[c].pc = "ok" /\ get'[c].sent = Worker!Content(f)
           \/ get'[c].pc = "error" /\ (fetch[g].pc \in {"cut", "error"} \/ get'[c].unread)
    BY <1>2, <1>4, <1>8, <2>1, ReaderMoves
  <2>3. fetch[g].pc # "ok"
    BY <1>4, <1>8 DEF ServeGet, Worker!ReadFails, ReadingOrder, Final
  <2> QED
    BY <2>2, <2>3 DEF WholeSoFar, Worker!Content, Worker!Prefix
<1>9. CASE get'[c] = get[c]
  <2>1. CASE fetch'[g].pc = fetch[g].pc
    <3>1. fetch[g].pc = "ok" => locate'[g] = locate[g]
      BY <1>4, <1>7 DEF ReadingOrder
    <3> QED
      BY <1>4, <1>9, <2>1, <3>1 DEF WholeSoFar, Worker!Content, Worker!Prefix
  <2>2. CASE fetch[g].pc = "idle" /\ fetch'[g].pc \in {"reading", "error"}
    <3>1. get[c].pc = "idle"
      BY <1>4, <2>2 DEF ReadingOrder
    <3> QED
      BY <1>4, <1>9, <2>2, <3>1 DEF WholeSoFar
  <2>3. CASE fetch[g].pc = "reading" /\ fetch'[g].pc \in {"cut", "error"}
    BY <1>4, <1>9, <2>3 DEF WholeSoFar, Worker!Content, Worker!Prefix
  <2>4. CASE /\ fetch[g].pc = "reading" /\ fetch'[g].pc = "ok"
             /\ UNCHANGED <<get, locate>>
             /\ w \in locate[g].chosen =>
                  get[c].pc \in Final \/ (get[c].pc = "idle" /\ ~Up(w))
    <3>1. get[c].pc = "error" => get[c].unread
      BY <1>4, <2>4 DEF WholeSoFar
    <3>2. w \in locate[g].chosen => get[c].pc = "ok" \/ get[c].unread
      BY <1>6, <2>4, <3>1 DEF Final
    <3> QED
      BY <1>4, <2>4, <3>1, <3>2 DEF WholeSoFar, Worker!Content, Worker!Prefix
  <2> QED
    BY <1>2, <2>1, <2>2, <2>3, <2>4, FetchFate
<1>10. get[c].pc = "sending" => Whole(h, w)
  BY <1>4, <1>5 DEF ReadingOrder
<1> QED
  BY <1>2, <1>8, <1>9, <1>10, GetFate

LEMMA ReadInvariant == Spec => [](ReadInv /\ ReadSoFar)
<1>1. Init => ReadSoFar
  BY DEF Init, ReadSoFar, ReadingOrder, WholeSoFar
<1>2. ReadInv /\ ReadSoFar /\ [Next]_vars => ReadSoFar'
  <2> SUFFICES ASSUME ReadSoFar, UNCHANGED vars PROVE ReadSoFar'
    BY ReadStep
  <2>1. UNCHANGED <<fetch, locate, get>>
    BY DEF vars, frontends, masters, disks
  <2>2. ASSUME NEW g \in Fetches, NEW w \in Workers
        PROVE  ReadingOrder(g, w)' /\ (WholeSoFar(g, w)' \/ Disturbed(locate[g].hash, w)')
    <3>1. ReadingOrder(g, w)'
      BY <2>1 DEF ReadSoFar, ReadingOrder
    <3>2. WholeSoFar(g, w) => WholeSoFar(g, w)'
      BY <2>1 DEF WholeSoFar, Worker!Content, Worker!Prefix
    <3>3. Disturbed(locate[g].hash, w) => Disturbed(locate[g].hash, w)'
      BY <2>1 DEF Disturbed, Deleted, Died, Torn, vars, masters, disks, boots
    <3> QED
      BY <3>1, <3>2, <3>3 DEF ReadSoFar
  <2> QED
    BY <2>2 DEF ReadSoFar
<1>3. MP!Spec => []MP!OneChosen
  BY MP!OneIsChosen, ReplicasAssumption, FaultsAssumption
<1>4. Spec => []ReadInv
  BY <1>3, CopyInvariant, CopiesAreWhole, MastersReport, MastersImplemented, SameMasters, PTL
  DEF ReadInv, CopyInv
<1> QED
  BY <1>1, <1>2, <1>4, PTL DEF Spec

\* A GetBlob answered OK has sent the blob, unless the blob was deleted, the worker
\* died, its stream broke or its disk failed when the file was written or read: the
\* copy the master named was whole, nobody writes or removes it while it is read, and
\* so the stream ends where the blob does.
THEOREM FetchesAreWhole == Spec => []UndisturbedFetchIsWhole
<1>1. ReadSoFar => UndisturbedFetchIsWhole
  BY DEF ReadSoFar, WholeSoFar, UndisturbedFetchIsWhole, Disturbed
<1> QED
  BY <1>1, ReadInvariant, PTL

-----------------------------------------------------------------------------
(* Answers of the frontends, for who calls them *)

\* An upload that is over stays as it ended.
LEMMA UploadForGood ==
  ASSUME Types, Next, NEW u \in Uploads, upload[u].pc \in Final
  PROVE  upload'[u] = upload[u]
<1>1. upload \in [Uploads -> UploadCall]
  BY DEF Types
<1>2. ASSUME NEW v \in Uploads, ReceiveBlob(v) \/ TakeWorkers(v)
      PROVE  upload'[u] = upload[u]
  BY <1>1, <1>2 DEF ReceiveBlob, TakeWorkers, Final
<1>3. ASSUME NEW v \in Uploads, NEW w \in Workers,
             OpenSave(v, w) \/ OpenSaveFails(v, w) \/ SaveAnswered(v, w) \/ StreamBreaks(v, w)
      PROVE  upload'[u] = upload[u]
  BY <1>1, <1>3 DEF OpenSave, OpenSaveFails, SaveAnswered, StreamBreaks, Streaming, Final
<1> QED
  BY <1>2, <1>3, StoreFrames DEF Moves

\* So does a fetch, with the worker its master named.
LEMMA FetchForGood ==
  ASSUME ReadInv, ReadSoFar, Next, Workers # {}, NEW g \in Fetches, fetch[g].pc \in {"ok", "cut"}
  PROVE  fetch'[g].pc = fetch[g].pc /\ locate'[g] = locate[g]
<1>1. PICK w \in Workers : ReadingOrder(g, w)
  BY DEF ReadSoFar
<1> QED
  BY <1>1, FetchFate, LocateFate DEF ReadInv, Frame, ReadingOrder, Final

\* What a fetch answered OK relayed is the blob, unless its copy was disturbed.
LEMMA AnsweredFetch ==
  ASSUME ReadInv, ReadSoFar, NEW g \in Fetches, NEW w \in locate[g].chosen, fetch[g].pc = "ok"
  PROVE  /\ w \in Workers
         /\ \/ get[<<g, w>>].sent = Worker!Content(get[<<g, w>>].hash)
            \/ Deleted(locate[g].hash)
            \/ Died(w)
            \/ Torn(locate[g].hash, w)
            \/ get[<<g, w>>].unread
<1>1. w \in Workers
  BY DEF ReadInv, Frame, Types, MP!TypeOK, MP!LocateCall
<1> QED
  BY <1>1 DEF ReadInv, Frame, Arguments, ReadSoFar, WholeSoFar, Disturbed

-----------------------------------------------------------------------------
(* What a deletion leaves *)

\* A file is created by an upload that is being sent there, or that a worker is still
\* receiving.
LEMMA FilesArrive ==
  ASSUME Frame, Next, NEW h \in Hashes, NEW w \in Workers,
         <<w, h>> \in files', <<w, h>> \notin files
  PROVE  \E u \in Uploads : /\ alloc[u].hash = h
                            /\ \/ OpenSave(u, w) /\ upload[u].pc = "sending"
                               \/ save[<<u, w>>].pc = "receiving"
<1>0. \A u \in Uploads, v \in Workers : save[<<u, v>>].hash = <<v, alloc[u].hash>>
  BY DEF Frame, Arguments
<1>1. ASSUME NEW u \in Uploads, NEW v \in Workers, OpenSave(u, v)
      PROVE  alloc[u].hash = h /\ v = w /\ upload[u].pc = "sending"
  BY <1>0, <1>1 DEF OpenSave, Worker!SaveBlob, Worker!New
<1>2. ASSUME NEW u \in Uploads, NEW v \in Workers, ServeSave(u, v)
      PROVE  /\ alloc[u].hash = h /\ v = w
             /\ save[<<u, w>>].pc = "receiving"
  <2>1. CASE Worker!ReceiveChunk(<<u, v>>) \/ Worker!ReceiveChunkShort(<<u, v>>)
    <3>1. /\ files' = files \cup {save[<<u, v>>].hash}
          /\ save[<<u, v>>].pc = "receiving"
      BY <2>1 DEF Worker!ReceiveChunk, Worker!ReceiveChunkShort, Worker!append_chunk
    <3>2. <<w, h>> = <<v, alloc[u].hash>>
      BY <1>0, <3>1
    <3> QED
      BY <3>1, <3>2
  <2>2. CASE \/ Worker!ReceiveChunkFails(<<u, v>>)
             \/ Worker!AcceptStream(<<u, v>>)
             \/ Worker!RejectStream(<<u, v>>)
    BY <2>2 DEF Worker!ReceiveChunkFails, Worker!AcceptStream, Worker!RejectStream,
       Worker!remove
  <2> QED
    BY <1>2, <2>1, <2>2 DEF ServeSave
<1>3. ASSUME NEW d \in Removals, NEW v \in Workers, ServeErase(d, v)
      PROVE  files' \subseteq files
  BY <1>3 DEF ServeErase, Worker!DeleteBlob, Worker!RemoveFile, Worker!remove
<1>4. ASSUME NEW v \in Workers, NEW r \in Boots, Crash(v, r)
      PROVE  files' \subseteq files
  BY <1>4 DEF Crash, Worker!Lose
<1>5. CASE \E u \in Uploads, v \in Workers : OpenSave(u, v) \/ ServeSave(u, v)
  BY <1>1, <1>2, <1>5
<1> QED
  BY <1>3, <1>4, <1>5, StoreFrames DEF Moves

\* So every file is that of an upload that has come to its worker.
FilesSent ==
  \A h \in Hashes, w \in Workers : <<w, h>> \in files =>
    \E u \in Uploads : alloc[u].hash = h /\ save[<<u, w>>].pc # "idle"

\* A SaveBlob that has begun has begun for good.
LEMMA SaveGoesOn ==
  ASSUME Types, Next, NEW s \in Saves, save[s].pc # "idle"
  PROVE  save'[s].pc # "idle"
<1>1. save[s] \in Worker!SaveCall
  BY TypesGive DEF Worker!TypeOK
<1> QED
  BY <1>1, SaveMoved DEF SaveChange, Worker!SaveCall, Final

\* Whichever workers die and register again.
LEMMA FilesSentInvariant == Spec => []FilesSent
<1>1. Init => FilesSent
  BY DEF Init, Worker!Init, FilesSent
<1>2. Frame /\ FilesSent /\ Next => FilesSent'
  <2> SUFFICES ASSUME Frame, FilesSent, Next,
                      NEW h \in Hashes, NEW w \in Workers, <<w, h>> \in files'
               PROVE  \E u \in Uploads : alloc'[u].hash = h /\ save'[<<u, w>>].pc # "idle"
    BY DEF FilesSent
  <2>1. /\ Types
        /\ \A u \in Uploads : <<u, w>> \in Saves
        /\ save \in [Saves -> Worker!SaveCall]
    BY TypesGive DEF Frame, Saves, Worker!TypeOK
  <2>2. \A u \in Uploads : alloc'[u].hash = alloc[u].hash
    BY <2>1, MasterSteps, MP!ArgumentsKept, ReplicasAssumption, FaultsAssumption
    DEF Types, masters
  <2>3. PICK u \in Uploads :
          alloc[u].hash = h /\ (save[<<u, w>>].pc # "idle" \/ OpenSave(u, w))
    <3>1. CASE <<w, h>> \in files
      BY <3>1 DEF FilesSent
    <3>2. CASE <<w, h>> \notin files
      BY <3>2, FilesArrive
    <3> QED
      BY <3>1, <3>2
  <2>4. save'[<<u, w>>].pc # "idle"
    BY <2>1, <2>3, SaveGoesOn DEF OpenSave, Worker!SaveBlob, Worker!SaveCall
  <2> QED
    BY <2>2, <2>3, <2>4
<1>3. UNCHANGED vars /\ FilesSent => FilesSent'
  <2> SUFFICES ASSUME UNCHANGED vars PROVE FilesSent => FilesSent'
    OBVIOUS
  <2>1. files' = files /\ alloc' = alloc /\ save' = save
    BY DEF vars, masters, disks
  <2> QED
    BY <2>1 DEF FilesSent
<1> QED
  BY <1>1, <1>2, <1>3, FrameInvariant, PTL DEF Spec

\* Once a worker has answered a deletion its file is gone.
LEMMA ErasedFile ==
  ASSUME Frame, Next, NEW d \in Removals, NEW w \in Workers,
         erase'[<<d, w>>].pc \in Final, erase[<<d, w>>].pc \notin Final
  PROVE  <<w, deletion[d].hash>> \notin files' \/ Died(w)'
<1> DEFINE c == <<d, w>>
<1>1. /\ c \in Removals \X Workers
      /\ erase \in [Removals \X Workers -> Worker!DeleteCall]
      /\ erase[c].hash = <<w, deletion[d].hash>>
      /\ Types
  BY TypesGive DEF Frame, Arguments, Worker!TypeOK
<1>2. ASSUME NEW e \in Removals, NEW v \in Workers, ServeErase(e, v)
      PROVE  <<w, deletion[d].hash>> \notin files'
  <2>1. CASE Worker!DeleteBlob(<<e, v>>)
    BY <1>1, <2>1 DEF Worker!DeleteBlob, Worker!DeleteCall, Final
  <2>2. CASE Worker!RemoveFile(<<e, v>>)
    BY <1>1, <2>2 DEF Worker!RemoveFile, Worker!remove, Worker!DeleteCall, Final
  <2> QED
    BY <1>2, <2>1, <2>2 DEF ServeErase
<1>3. ASSUME NEW v \in Workers, NEW r \in Boots, Crash(v, r)
      PROVE  Died(w)'
  <2>1. v = w
    BY <1>1, <1>3 DEF Crash, Worker!Lose
  <2>2. r \in sent' /\ register[r].worker = w /\ register' = register
    BY <1>3, <2>1 DEF Crash, Unsent, Send, masters
  <2> QED
    BY <2>2 DEF Died
<1> QED
  BY <1>2, <1>3, StoreFrames DEF Moves

\* What becomes of a deletion: it begins with all who hold a copy, is done with a
\* worker that has answered or that has died, and ends when none is left.
LEMMA RemovalFate ==
  ASSUME Frame, ~Faults, Next, NEW d \in Removals
  PROVE  \/ deletion'[d] = deletion[d]
         \/ /\ deletion[d].pc = "idle"
            /\ deletion'[d].pc = "askWorkers"
            /\ deletion'[d].todo = {w \in Workers : Saved(deletion[d].hash, w)}
            /\ UNCHANGED <<files, sent, register, erase>>
         \/ /\ deletion[d].pc = "askWorkers"
            /\ deletion'[d].pc = "askWorkers"
            /\ \E w \in Workers : /\ deletion'[d].todo = deletion[d].todo \ {w}
                                  /\ erase[<<d, w>>].pc \in Final \/ Died(w)
            /\ UNCHANGED <<files, sent, register, erase>>
         \/ /\ deletion[d].pc = "askWorkers"
            /\ deletion[d].todo = {}
            /\ deletion'[d].pc = "ok"
            /\ UNCHANGED <<files, sent, register, erase>>
         \/ deletion'[d].pc = "error"
<1>1. deletion \in [Removals -> MP!DeleteCall]
  BY DEF Frame, Types, MP!TypeOK
<1> USE DEF masters, disks, boots
<1>2. ASSUME NEW e \in Removals, e # d,
             \/ StartRemoval(e) \/ EndRemoval(e) \/ Master!DeleteFails(e)
             \/ \E w \in Workers : AskedWorker(e, w)
      PROVE  deletion'[d] = deletion[d]
  BY <1>1, <1>2 DEF StartRemoval, EndRemoval, AskedWorker, Master!DeleteBlob,
     Master!DeleteEntries, Master!DeleteFails, Master!AskWorker
<1>3. CASE StartRemoval(d)
  <2>1. Master!querySavedBlobByHash(blob_copy, deletion[d].hash)
          = {w \in Workers : Saved(deletion[d].hash, w)}
    BY DEF Master!querySavedBlobByHash, Saved
  <2> QED
    BY <1>1, <1>3, <2>1 DEF StartRemoval, Master!DeleteBlob, MP!DeleteCall
<1>4. CASE EndRemoval(d)
  <2>1. deletion' = [deletion EXCEPT ![d].pc = "ok", ![d].erased = TRUE]
    BY <1>4 DEF EndRemoval, Master!DeleteEntries, Master!Answers
  <2> QED
    BY <1>1, <1>4, <2>1 DEF EndRemoval, Master!DeleteEntries, MP!DeleteCall
<1>5. ASSUME NEW w \in Workers, AskedWorker(d, w)
      PROVE  /\ deletion[d].pc = "askWorkers"
             /\ deletion'[d].pc = "askWorkers"
             /\ deletion'[d].todo = deletion[d].todo \ {w}
             /\ erase[<<d, w>>].pc \in Final \/ Died(w)
             /\ UNCHANGED <<files, sent, register, erase>>
  <2>1. ~Up(w) => Died(w)
    BY DEF Frame, Causes, Types, Up, Died
  <2> QED
    BY <1>1, <1>5, <2>1 DEF AskedWorker, Master!AskWorker, MP!DeleteCall
<1>6. CASE Master!DeleteFails(d)
  BY <1>1, <1>6 DEF Master!DeleteFails, MP!DeleteCall
<1> QED
  BY <1>2, <1>3, <1>4, <1>5, <1>6, StoreFrames DEF Moves

\* What the masters tell of allocations and rows, as steps of the system.
LEMMA RowArrives ==
  ASSUME Types, Next
  PROVE  /\ \A u \in Uploads : alloc[u].pc # "idle" => alloc'[u].pc # "idle"
         /\ \A h \in Hashes, w \in Workers : blob_copy[h][w] = Master!NoCopy =>
              \/ blob_copy'[h][w] = Master!NoCopy
              \/ \E u \in Uploads : alloc[u].pc = "addBlobEntry"
<1>1. CASE MP!Next
  BY <1>1, MP!CallsGoOn, MP!RowBy, ReplicasAssumption, FaultsAssumption
  DEF Types, Master!NoCopy, MP!NoCopy
<1>2. CASE UNCHANGED masters
  BY <1>2 DEF masters
<1> QED
  BY <1>1, <1>2, MasterSteps

\* A deletion that is answered OK has erased the rows of its blob.
LEMMA RowsErased ==
  ASSUME Types, Next, NEW d \in Removals, deletion[d].pc # "ok", deletion'[d].pc = "ok",
         NEW h \in Hashes, h = deletion[d].hash, NEW w \in Workers
  PROVE  blob_copy'[h][w] = Master!NoCopy
<1>1. /\ deletion \in [Removals -> MP!DeleteCall]
      /\ blob_copy \in MP!BlobCopyTable
  BY DEF Types, MP!TypeOK
<1>2. ASSUME NEW e \in Removals, NEW v \in Workers,
             StartRemoval(e) \/ AskedWorker(e, v) \/ Master!DeleteFails(e)
      PROVE  FALSE
  BY <1>1, <1>2 DEF StartRemoval, AskedWorker, Master!DeleteBlob, Master!AskWorker,
     Master!DeleteFails, MP!DeleteCall
<1>3. ASSUME NEW e \in Removals, EndRemoval(e)
      PROVE  blob_copy'[h][w] = Master!NoCopy
  <2>1. e = d
    BY <1>1, <1>3 DEF EndRemoval, Master!DeleteEntries
  <2> QED
    BY <1>1, <1>3, <2>1 DEF EndRemoval, Master!DeleteEntries, Master!deleteBlobEntryByHash,
       MP!BlobCopyTable
<1> QED
  BY <1>1, <1>2, <1>3, StoreFrames DEF Moves

-----------------------------------------------------------------------------
(* The system implements DurableStore *)

\* The masters and the rest of the system never move together.
LEMMA StepOfOneSide == Next => UNCHANGED masters \/ UNCHANGED <<disks, frontends, boots>>
<1> SUFFICES ASSUME Next PROVE UNCHANGED masters \/ UNCHANGED <<disks, frontends, boots>>
  OBVIOUS
<1>1. CASE \E u \in Uploads : UploadStep(u)
  <2>1. PICK u \in Uploads : UploadStep(u)
    BY <1>1
  <2>2. CASE AskMaster(u)
    BY <2>2 DEF AskMaster
  <2>3. CASE ReceiveBlob(u) \/ TakeWorkers(u)
    BY <2>3 DEF ReceiveBlob, TakeWorkers
  <2>4. CASE \E w \in Workers : OpenSave(u, w) \/ OpenSaveFails(u, w) \/ SaveAnswered(u, w)
    BY <2>4 DEF OpenSave, OpenSaveFails, SaveAnswered
  <2> QED
    BY <2>1, <2>2, <2>3, <2>4 DEF UploadStep
<1>2. ASSUME NEW u \in Uploads, NEW w \in Workers,
             ServeSave(u, w) \/ ServeNotify(u, w) \/ NotifyAnswered(u, w) \/ StreamBreaks(u, w)
      PROVE  UNCHANGED masters \/ UNCHANGED <<disks, frontends, boots>>
  BY <1>2 DEF ServeSave, ServeNotify, NotifyAnswered, StreamBreaks
<1>3. CASE \E g \in Fetches : FetchStep(g) \/ FetchBreaks(g)
  <2>1. PICK g \in Fetches : FetchStep(g) \/ FetchBreaks(g)
    BY <1>3
  <2>2. CASE LocateBlob(g)
    BY <2>2 DEF LocateBlob
  <2>3. CASE StartFetch(g) \/ FetchBreaks(g)
    BY <2>3 DEF StartFetch, FetchBreaks
  <2>4. CASE \E w \in Workers : ServeGet(g, w) \/ EndFetch(g, w)
    BY <2>4 DEF ServeGet, EndFetch
  <2> QED
    BY <2>1, <2>2, <2>3, <2>4 DEF FetchStep
<1>4. CASE \E d \in Removals : RemovalStep(d)
  <2>1. PICK d \in Removals : RemovalStep(d)
    BY <1>4
  <2>2. CASE StartRemoval(d) \/ EndRemoval(d)
    BY <2>2 DEF StartRemoval, EndRemoval
  <2>3. CASE \E w \in Workers : ServeErase(d, w) \/ AskedWorker(d, w)
    BY <2>3 DEF ServeErase, AskedWorker
  <2> QED
    BY <2>1, <2>2, <2>3 DEF RemovalStep
<1>5. CASE \E w \in Workers, r \in Boots : Crash(w, r) \/ Retry(w, r)
  BY <1>5 DEF Crash, Retry
<1>6. CASE \E r \in Boots : ServeRegister(r)
  BY <1>6 DEF ServeRegister
<1>7. CASE \E w \in Workers : Serve(w)
  BY <1>7 DEF Serve
<1>8. CASE MasterFault
  BY <1>8 DEF MasterFault
<1>9. CASE UNCHANGED vars
  BY <1>9 DEF vars
<1> QED
  BY <1>1, <1>2, <1>3, <1>4, <1>5, <1>6, <1>7, <1>8, <1>9 DEF Next

\* A copy that is not disturbed becomes SAVED by a notification alone, one at a time,
\* and stays so.
LEMMA SavedFate ==
  ASSUME Frame, Next
  PROVE  \/ \A h \in Hashes, w \in Workers : ~Disturbed(h, w)' => (Saved(h, w)' <=> Saved(h, w))
         \/ \E n \in Saves :
              /\ notify[n].pc # "idle"
              /\ UNCHANGED <<alloc, locate, register, deletion, disks, frontends, boots>>
              /\ \A h \in Hashes, w \in Workers :
                   Saved(h, w)' <=>
                     Saved(h, w) \/ (h = notify[n].hash /\ w = notify[n].worker)
<1> USE DEF Saved, Master!SAVED
<1>1. /\ blob_copy \in MP!BlobCopyTable
      /\ Types
    BY DEF Frame, Types, MP!TypeOK
<1>2. CASE UNCHANGED blob_copy
  BY <1>2
<1>3. ASSUME NEW u \in Uploads, NEW v \in Workers, MP!AddBlobEntry(u, v)
      PROVE  \A h \in Hashes, w \in Workers : Saved(h, w)' <=> Saved(h, w)
  BY <1>1, <1>3 DEF MP!AddBlobEntry, MP!addBlobEntry, MP!BlobCopyTable, MP!HasCopy,
     MP!DURING_CREATION
<1>4. ASSUME NEW n \in Saves, MP!UpdateBlobEntry(n), blob_copy' # blob_copy
      PROVE  /\ notify[n].pc # "idle"
             /\ UNCHANGED <<alloc, locate, register, deletion, disks, frontends, boots>>
             /\ \A h \in Hashes, w \in Workers :
                  Saved(h, w)' <=>
                    Saved(h, w) \/ (h = notify[n].hash /\ w = notify[n].worker)
  <2>1. notify[n].hash \in Hashes /\ notify[n].worker \in Workers
    BY <1>1 DEF Types, MP!TypeOK, MP!NotifyCall
  <2>2. /\ notify[n].pc = "updateBlobEntry"
        /\ blob_copy' = MP!updateBlobEntry(blob_copy, notify[n].hash, notify[n].worker,
                                           notify[n].size)
        /\ UNCHANGED <<alloc, locate, register, deletion>>
    BY <1>4 DEF MP!UpdateBlobEntry
  <2>3. UNCHANGED <<disks, frontends, boots>>
    BY <1>4, StepOfOneSide DEF masters
  <2>4. ASSUME NEW h \in Hashes, NEW w \in Workers
        PROVE  Saved(h, w)' <=>
                 Saved(h, w) \/ (h = notify[n].hash /\ w = notify[n].worker)
    BY <1>1, <2>1, <2>2 DEF MP!updateBlobEntry, MP!BlobCopyTable, MP!SAVED
  <2> QED
    BY <2>2, <2>3, <2>4
<1>5. ASSUME NEW r \in Boots, MP!DropCopies(r), NEW h \in Hashes, NEW w \in Workers,
             ~Disturbed(h, w)'
      PROVE  Saved(h, w)' <=> Saved(h, w)
  <2>1. register[r].worker # w
    BY <1>1, <1>5, RequestsStay DEF MP!DropCopies, Frame, Causes, Disturbed, Died
  <2> QED
    BY <1>1, <1>5, <2>1 DEF MP!DropCopies, MP!deleteBlobEntriesByWorkerAddress, MP!BlobCopyTable
<1>6. ASSUME NEW d \in Removals, MP!DeleteEntries(d), NEW h \in Hashes, NEW w \in Workers,
             ~Disturbed(h, w)'
      PROVE  Saved(h, w)' <=> Saved(h, w)
  <2>1. deletion[d].hash # h
    BY <1>1, <1>6, RequestsStay DEF MP!DeleteEntries, Disturbed, Deleted
  <2> QED
    BY <1>1, <1>6, <2>1 DEF MP!DeleteEntries, MP!deleteBlobEntryByHash, MP!BlobCopyTable
<1>7. CASE UNCHANGED masters
  BY <1>2, <1>7 DEF masters
<1>8. CASE MP!Next
  <2>1. CASE \E u \in Uploads, v \in Workers : MP!AddBlobEntry(u, v)
    BY <1>3, <2>1
  <2>2. CASE \E n \in Saves : MP!UpdateBlobEntry(n)
    BY <1>2, <1>4, <2>2
  <2>3. CASE \E r \in Boots : MP!DropCopies(r)
    BY <1>5, <2>3
  <2>4. CASE \E d \in Removals : MP!DeleteEntries(d)
    BY <1>6, <2>4
  <2> QED
    BY <1>2, <1>8, <2>1, <2>2, <2>3, <2>4, MP!Frames, ReplicasAssumption,
       FaultsAssumption
<1> QED
  BY <1>7, <1>8, MasterSteps

\* A blob is deleted from the moment a master has begun to, a worker has restarted
\* from its death on, and a copy is torn from the write that falls short: one of them
\* at a time.
LEMMA DisturbedBy ==
  ASSUME Frame, Next
  PROVE  \/ UNCHANGED <<deleted, restarted, torn>>
         \/ \E d \in Removals : /\ StartRemoval(d)
                                /\ deleted' = deleted \cup {deletion[d].hash}
                                /\ UNCHANGED <<restarted, torn>>
         \/ \E w \in Workers, r \in Boots : /\ Crash(w, r) \/ Retry(w, r)
                                            /\ restarted' = restarted \cup {w}
                                            /\ UNCHANGED <<deleted, torn>>
         \/ \E u \in Uploads, w \in Workers : /\ UNCHANGED blob_copy
                                             /\ torn' = torn \cup {<<alloc[u].hash, w>>}
                                             /\ UNCHANGED <<deleted, restarted>>
<1> USE DEF Frame, deleted, restarted, Deleted, Died
<1>1. Types /\ deletion \in [Removals -> MP!DeleteCall]
  BY DEF Types, MP!TypeOK
<1>2. /\ \A d \in Removals : deletion'[d].hash = deletion[d].hash
      /\ \A r \in Boots : register'[r].worker = register[r].worker
  BY <1>1, RequestsStay
<1>3. ASSUME NEW d \in Removals, StartRemoval(d)
      PROVE  deleted' = deleted \cup {deletion[d].hash}
  <2>1. \A e \in Removals :
          deletion'[e].pc # "idle" <=> deletion[e].pc # "idle" \/ e = d
    BY <1>1, <1>3 DEF StartRemoval, Master!DeleteBlob, MP!DeleteCall
  <2>2. deletion[d].hash \in Hashes
    BY <1>1 DEF MP!DeleteCall
  <2> QED
    BY <1>2, <2>1, <2>2
<1>4. ASSUME \/ \E d \in Removals : EndRemoval(d) \/ Master!DeleteFails(d)
             \/ \E d \in Removals, w \in Workers : AskedWorker(d, w)
      PROVE  deleted' = deleted
  <2>1. \A e \in Removals : deletion'[e].pc # "idle" <=> deletion[e].pc # "idle"
    <3>1. ASSUME NEW d \in Removals, EndRemoval(d)
          PROVE  \A e \in Removals : deletion'[e].pc # "idle" <=> deletion[e].pc # "idle"
      <4>1. PICK status \in {"ok", "error"} :
              deletion' = [deletion EXCEPT ![d].pc = status, ![d].erased = TRUE]
        BY <3>1 DEF EndRemoval, Master!DeleteEntries, Master!Answers, Master!Final
      <4>2. deletion[d].pc # "idle"
        BY <3>1 DEF EndRemoval, Master!DeleteEntries
      <4> QED
        BY <1>1, <4>1, <4>2 DEF MP!DeleteCall
    <3>2. ASSUME NEW d \in Removals, Master!DeleteFails(d)
          PROVE  \A e \in Removals : deletion'[e].pc # "idle" <=> deletion[e].pc # "idle"
      BY <1>1, <3>2 DEF Master!DeleteFails, MP!DeleteCall
    <3>3. ASSUME NEW d \in Removals, NEW w \in Workers, AskedWorker(d, w)
          PROVE  \A e \in Removals : deletion'[e].pc # "idle" <=> deletion[e].pc # "idle"
      BY <1>1, <3>3 DEF AskedWorker, Master!AskWorker, MP!DeleteCall
    <3> QED
      BY <1>4, <3>1, <3>2, <3>3
  <2> QED
    BY <1>2, <2>1
<1>5. ASSUME NEW w \in Workers, NEW r \in Boots, Crash(w, r) \/ Retry(w, r)
      PROVE  restarted' = restarted \cup {w}
  <2>1. sent' = sent \cup {r} /\ register[r].worker = w
    BY <1>5 DEF Crash, Retry, Unsent, Send
  <2> QED
    BY <1>1, <1>2, <2>1 DEF Types
<1>6. ASSUME UNCHANGED sent
      PROVE  restarted' = restarted
  BY <1>1, <1>2, <1>6 DEF Types
<1>7. /\ \A u \in Uploads : alloc'[u].hash = alloc[u].hash /\ alloc[u].hash \in Hashes
      /\ save \in [Saves -> Worker!SaveCall]
      /\ \A u \in Uploads, w \in Workers : <<u, w>> \in Saves
  BY <1>1, TypesGive, MasterSteps, MP!ArgumentsKept, ReplicasAssumption, FaultsAssumption
  DEF Types, masters, MP!TypeOK, MP!AllocCall, Worker!TypeOK, Saves
<1>8. ASSUME \A s \in Saves : save'[s].short = save[s].short
      PROVE  torn' = torn
  BY <1>7, <1>8 DEF torn, Torn
<1>9. ASSUME NEW u \in Uploads, NEW w \in Workers, Worker!ReceiveChunkShort(<<u, w>>)
      PROVE  torn' = torn \cup {<<alloc[u].hash, w>>}
  <2>1. \A x \in Uploads, v \in Workers :
          save'[<<x, v>>].short <=> save[<<x, v>>].short \/ (x = u /\ v = w)
    BY <1>7, <1>9 DEF Worker!ReceiveChunkShort, Worker!SaveCall
  <2>2. \A h \in Hashes, v \in Workers :
          Torn(h, v)' <=> Torn(h, v) \/ (h = alloc[u].hash /\ v = w)
    BY <1>7, <2>1 DEF Torn
  <2> QED
    BY <1>7, <2>2 DEF torn
<1>10. ASSUME UNCHANGED deletion
       PROVE  deleted' = deleted
  BY <1>10
<1>11. CASE \E d \in Removals : StartRemoval(d)
  <2>1. UNCHANGED <<save, sent>>
    BY <1>11 DEF StartRemoval, disks, boots
  <2> QED
    BY <1>3, <1>6, <1>8, <1>11, <2>1
<1>12. CASE \E w \in Workers, r \in Boots : Crash(w, r) \/ Retry(w, r)
  <2>1. UNCHANGED deletion
    BY <1>12 DEF Crash, Retry, masters
  <2>2. \A s \in Saves : save'[s].short = save[s].short
    <3>1. ASSUME NEW w \in Workers, NEW r \in Boots, Crash(w, r), NEW s \in Saves
          PROVE  save'[s].short = save[s].short
      <4>1. save'[s] \in {save[s], [save[s] EXCEPT !.pc = "error"]}
        BY <3>1 DEF Crash, Worker!Lose
      <4> QED
        BY <1>7, <4>1 DEF Worker!SaveCall
    <3>2. ASSUME NEW w \in Workers, NEW r \in Boots, Retry(w, r)
          PROVE  UNCHANGED save
      BY <3>2 DEF Retry, disks
    <3> QED
      BY <1>12, <3>1, <3>2
  <2> QED
    BY <1>5, <1>8, <1>10, <1>12, <2>1, <2>2
<1>13. ASSUME NEW u \in Uploads, NEW w \in Workers, ServeSave(u, w)
       PROVE  \/ UNCHANGED <<deleted, restarted, torn>>
              \/ /\ UNCHANGED blob_copy
                 /\ torn' = torn \cup {<<alloc[u].hash, w>>}
                 /\ UNCHANGED <<deleted, restarted>>
  <2>1. UNCHANGED <<blob_copy, deletion, sent>>
    BY <1>13 DEF ServeSave, masters, boots
  <2>2. deleted' = deleted /\ restarted' = restarted
    BY <1>6, <1>10, <2>1
  <2>3. CASE Worker!ReceiveChunkShort(<<u, w>>)
    BY <1>9, <2>1, <2>2, <2>3
  <2>4. CASE \/ Worker!ReceiveChunk(<<u, w>>) \/ Worker!ReceiveChunkFails(<<u, w>>)
             \/ Worker!AcceptStream(<<u, w>>) \/ Worker!RejectStream(<<u, w>>)
    <3>1. \A s \in Saves : save'[s].short = save[s].short
      <4>1. ASSUME NEW s \in Saves,
                   \/ Worker!ReceiveChunk(<<u, w>>)
                   \/ \E pc \in {"notifying", "error"} :
                        save' = [save EXCEPT ![<<u, w>>].pc = pc]
            PROVE  save'[s].short = save[s].short
        BY <1>7, <4>1, SMTT(30) DEF Worker!ReceiveChunk, Worker!SaveCall
      <4>2. \/ Worker!ReceiveChunk(<<u, w>>)
            \/ \E pc \in {"notifying", "error"} : save' = [save EXCEPT ![<<u, w>>].pc = pc]
        BY <2>4 DEF Worker!ReceiveChunkFails, Worker!AcceptStream, Worker!RejectStream
      <4> QED
        BY <4>1, <4>2
    <3> QED
      BY <1>8, <2>2, <3>1
  <2> QED
    BY <1>13, <2>3, <2>4 DEF ServeSave
<1>14. CASE /\ ~\E d \in Removals : StartRemoval(d)
            /\ ~\E w \in Workers, r \in Boots : Crash(w, r) \/ Retry(w, r)
            /\ ~\E u \in Uploads, w \in Workers : ServeSave(u, w)
  <2>1. deleted' = deleted
    BY <1>4, <1>10, <1>14, StoreFrames DEF Moves
  <2>2. UNCHANGED sent
    BY <1>14, StoreFrames DEF Moves, boots, Serve
  <2>3. \A s \in Saves : save'[s].short = save[s].short
    <3>1. ASSUME NEW u \in Uploads, NEW w \in Workers, OpenSave(u, w) \/ NotifyAnswered(u, w)
          PROVE  \A s \in Saves : save'[s].short = save[s].short
      <4>1. PICK pc \in {"receiving"} \cup Final : save' = [save EXCEPT ![<<u, w>>].pc = pc]
        BY <3>1 DEF OpenSave, Worker!SaveBlob, NotifyAnswered, Worker!MasterAnswers,
           Worker!Final, Final
      <4> QED
        BY <1>7, <4>1 DEF Worker!SaveCall
    <3> QED
      BY <1>14, <3>1, StoreFrames DEF Moves
  <2> QED
    BY <1>6, <1>8, <2>1, <2>2, <2>3
<1> QED
  BY <1>11, <1>12, <1>13, <1>14

\* An upload whose status alone has changed.
LEMMA PutOf ==
  ASSUME NEW u \in Uploads,
         \A v \in Uploads : alloc'[v].hash = alloc[v].hash,
         \A v \in Uploads : v # u => upload'[v].pc = upload[v].pc
  PROVE  put' = [put EXCEPT ![u].pc = PutStatus(u)']
BY DEF put, PutStatus

\* An upload begins, or ends: what is between is one state of the abstract store.
LEMMA PutFate ==
  ASSUME Frame, Next
  PROVE  \/ put' = put
         \/ \E u \in Uploads :
              /\ UNCHANGED <<masters, disks, fetch, boots>>
              /\ put' = [put EXCEPT ![u].pc = PutStatus(u)']
              /\ \/ upload[u].pc = "idle" /\ upload'[u].pc \in {"allocating", "error"}
                 \/ upload[u].pc \in {"allocating", "sending"} /\ upload'[u].pc \in Final
<1>1. Types /\ upload \in [Uploads -> UploadCall]
  BY DEF Frame, Types
<1>2. \A v \in Uploads : alloc'[v].hash = alloc[v].hash
  BY <1>1, MasterSteps, MP!ArgumentsKept, ReplicasAssumption, FaultsAssumption DEF Types, masters
<1>3. ASSUME \A v \in Uploads : PutStatus(v)' = PutStatus(v)
      PROVE  put' = put
  BY <1>2, <1>3 DEF put
<1>4. ASSUME NEW u \in Uploads, NEW w,
             \/ ReceiveBlob(u) \/ TakeWorkers(u) \/ OpenSave(u, w)
             \/ OpenSaveFails(u, w) \/ SaveAnswered(u, w) \/ StreamBreaks(u, w)
      PROVE  /\ \A v \in Uploads : v # u => upload'[v] = upload[v]
             /\ OpenSave(u, w) => upload[u].pc = "sending" /\ upload'[u].pc = "sending"
             /\ ~OpenSave(u, w) =>
                  /\ UNCHANGED <<masters, disks, fetch, boots>>
                  /\ \/ upload[u].pc = "idle" /\ upload'[u].pc \in {"allocating", "error"}
                     \/ upload[u].pc = "allocating" /\ upload'[u].pc \in {"sending", "error"}
                     \/ upload[u].pc = "sending" /\ upload'[u].pc \in {"sending"} \cup Final
  BY <1>1, <1>4 DEF ReceiveBlob, TakeWorkers, OpenSave, OpenSaveFails, SaveAnswered,
     StreamBreaks, Streaming, UploadCall, Final
<1>5. CASE UNCHANGED upload
  BY <1>3, <1>5 DEF PutStatus
<1>6. ASSUME NEW u \in Uploads, \A v \in Uploads : v # u => upload'[v] = upload[v],
             \/ upload[u].pc = "sending" /\ upload'[u].pc = "sending"
             \/ upload[u].pc = "allocating" /\ upload'[u].pc = "sending"
      PROVE  put' = put
  BY <1>3, <1>6 DEF PutStatus
<1>7. ASSUME NEW u \in Uploads, \A v \in Uploads : v # u => upload'[v] = upload[v],
             UNCHANGED <<masters, disks, fetch, boots>>,
             \/ upload[u].pc = "idle" /\ upload'[u].pc \in {"allocating", "error"}
             \/ upload[u].pc \in {"allocating", "sending"} /\ upload'[u].pc \in Final
      PROVE  \E x \in Uploads :
               /\ UNCHANGED <<masters, disks, fetch, boots>>
               /\ put' = [put EXCEPT ![x].pc = PutStatus(x)']
               /\ \/ upload[x].pc = "idle" /\ upload'[x].pc \in {"allocating", "error"}
                  \/ upload[x].pc \in {"allocating", "sending"} /\ upload'[x].pc \in Final
  <2>1. put' = [put EXCEPT ![u].pc = PutStatus(u)']
    BY <1>2, <1>7, PutOf
  <2> QED
    BY <1>7, <2>1
<1>8. ASSUME NEW u \in Uploads, NEW w,
             \/ ReceiveBlob(u) \/ TakeWorkers(u) \/ OpenSave(u, w)
             \/ OpenSaveFails(u, w) \/ SaveAnswered(u, w) \/ StreamBreaks(u, w)
      PROVE  \/ put' = put
             \/ \E x \in Uploads :
                  /\ UNCHANGED <<masters, disks, fetch, boots>>
                  /\ put' = [put EXCEPT ![x].pc = PutStatus(x)']
                  /\ \/ upload[x].pc = "idle" /\ upload'[x].pc \in {"allocating", "error"}
                     \/ upload[x].pc \in {"allocating", "sending"} /\ upload'[x].pc \in Final
  BY <1>4, <1>6, <1>7, <1>8 DEF Final
<1> QED
  BY <1>5, <1>8, StoreFrames DEF Moves

\* A master names a holder that is SAVED.
LEMMA NamedIsSaved ==
  ASSUME Types, Next, NEW g \in Fetches, NEW w \in locate'[g].chosen, w \notin locate[g].chosen
  PROVE  w \in Workers /\ Saved(locate[g].hash, w)
<1>1. locate \in [Fetches -> MP!LocateCall]
  BY DEF Types, MP!TypeOK
<1>2. ASSUME NEW e \in Fetches, LocateBlob(e) \/ Master!LocateFails(e)
      PROVE  w \in Workers /\ Saved(locate[g].hash, w)
  BY <1>1, <1>2 DEF LocateBlob, Master!LocateStep, Master!GetWorkerWithBlob,
     Master!AnswerLocate, Master!LocateFails, Master!querySavedBlobByHash, Saved, MP!LocateCall
<1> QED
  BY <1>2, StoreFrames DEF Moves

\* A fetch begins, or ends: its answer is taken for what has come by then.
LEMMA GotFate ==
  ASSUME ReadInv, ReadSoFar, Next
  PROVE  \/ got' = got
         \/ \E g \in Fetches :
              /\ UNCHANGED <<masters, disks, upload, boots>>
              /\ got' = [got EXCEPT ![g].pc = GotStatus(g)']
              /\ \/ fetch[g].pc = "idle" /\ fetch'[g].pc \in {"reading", "error"}
                 \/ fetch[g].pc = "reading" /\ fetch'[g].pc \in {"cut", "error"}
                 \/ /\ fetch[g].pc = "reading" /\ fetch'[g].pc = "ok"
                    /\ \E w \in Workers : w \in locate[g].chosen
<1>1. Types /\ fetch \in [Fetches -> FetchCall]
  BY DEF ReadInv, Frame, Types
<1>2. \A g \in Fetches : locate'[g].hash = locate[g].hash
  BY <1>1, LocateFate
<1>3. ASSUME NEW g \in Fetches, fetch[g].pc = "ok"
      PROVE  Relayed(g)' = Relayed(g) /\ Unread(g)' = Unread(g)
  <2>1. locate[g].chosen \subseteq Workers
    BY <1>1 DEF Types, MP!TypeOK, MP!LocateCall
  <2>2. \A w \in Workers : locate'[g] = locate[g]
    BY <1>1, <1>3, LocateFate DEF ReadSoFar, ReadingOrder, Final
  <2>3. \A w \in locate[g].chosen : /\ get'[<<g, w>>].sent = get[<<g, w>>].sent
                                     /\ get'[<<g, w>>].unread = get[<<g, w>>].unread
    BY <1>1, <1>3, <2>1, RelayedForGood DEF ReadSoFar, ReadingOrder
  <2>4. locate'[g].chosen = locate[g].chosen
    <3>1. CASE Workers = {}
      BY <1>1, <2>1, <3>1, NamedIsSaved
    <3>2. CASE Workers # {}
      BY <2>2, <3>2
    <3> QED
      BY <3>1, <3>2
  <2> QED
    BY <1>2, <2>3, <2>4 DEF Relayed, Unread, Worker!Content, Worker!Prefix
<1>4. ASSUME UNCHANGED fetch
      PROVE  got' = got
  <2>1. \A g \in Fetches : GotStatus(g)' = GotStatus(g)
    BY <1>3, <1>4 DEF GotStatus
  <2> QED
    BY <1>2, <2>1 DEF got
<1>5. ASSUME NEW g \in Fetches, NEW w,
             StartFetch(g) \/ FetchBreaks(g) \/ (w \in Workers /\ EndFetch(g, w))
      PROVE  /\ UNCHANGED <<masters, disks, upload, boots>>
             /\ \A f \in Fetches : f # g => fetch'[f].pc = fetch[f].pc
             /\ \/ fetch[g].pc = "idle" /\ fetch'[g].pc \in {"reading", "error"}
                \/ fetch[g].pc = "reading" /\ fetch'[g].pc \in {"cut", "error"}
                \/ /\ fetch[g].pc = "reading" /\ fetch'[g].pc = "ok"
                   /\ \E v \in Workers : v \in locate[g].chosen
  BY <1>1, <1>5 DEF StartFetch, FetchBreaks, EndFetch, FetchCall
<1>6. ASSUME NEW g \in Fetches, UNCHANGED <<masters, disks>>,
             \A f \in Fetches : f # g => fetch'[f].pc = fetch[f].pc
      PROVE  got' = [got EXCEPT ![g].pc = GotStatus(g)']
  <2>1. UNCHANGED <<locate, get>>
    BY <1>6 DEF masters, disks
  <2>2. \A f \in Fetches : Relayed(f)' = Relayed(f) /\ Unread(f)' = Unread(f)
    BY <2>1 DEF Relayed, Unread, Worker!Content, Worker!Prefix
  <2>3. \A f \in Fetches : f # g => GotStatus(f)' = GotStatus(f)
    BY <1>6, <2>2 DEF GotStatus
  <2> QED
    BY <1>2, <2>3 DEF got
<1> QED
  BY <1>4, <1>5, <1>6, StoreFrames DEF Moves

\* Nothing is placed, and no holder named, but of a blob some frontend was given.
GivenFirst ==
  /\ \A u \in Uploads : alloc[u].pc # "idle" => upload[u].pc # "idle"
  /\ \A g \in Fetches : \A w \in locate[g].chosen :
       \E u \in Uploads : alloc[u].hash = locate[g].hash /\ upload[u].pc # "idle"

\* A notification is about an upload that was given.
LEMMA NotifiedWasGiven ==
  ASSUME SaveOrder, SentWherePlaced, GivenFirst, NEW u \in Uploads, NEW w \in Workers,
         notify[<<u, w>>].pc # "idle"
  PROVE  upload[u].pc # "idle"
<1>1. <<u, w>> \in Saves
  BY DEF Saves
<1> QED
  BY <1>1 DEF SaveOrder, SentWherePlaced, GivenFirst, Final

\* An upload that has come to a frontend has come for good.
LEMMA GivenStays ==
  ASSUME Frame, Next, NEW u \in Uploads, upload[u].pc # "idle"
  PROVE  upload'[u].pc # "idle"
<1>1. put[u].pc # "idle" /\ upload \in [Uploads -> UploadCall]
  BY DEF put, PutStatus, Frame, Types, UploadCall
<1>2. put' = put => upload'[u].pc # "idle"
  BY <1>1 DEF put, PutStatus
<1>3. ASSUME NEW x \in Uploads, put' = [put EXCEPT ![x].pc = PutStatus(x)'],
             upload'[x].pc # "idle"
      PROVE  upload'[u].pc # "idle"
  BY <1>1, <1>3 DEF put, PutStatus
<1> QED
  BY <1>2, <1>3, PutFate DEF Final

\* An allocation begins for an upload that has come.
LEMMA AllocBegins ==
  ASSUME Types, Next, NEW u \in Uploads, alloc[u].pc = "idle", alloc'[u].pc # "idle"
  PROVE  upload[u].pc # "idle"
<1>1. alloc \in [Uploads -> MP!AllocCall]
  BY DEF Types, MP!TypeOK
<1>2. ASSUME NEW v \in Uploads, AskMaster(v)
      PROVE  upload[u].pc # "idle"
  <2>1. CASE v = u
    BY <1>2, <2>1 DEF AskMaster
  <2>2. CASE v # u
    BY <1>1, <1>2, <2>2 DEF AskMaster, Master!AllocStep, Master!GetWorkersToSaveBlob,
       Master!AddBlobEntry, Master!LockSpace, Master!ReturnAlloc
  <2> QED
    BY <2>1, <2>2
<1>3. ASSUME NEW v \in Uploads, Master!AllocFails(v)
      PROVE  FALSE
  BY <1>1, <1>3 DEF Master!AllocFails, Master!ReturnAlloc
<1> QED
  BY <1>2, <1>3, StoreFrames DEF Moves

LEMMA GivenStep ==
  ASSUME Frame, SaveOrder, SentWherePlaced, SavedByNotify, GivenFirst, Next
  PROVE  GivenFirst'
<1>1. Types
  BY DEF Frame
<1>2. \A u \in Uploads : alloc'[u].hash = alloc[u].hash
  BY <1>1, MasterSteps, MP!ArgumentsKept, ReplicasAssumption, FaultsAssumption DEF Types, masters
<1>3. ASSUME NEW u \in Uploads, alloc'[u].pc # "idle"
      PROVE  upload'[u].pc # "idle"
  <2>1. alloc[u].pc # "idle" \/ upload[u].pc # "idle"
    BY <1>1, <1>3, AllocBegins
  <2> QED
    BY <2>1, GivenStays DEF GivenFirst
<1>4. ASSUME NEW g \in Fetches, NEW w \in locate'[g].chosen
      PROVE  \E u \in Uploads : alloc'[u].hash = locate'[g].hash /\ upload'[u].pc # "idle"
  <2>1. \E u \in Uploads : alloc[u].hash = locate[g].hash /\ upload[u].pc # "idle"
    <3>1. CASE w \in locate[g].chosen
      BY <3>1 DEF GivenFirst
    <3>2. CASE w \notin locate[g].chosen
      <4>1. w \in Workers /\ Saved(locate[g].hash, w)
        BY <1>1, <1>4, <3>2, NamedIsSaved
      <4>2. locate[g].hash \in Hashes
        BY <1>1 DEF Types, MP!TypeOK, MP!LocateCall
      <4> QED
        BY <4>1, <4>2, NotifiedWasGiven DEF SavedByNotify
    <3> QED
      BY <3>1, <3>2
  <2> QED
    BY <1>1, <1>2, <2>1, GivenStays, LocateFate
<1> QED
  BY <1>3, <1>4 DEF GivenFirst

\* What the store keeps is what the masters announce and nothing has disturbed.
KeptIsSaved ==
  \A h \in Hashes, w \in Workers : <<h, w>> \in kept <=> Saved(h, w) /\ ~Disturbed(h, w)

InDoubtIsDisturbed ==
  \A h \in Hashes, w \in Workers : Disturbed(h, w) <=> Durable!InDoubt(h, w)

LEMMA KeptTaken == UndisturbedCopyIsWhole => KeptIsSaved /\ InDoubtIsDisturbed
BY DEF UndisturbedCopyIsWhole, KeptIsSaved, InDoubtIsDisturbed, kept, deleted, restarted,
   torn, Disturbed, Durable!InDoubt

\* The invariants the refinement rests on.
StoreInv ==
  /\ ReadInv /\ ReadSoFar
  /\ SaveOrder /\ SavedByNotify /\ SentWherePlaced /\ GivenFirst
  /\ KeptIsSaved /\ InDoubtIsDisturbed

\* A frontend that does not move leaves uploads and downloads as they are.
LEMMA CallsStay ==
  ASSUME ReadInv, ReadSoFar, Next
  PROVE  /\ UNCHANGED upload => put' = put
         /\ UNCHANGED fetch => got' = got
BY PutFate, GotFate DEF ReadInv, Final

\* A notification keeps a copy; a deletion, a death and a short write lose those of
\* their blob or worker; nothing else is seen of the masters and the workers.
LEMMA CopiesImplemented ==
  ASSUME StoreInv, KeptIsSaved', InDoubtIsDisturbed', Next, UNCHANGED <<put, got>>
  PROVE  Durable!Next \/ UNCHANGED Durable!vars
<1>1. Frame /\ Types
  BY DEF StoreInv, ReadInv, Frame
<1>2. kept \subseteq Hashes \X Workers /\ kept' \subseteq Hashes \X Workers
  BY DEF kept
<1>3. ASSUME NEW d \in Removals, StartRemoval(d), deleted' = deleted \cup {deletion[d].hash},
             UNCHANGED <<restarted, torn>>
      PROVE  Durable!Next
  <2> DEFINE h == deletion[d].hash
  <2>1. h \in Hashes
    BY <1>1 DEF Types, MP!TypeOK, MP!DeleteCall
  <2>2. UNCHANGED blob_copy
    BY <1>3 DEF StartRemoval, Master!DeleteBlob, Master!tables
  <2>4. ASSUME NEW x \in Hashes, NEW w \in Workers
        PROVE  <<x, w>> \in kept' <=> <<x, w>> \in kept \ ({h} \X Workers)
    BY <1>3, <2>2
    DEF StoreInv, KeptIsSaved, InDoubtIsDisturbed, Durable!InDoubt, Saved
  <2>5. kept' = kept \ ({h} \X Workers)
    BY <1>2, <2>4
  <2>6. Durable!Delete(h)
    BY <1>3, <2>5 DEF Durable!Delete
  <2> QED
    BY <2>1, <2>6 DEF Durable!Next
<1>4. ASSUME NEW w \in Workers, NEW r \in Boots, Crash(w, r) \/ Retry(w, r),
             restarted' = restarted \cup {w}, UNCHANGED <<deleted, torn>>
      PROVE  Durable!Next
  <2>2. UNCHANGED blob_copy
    BY <1>4 DEF Crash, Retry, masters
  <2>3. ASSUME NEW x \in Hashes, NEW v \in Workers
        PROVE  <<x, v>> \in kept' <=> <<x, v>> \in kept \ (Hashes \X {w})
    BY <1>4, <2>2
    DEF StoreInv, KeptIsSaved, InDoubtIsDisturbed, Durable!InDoubt, Saved
  <2>4. kept' = kept \ (Hashes \X {w})
    BY <1>2, <2>3
  <2>5. Durable!Restart(w)
    BY <1>4, <2>4 DEF Durable!Restart
  <2> QED
    BY <2>5 DEF Durable!Next
<1>8. ASSUME NEW u \in Uploads, NEW w \in Workers, UNCHANGED blob_copy,
             torn' = torn \cup {<<alloc[u].hash, w>>}, UNCHANGED <<deleted, restarted>>
      PROVE  Durable!Next
  <2> DEFINE h == alloc[u].hash
  <2>1. h \in Hashes
    BY <1>1 DEF Types, MP!TypeOK, MP!AllocCall
  <2>2. ASSUME NEW x \in Hashes, NEW v \in Workers
        PROVE  <<x, v>> \in kept' <=> <<x, v>> \in kept \ {<<h, w>>}
    BY <1>8 DEF StoreInv, KeptIsSaved, InDoubtIsDisturbed, Durable!InDoubt, Saved
  <2>3. kept' = kept \ {<<h, w>>}
    BY <1>2, <2>2
  <2>4. Durable!Tear(h, w)
    BY <1>8, <2>3 DEF Durable!Tear
  <2> QED
    BY <2>1, <2>4 DEF Durable!Next
<1>5. ASSUME UNCHANGED <<deleted, restarted, torn>>,
             \A h \in Hashes, w \in Workers : ~Disturbed(h, w)' => (Saved(h, w)' <=> Saved(h, w))
      PROVE  UNCHANGED Durable!vars
  <2>1. \A h \in Hashes, w \in Workers : <<h, w>> \in kept' <=> <<h, w>> \in kept
    BY <1>5 DEF StoreInv, KeptIsSaved, InDoubtIsDisturbed, Durable!InDoubt
  <2>2. kept' = kept
    BY <1>2, <2>1
  <2> QED
    BY <1>5, <2>2 DEF Durable!vars
<1>6. ASSUME UNCHANGED <<deleted, restarted, torn>>,
             NEW n \in Saves,
             notify[n].pc # "idle",
             \A h \in Hashes, w \in Workers :
               Saved(h, w)' <=> Saved(h, w) \/ (h = notify[n].hash /\ w = notify[n].worker)
      PROVE  Durable!Next \/ UNCHANGED Durable!vars
  <2>1. PICK u \in Uploads, w \in Workers : n = <<u, w>>
    BY DEF Saves
  <2> DEFINE h == alloc[u].hash
  <2>2. notify[n].hash = h /\ notify[n].worker = w /\ h \in Hashes
    BY <1>1, <2>1 DEF Frame, Arguments, Types, MP!TypeOK, MP!AllocCall
  <2>3. CASE Disturbed(h, w)
    BY <1>5, <1>6, <2>2, <2>3 DEF StoreInv, InDoubtIsDisturbed, Durable!InDoubt
  <2>4. CASE ~Disturbed(h, w)
    <3>1. \A x \in Hashes, v \in Workers :
            <<x, v>> \in kept' <=> <<x, v>> \in kept \cup {<<h, w>>}
      <4>1. \A x \in Hashes, v \in Workers : Disturbed(x, v)' <=> Disturbed(x, v)
        BY <1>6 DEF StoreInv, InDoubtIsDisturbed, Durable!InDoubt
      <4>2. \A x \in Hashes, v \in Workers :
              /\ <<x, v>> \in kept <=> Saved(x, v) /\ ~Disturbed(x, v)
              /\ <<x, v>> \in kept' <=> Saved(x, v)' /\ ~Disturbed(x, v)'
        BY DEF StoreInv, KeptIsSaved
      <4> HIDE DEF h
      <4> QED
        BY <1>6, <2>2, <2>4, <4>1, <4>2
    <3>2. kept' = kept \cup {<<h, w>>}
      BY <1>2, <2>2, <3>1
    <3>3. put[u].hash = h /\ put[u].pc # "idle"
      BY <1>6, <2>1, NotifiedWasGiven DEF StoreInv, put, PutStatus
    <3>4. Durable!Keep(h, w)
      BY <1>6, <2>2, <2>4, <3>2, <3>3
      DEF StoreInv, InDoubtIsDisturbed, Durable!Keep, Durable!WasPut
    <3> QED
      BY <2>2, <3>4 DEF Durable!Next
  <2> QED
    BY <2>3, <2>4
<1>7. CASE UNCHANGED <<deleted, restarted, torn>>
  BY <1>1, <1>5, <1>6, <1>7, SavedFate
<1> QED
  BY <1>1, <1>3, <1>4, <1>7, <1>8, DisturbedBy

\* An upload is asked for, is acknowledged with all its copies, or is refused.
LEMMA PutImplemented ==
  ASSUME StoreInv, KeptIsSaved', InDoubtIsDisturbed', AcknowledgedUploadIsStored', Next,
         put' # put
  PROVE  Durable!Next
<1>1. Frame /\ Types /\ upload \in [Uploads -> UploadCall]
  BY DEF StoreInv, ReadInv, Frame, Types
<1>2. PICK u \in Uploads :
        /\ UNCHANGED <<masters, disks, fetch, boots>>
        /\ put' = [put EXCEPT ![u].pc = PutStatus(u)']
        /\ \/ upload[u].pc = "idle" /\ upload'[u].pc \in {"allocating", "error"}
           \/ upload[u].pc \in {"allocating", "sending"} /\ upload'[u].pc \in Final
  BY <1>1, PutFate
<1>3. UNCHANGED <<kept, deleted, restarted, torn, got>>
  BY <1>2, CallsStay DEF StoreInv, masters, disks, boots, kept, deleted, restarted, torn, Saved,
     Whole, Deleted, Died, Torn, Worker!Content, Worker!Prefix
<1>4. CASE upload'[u].pc = "allocating"
  <2>1. Durable!AskPut(u)
    BY <1>2, <1>3, <1>4 DEF Durable!AskPut, put, PutStatus, Final
  <2> QED
    BY <2>1 DEF Durable!Next
<1>5. CASE upload'[u].pc = "error"
  <2>1. Durable!Refuse(u)
    BY <1>2, <1>3, <1>5 DEF Durable!Refuse, put, PutStatus
  <2> QED
    BY <2>1 DEF Durable!Next
<1>6. CASE upload'[u].pc = "ok"
  <2>1. PICK h \in Hashes, ws \in SUBSET Workers : alloc[u].hash = h /\ alloc[u].placed = ws
    BY <1>1 DEF Types, MP!TypeOK, MP!AllocCall
  <2>2. alloc' = alloc
    BY <1>2 DEF masters
  <2>3. /\ Cardinality(ws) = Replicas
        /\ \A w \in ws : Saved(h, w)' \/ Deleted(h)' \/ Died(w)'
    BY <1>6, <2>1, <2>2 DEF AcknowledgedUploadIsStored
  <2>4. ASSUME NEW w \in ws
        PROVE  <<h, w>> \in kept \/ Durable!InDoubt(h, w)
    <3>1. <<h, w>> \in kept' \/ Disturbed(h, w)'
      BY <2>1, <2>3 DEF KeptIsSaved, Disturbed
    <3>2. Disturbed(h, w)' => Durable!InDoubt(h, w)'
      BY <2>1 DEF InDoubtIsDisturbed
    <3> QED
      BY <1>3, <3>1, <3>2 DEF Durable!InDoubt
  <2>5. Durable!Cardinality(ws) = Replicas
    BY <2>3 DEF Durable!Cardinality, Cardinality
  <2>6. put[u].hash = h /\ put[u].pc = "asked" /\ PutStatus(u)' = "ok"
    BY <1>2, <1>6, <2>1 DEF put, PutStatus
  <2>7. Durable!Acknowledge(u)
    BY <1>2, <1>3, <2>1, <2>4, <2>5, <2>6 DEF Durable!Acknowledge
  <2> QED
    BY <2>7 DEF Durable!Next
<1> QED
  BY <1>2, <1>4, <1>5, <1>6 DEF Final

\* A download is asked for, answered OK with the blob or, of a copy in doubt, with
\* less, or breaks, also where the file is not read to its end.
LEMMA GotImplemented ==
  ASSUME StoreInv, UndisturbedFetchIsWhole', Next, got' # got
  PROVE  Durable!Next
<1>1. Frame /\ Types
  BY DEF StoreInv, ReadInv, Frame
<1>2. PICK g \in Fetches :
        /\ UNCHANGED <<masters, disks, upload, boots>>
        /\ got' = [got EXCEPT ![g].pc = GotStatus(g)']
        /\ \/ fetch[g].pc = "idle" /\ fetch'[g].pc \in {"reading", "error"}
           \/ fetch[g].pc = "reading" /\ fetch'[g].pc \in {"cut", "error"}
           \/ /\ fetch[g].pc = "reading" /\ fetch'[g].pc = "ok"
              /\ \E w \in Workers : w \in locate[g].chosen
  BY GotFate DEF StoreInv
<1>3. UNCHANGED <<kept, deleted, restarted, torn, put>>
  BY <1>2, CallsStay DEF StoreInv, masters, disks, boots, kept, deleted, restarted, torn, Saved,
     Whole, Deleted, Died, Torn, Worker!Content, Worker!Prefix
<1>4. CASE fetch'[g].pc = "reading"
  <2>1. Durable!AskGet(g)
    BY <1>2, <1>3, <1>4 DEF Durable!AskGet, got, GotStatus
  <2> QED
    BY <2>1 DEF Durable!Next
<1>5. CASE fetch'[g].pc \in {"cut", "error"}
  <2>1. got[g].pc \in {"idle", "asked"} /\ GotStatus(g)' = fetch'[g].pc
    BY <1>2, <1>5 DEF got, GotStatus
  <2>2. fetch'[g].pc = "cut" => got[g].pc = "asked"
    BY <1>2 DEF got, GotStatus
  <2>3. Durable!Break(g)
    BY <1>2, <1>3, <1>5, <2>1, <2>2 DEF Durable!Break
  <2> QED
    BY <2>3 DEF Durable!Next
<1>6. CASE fetch'[g].pc = "ok"
  <2>1. PICK w \in Workers : w \in locate[g].chosen
    BY <1>2, <1>6
  <2> DEFINE h == locate[g].hash
  <2>2. h \in Hashes /\ got[g].hash = h /\ got[g].pc = "asked"
    BY <1>1, <1>2, <1>6 DEF Types, MP!TypeOK, MP!LocateCall, got, GotStatus
  <2>3. Durable!WasPut(h)
    <3>1. PICK u \in Uploads : alloc[u].hash = h /\ upload[u].pc # "idle"
      BY <2>1 DEF StoreInv, GivenFirst
    <3>2. put[u].hash = h /\ put[u].pc # "idle"
      BY <3>1 DEF put, PutStatus
    <3> QED
      BY <3>2 DEF Durable!WasPut
  <2>4. CASE Relayed(g)'
    <3>1. GotStatus(g)' = "whole"
      BY <1>6, <2>4 DEF GotStatus
    <3>2. <<h, w>> \in kept \/ Durable!InDoubt(h, w)
      <4>1. Saved(h, w) \/ MP!Erased(h, w)
        BY <2>1 DEF StoreInv, ReadInv, MP!ReportedCopyStaysSaved, Saved, Master!SAVED, MP!SAVED
      <4>2. Saved(h, w) \/ Disturbed(h, w)
        BY <1>1, <2>2, <4>1, ErasedIsDisturbed DEF Frame, Disturbed
      <4> QED
        BY <2>2, <4>2 DEF StoreInv, KeptIsSaved, InDoubtIsDisturbed
    <3>3. Durable!Relay(g)
      BY <1>2, <1>3, <2>2, <2>3, <3>1, <3>2 DEF Durable!Relay
    <3> QED
      BY <3>3 DEF Durable!Next
  <2>6. CASE ~Relayed(g)' /\ Unread(g)'
    <3>1. GotStatus(g)' = "cut"
      BY <1>6, <2>6 DEF GotStatus
    <3>2. Durable!Break(g)
      BY <1>2, <1>3, <2>2, <3>1 DEF Durable!Break
    <3> QED
      BY <3>2 DEF Durable!Next
  <2>5. CASE ~Relayed(g)' /\ ~Unread(g)'
    <3>1. GotStatus(g)' = "part"
      BY <1>6, <2>5 DEF GotStatus
    <3>2. locate' = locate
      BY <1>2 DEF masters
    <3>3. Deleted(h)' \/ Died(w)' \/ Torn(h, w)'
      BY <1>6, <2>1, <2>5, <3>2 DEF UndisturbedFetchIsWhole, Relayed, Unread
    <3>4. Deleted(h) \/ Died(w) \/ Torn(h, w)
      BY <1>2, <3>3 DEF Deleted, Died, Torn, masters, disks, boots
    <3>5. Durable!InDoubt(h, w)
      BY <2>2, <3>4 DEF StoreInv, InDoubtIsDisturbed, Disturbed
    <3>6. Durable!RelayPart(g)
      BY <1>2, <1>3, <2>2, <2>3, <3>1, <3>5 DEF Durable!RelayPart
    <3> QED
      BY <3>6 DEF Durable!Next
  <2> QED
    BY <2>4, <2>5, <2>6
<1> QED
  BY <1>2, <1>4, <1>5, <1>6

LEMMA StoreInvariant == Spec => []StoreInv
<1>1. Init => GivenFirst
  BY DEF Init, GivenFirst
<1>2. Frame /\ SaveOrder /\ SentWherePlaced /\ SavedByNotify /\ GivenFirst /\ [Next]_vars
        => GivenFirst'
  <2>1. CASE UNCHANGED vars
    BY <2>1 DEF GivenFirst, vars, masters, frontends
  <2> QED
    BY <2>1, GivenStep
<1>3. Spec => [](Frame /\ SaveOrder /\ SavedByNotify)
  BY CopyInvariant, PTL DEF CopyInv
<1>4. Spec => []SentWherePlaced
  BY SendingInvariant, PTL DEF SendingInv
<1>5. Spec => []GivenFirst
  BY <1>1, <1>2, <1>3, <1>4, PTL DEF Spec
<1>6. Spec => [](KeptIsSaved /\ InDoubtIsDisturbed)
  BY KeptTaken, CopiesAreWhole, PTL
<1> QED
  BY <1>3, <1>4, <1>5, <1>6, ReadInvariant, PTL DEF StoreInv

\* The system is a durable store: copies the masters announce and workers hold are
\* kept until their blob is deleted, their worker dies or a write of them falls short,
\* an upload is acknowledged with all of them, and a download answered OK is whole
\* unless a copy is in doubt or its stream broke.
THEOREM DurableImplemented == Spec => DurableSpec
<1>1. Init => Durable!Init
  <2> SUFFICES ASSUME Init PROVE Durable!Init
    OBVIOUS
  <2>1. \A h \in Hashes, w \in Workers : ~Saved(h, w)
    BY DEF Init, Master!Init, Saved, Master!NoCopy, Master!SAVED
  <2>2. \A d \in Removals : deletion[d].pc = "idle"
    BY DEF Init
  <2>3. kept = {}
    BY <2>1 DEF kept
  <2>4. deleted = {} /\ restarted = {}
    BY <2>2 DEF Init, deleted, restarted, Deleted, Died
  <2>7. torn = {}
    <3>1. \A s \in Saves : ~save[s].short
      BY DEF Init
    <3> QED
      BY <3>1 DEF torn, Torn, Saves
  <2>5. put \in [Uploads -> [hash : Hashes, pc : {"idle"}]]
    BY DEF Init, put, PutStatus
  <2>6. got \in [Fetches -> [hash : Hashes, pc : {"idle"}]]
    BY DEF Init, got, GotStatus
  <2> QED
    BY <2>3, <2>4, <2>5, <2>6, <2>7 DEF Durable!Init
<1>2. /\ StoreInv /\ StoreInv'
      /\ AcknowledgedUploadIsStored' /\ UndisturbedFetchIsWhole'
      /\ [Next]_vars
      => [Durable!Next]_(Durable!vars)
  <2> SUFFICES ASSUME StoreInv, StoreInv', AcknowledgedUploadIsStored',
                      UndisturbedFetchIsWhole', [Next]_vars
               PROVE  Durable!Next \/ UNCHANGED Durable!vars
    BY DEF Durable!vars
  <2>1. CASE UNCHANGED vars
    <3>1. UNCHANGED <<kept, deleted, restarted, torn>>
      BY <2>1 DEF vars, masters, disks, boots, kept, deleted, restarted, torn, Saved, Whole,
         Deleted, Died, Torn, Worker!Content, Worker!Prefix
    <3>2. UNCHANGED <<put, got>>
      BY <2>1 DEF vars, masters, disks, frontends, put, got, PutStatus, GotStatus, Relayed,
         Unread, Worker!Content, Worker!Prefix
    <3> QED
      BY <3>1, <3>2 DEF Durable!vars
  <2>2. CASE Next
    <3>1. KeptIsSaved' /\ InDoubtIsDisturbed'
      BY DEF StoreInv
    <3> QED
      BY <2>2, <3>1, PutImplemented, GotImplemented, CopiesImplemented
  <2> QED
    BY <2>1, <2>2
<1> QED
  BY <1>1, <1>2, StoreInvariant, AcknowledgedStored, FetchesAreWhole, PTL
  DEF Spec, DurableSpec, Durable!Spec
=============================================================================
