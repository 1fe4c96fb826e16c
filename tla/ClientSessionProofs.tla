------------------------- MODULE ClientSessionProofs --------------------------
(***************************************************************************)
(* What is proved of the client program: a session is a behaviour of the   *)
(* system (SessionIsStore), so all that is proved of the system holds in   *)
(* it; MismatchHasCause; and DeletedBlobIsGone where nothing fails.        *)
(*                                                                         *)
(* The argument: a client makes one call after the other                   *)
(* (OneAfterTheOther).  So its own deletion is no cause of a mismatch, and *)
(* when it deletes, its upload is over: if no other user has come to a     *)
(* master (Alone) nothing arrives any more, and rows and files only go.    *)
(***************************************************************************)
EXTENDS ClientSession, TLAPS

\* The theorems on the system; its definitions are those of Store under another name.
CP == INSTANCE BlobStoreCopyProofs WITH
  Uploads <- Clients, Fetches <- Clients, Removals <- Clients

-----------------------------------------------------------------------------
(* Expanded, the two specifications of the system are one formula *)

\* The system of a session starts as that of the proofs.
LEMMA SameInit == Store!Init => CP!Init
BY DEF
  Store!Init, CP!Init, Store!Worker!Init, CP!Worker!Init, Store!Master!Init, CP!Master!Init,
     Store!Saves, CP!Saves, Store!Names, CP!Names, Store!Master!NoCopy, CP!Master!NoCopy,
     Store!Master!NoWorker, CP!Master!NoWorker, Store!Master!NoRows, CP!Master!NoRows

\* Each step of it is one of that system.
LEMMA SameNext == Store!Next => CP!Next
BY DEF
  Store!Saves, CP!Saves, Store!Names, CP!Names, Store!masters, CP!masters, Store!disks,
     CP!disks, Store!frontends, CP!frontends, Store!boots, CP!boots, Store!vars, CP!vars,
     Store!Final, CP!Final, Store!UploadCall, CP!UploadCall, Store!FetchCall, CP!FetchCall,
     Store!Up, CP!Up, Store!ReceiveBlob, CP!ReceiveBlob, Store!AskMaster, CP!AskMaster,
     Store!TakeWorkers, CP!TakeWorkers, Store!OpenSave, CP!OpenSave, Store!OpenSaveFails,
     CP!OpenSaveFails, Store!Streaming, CP!Streaming, Store!SaveAnswered, CP!SaveAnswered,
     Store!StreamBreaks, CP!StreamBreaks, Store!ServeSave, CP!ServeSave, Store!ServeNotify,
     CP!ServeNotify, Store!NotifyAnswered, CP!NotifyAnswered, Store!LocateBlob,
     CP!LocateBlob, Store!StartFetch, CP!StartFetch, Store!ServeGet, CP!ServeGet,
     Store!EndFetch, CP!EndFetch, Store!FetchBreaks, CP!FetchBreaks, Store!StartRemoval,
     CP!StartRemoval, Store!ServeErase, CP!ServeErase, Store!AskedWorker, CP!AskedWorker,
     Store!EndRemoval, CP!EndRemoval, Store!Unsent, CP!Unsent, Store!Send, CP!Send,
     Store!Crash, CP!Crash, Store!ServeRegister, CP!ServeRegister, Store!Retry, CP!Retry,
     Store!Serve, CP!Serve, Store!MasterFault, CP!MasterFault, Store!UploadStep,
     CP!UploadStep, Store!FetchStep, CP!FetchStep, Store!RemovalStep, CP!RemovalStep,
     Store!Quiet, CP!Quiet, Store!Next, CP!Next, Store!Master!SAVED, CP!Master!SAVED,
     Store!Master!BlobCopyDTO, CP!Master!BlobCopyDTO, Store!Master!NoCopy, CP!Master!NoCopy,
     Store!Master!WorkerStateDTO, CP!Master!WorkerStateDTO, Store!Master!NoWorker,
     CP!Master!NoWorker, Store!Master!BlobCopyTable, CP!Master!BlobCopyTable,
     Store!Master!WorkerStateTable, CP!Master!WorkerStateTable, Store!Master!HasCopy,
     CP!Master!HasCopy, Store!Master!Registered, CP!Master!Registered,
     Store!Master!addBlobEntry, CP!Master!addBlobEntry, Store!Master!updateBlobEntry,
     CP!Master!updateBlobEntry, Store!Master!querySavedBlobByHash,
     CP!Master!querySavedBlobByHash, Store!Master!queryBlobByHashAndWorkerId,
     CP!Master!queryBlobByHashAndWorkerId, Store!Master!deleteBlobEntryByHash,
     CP!Master!deleteBlobEntryByHash, Store!Master!deleteBlobEntriesByWorkerAddress,
     CP!Master!deleteBlobEntriesByWorkerAddress, Store!Master!addWorkerState,
     CP!Master!addWorkerState, Store!Master!updateWorkerState, CP!Master!updateWorkerState,
     Store!Master!deleteWorkerState, CP!Master!deleteWorkerState,
     Store!Master!getWorkerState, CP!Master!getWorkerState, Store!Master!FreeSpace,
     CP!Master!FreeSpace, Store!Master!getWorkersWithFreeSpace,
     CP!Master!getWorkersWithFreeSpace, Store!Master!tables, CP!Master!tables,
     Store!Master!vars, CP!Master!vars, Store!Master!Final, CP!Master!Final,
     Store!Master!NoRows, CP!Master!NoRows, Store!Master!ReturnAlloc, CP!Master!ReturnAlloc,
     Store!Master!GetWorkersToSaveBlob, CP!Master!GetWorkersToSaveBlob,
     Store!Master!AddBlobEntry, CP!Master!AddBlobEntry, Store!Master!LockedRow,
     CP!Master!LockedRow, Store!Master!LockSpace, CP!Master!LockSpace,
     Store!Master!ReturnNotify, CP!Master!ReturnNotify, Store!Master!NotifyBlobSaved,
     CP!Master!NotifyBlobSaved, Store!Master!UpdateBlobEntry, CP!Master!UpdateBlobEntry,
     Store!Master!ReadWorkerState, CP!Master!ReadWorkerState, Store!Master!ChargedRow,
     CP!Master!ChargedRow, Store!Master!ChargeSpace, CP!Master!ChargeSpace,
     Store!Master!GetWorkerWithBlob, CP!Master!GetWorkerWithBlob, Store!Master!AnswerLocate,
     CP!Master!AnswerLocate, Store!Master!RegisterWorker, CP!Master!RegisterWorker,
     Store!Master!DropCopies, CP!Master!DropCopies, Store!Master!AddWorkerState,
     CP!Master!AddWorkerState, Store!Master!DeleteBlob, CP!Master!DeleteBlob,
     Store!Master!AskWorker, CP!Master!AskWorker, Store!Master!DeleteEntries,
     CP!Master!DeleteEntries, Store!Master!AllocFails, CP!Master!AllocFails,
     Store!Master!NotifyFails, CP!Master!NotifyFails, Store!Master!LocateFails,
     CP!Master!LocateFails, Store!Master!RegisterFails, CP!Master!RegisterFails,
     Store!Master!DeleteFails, CP!Master!DeleteFails, Store!Master!AllocStep,
     CP!Master!AllocStep, Store!Master!NotifyStep, CP!Master!NotifyStep,
     Store!Master!LocateStep, CP!Master!LocateStep, Store!Master!RegisterStep,
     CP!Master!RegisterStep, Store!Master!DeleteStep, CP!Master!DeleteStep,
     Store!Master!Fault, CP!Master!Fault, Store!Master!Quiet, CP!Master!Quiet,
     Store!Master!Next, CP!Master!Next, Store!Worker!vars, CP!Worker!vars,
     Store!Worker!Final, CP!Worker!Final, Store!Worker!Active, CP!Worker!Active,
     Store!Worker!Prefix, CP!Worker!Prefix, Store!Worker!Content, CP!Worker!Content,
     Store!Worker!Data, CP!Worker!Data, Store!Worker!New, CP!Worker!New,
     Store!Worker!remove, CP!Worker!remove, Store!Worker!Lose, CP!Worker!Lose,
     Store!Worker!Die, CP!Worker!Die, Store!Worker!SaveBlob, CP!Worker!SaveBlob,
     Store!Worker!ReceiveChunk, CP!Worker!ReceiveChunk, Store!Worker!ReceiveChunkShort,
     CP!Worker!ReceiveChunkShort, Store!Worker!ReceiveChunkFails,
     CP!Worker!ReceiveChunkFails, Store!Worker!HashMatches, CP!Worker!HashMatches,
     Store!Worker!AcceptStream, CP!Worker!AcceptStream, Store!Worker!RejectStream,
     CP!Worker!RejectStream, Store!Worker!EmptyStream, CP!Worker!EmptyStream,
     Store!Worker!MasterAnswers, CP!Worker!MasterAnswers, Store!Worker!GetBlob,
     CP!Worker!GetBlob, Store!Worker!OpenStream, CP!Worker!OpenStream,
     Store!Worker!Readable, CP!Worker!Readable, Store!Worker!SendChunk, CP!Worker!SendChunk,
     Store!Worker!EndOfFile, CP!Worker!EndOfFile, Store!Worker!SendFails,
     CP!Worker!SendFails, Store!Worker!DeleteBlob, CP!Worker!DeleteBlob,
     Store!Worker!RemoveFile, CP!Worker!RemoveFile, Store!Worker!Crash, CP!Worker!Crash,
     Store!Worker!SaveStep, CP!Worker!SaveStep, Store!Worker!GetStep, CP!Worker!GetStep,
     Store!Worker!DeleteStep, CP!Worker!DeleteStep, Store!Worker!ReadFails,
     CP!Worker!ReadFails, Store!Master!Answers, CP!Master!Answers, Store!Worker!Quiet,
     CP!Worker!Quiet, Store!Worker!Next, CP!Worker!Next,
     Store!Master!DURING_CREATION, CP!Master!DURING_CREATION, Store!Worker!append_chunk,
     CP!Worker!append_chunk, Store!Master!Cardinality, CP!Master!Cardinality

\* What leaves the variables of the system alone is no step of it.
LEMMA SameVars == UNCHANGED store => UNCHANGED CP!vars
BY DEF store, CP!vars, CP!masters, CP!disks, CP!frontends, CP!boots

\* A step of a session is one of the system that clients asked for, or of a client.
LEMMA SessionSteps ==
  [Next]_vars => \/ CP!Next /\ Requested /\ UNCHANGED client
                 \/ UNCHANGED store
BY SameNext DEF Next, StoreStep, vars

\* So a session is a behaviour of the system, and its theorems hold of it.
LEMMA SessionIsStore == Spec => CP!Spec
<1>1. Init => CP!Init
  BY SameInit DEF Init
<1>2. [Next]_vars => [CP!Next]_(CP!vars)
  BY SessionSteps, SameVars
<1> QED
  BY <1>1, <1>2, PTL DEF Spec, CP!Spec

-----------------------------------------------------------------------------
(* A client makes one call after the other *)

\* Its deletion is on its way, or runs, without it.
GaveUp(c) == "deleting" \in client[c].lost

\* It asks for its blob, and then for the deletion, once its upload was acknowledged.
OneAfterTheOther ==
  /\ client \in [Clients -> ClientRun]
  /\ \A c \in Clients :
       /\ client[c].pc \in {"getting", "deleting"} \/ GaveUp(c) => upload[c].pc = "ok"
       /\ GaveUp(c) => client[c].pc = "done"
       /\ deletion[c].pc # "idle" =>
            client[c].pc \in {"deleting", "done"} /\ upload[c].pc = "ok"

\* What a client does, of its own and when its connection breaks.
GoesOn(c) ==
  \/ client'[c] = client[c]
  \/ /\ client[c].pc \in {"pinging", "uploading"}
     /\ client'[c].pc \in {"pinging", "uploading"}
     /\ client'[c].outcome = client[c].outcome
     /\ GaveUp(c)' <=> GaveUp(c)
  \/ /\ client[c].pc = "uploading"
     /\ \/ client'[c].pc = "getting" /\ upload[c].pc = "ok"
        \/ client'[c].pc = "done"
     /\ client'[c].outcome = client[c].outcome
     /\ GaveUp(c)' <=> GaveUp(c)
  \/ /\ client[c].pc = "getting"
     /\ client'[c].pc = "deleting"
     /\ GaveUp(c)' <=> GaveUp(c)
     /\ client'[c].outcome = "mismatch" => \E w \in Workers : BlobRetrieved(c, w)
  \/ /\ client[c].pc = "deleting"
     /\ client'[c].pc = "done"
     /\ client'[c].outcome = client[c].outcome

LEMMA ClientMoves ==
  ASSUME client \in [Clients -> ClientRun], Next, NEW c \in Clients
  PROVE  client' \in [Clients -> ClientRun] /\ GoesOn(c)
<1> DEFINE Goal == client' \in [Clients -> ClientRun] /\ GoesOn(c)
<1> USE DEF GoesOn, GaveUp
<1>1. ASSUME NEW d \in Clients, Ping(d) PROVE Goal
  BY <1>1, PingsAssumption DEF Ping, ClientRun
<1>2. ASSUME NEW d \in Clients, UploadBlob(d) \/ UploadAnswered(d) PROVE Goal
  BY <1>2 DEF UploadBlob, UploadAnswered, ClientRun
<1>3. ASSUME NEW d \in Clients, NEW w \in Workers, BlobRetrieved(d, w) PROVE Goal
  <2>1. PICK outcome \in {"match", "mismatch"} : Compared(d, outcome)
    BY <1>3 DEF BlobRetrieved
  <2>2. client[d].pc = "getting"
    BY <1>3 DEF BlobRetrieved
  <2>3. client' \in [Clients -> ClientRun]
    BY <2>1, ZenonT(60) DEF Compared, ClientRun
  <2>4. CASE d # c
    BY <2>1, <2>3, <2>4 DEF Compared
  <2>5. CASE d = c
    <3>1. client'[c].pc = "deleting" /\ client'[c].lost = client[c].lost
      BY <2>1, <2>5 DEF Compared, ClientRun
    <3> QED
      BY <1>3, <2>2, <2>3, <2>5, <3>1
  <2> QED
    BY <2>4, <2>5
<1>4. ASSUME NEW d \in Clients, RetrievalFails(d) \/ DeleteAnswered(d) PROVE Goal
  BY <1>4 DEF RetrievalFails, DeleteAnswered, Compared, ClientRun
<1>5. ASSUME NEW d \in Clients, ConnectionBreaks(d) PROVE Goal
  BY <1>5 DEF ConnectionBreaks, Compared, ClientRun
<1>6. CASE UNCHANGED client
  BY <1>6
<1> QED
  BY <1>1, <1>2, <1>3, <1>4, <1>5, <1>6 DEF Next, ClientStep, StoreStep, vars

LEMMA OneAfterTheOtherStep ==
  ASSUME OneAfterTheOther, CP!Types, Next
  PROVE  OneAfterTheOther'
<1>1. client' \in [Clients -> ClientRun]
  <2>1. CASE Clients = {}
    BY <2>1, SessionSteps DEF OneAfterTheOther, Next, StoreStep, vars
  <2> QED
    BY <2>1, ClientMoves DEF OneAfterTheOther
<1> SUFFICES ASSUME NEW c \in Clients
             PROVE  /\ client'[c].pc \in {"getting", "deleting"} \/ GaveUp(c)' =>
                         upload'[c].pc = "ok"
                    /\ GaveUp(c)' => client'[c].pc = "done"
                    /\ deletion'[c].pc # "idle" =>
                         client'[c].pc \in {"deleting", "done"} /\ upload'[c].pc = "ok"
  BY <1>1 DEF OneAfterTheOther
<1>2. CASE CP!Next /\ Requested /\ UNCHANGED client
  <2>1. upload[c].pc = "ok" => upload'[c].pc = "ok"
    BY <1>2, CP!UploadForGood, ReplicasAssumption, ChunksAssumption, FaultsAssumption,
       DisksAssumption
    DEF CP!Final
  <2>2. deletion[c].pc = "idle" /\ deletion'[c].pc # "idle" =>
          client[c].pc = "deleting" \/ GaveUp(c)
    BY <1>2 DEF Requested, Made, GaveUp
  <2> QED
    BY <1>2, <2>1, <2>2 DEF OneAfterTheOther, GaveUp
<1>3. CASE UNCHANGED store
  <2>1. upload' = upload /\ deletion' = deletion
    BY <1>3 DEF store
  <2> QED
    BY <2>1, ClientMoves DEF OneAfterTheOther, GoesOn, GaveUp
<1> QED
  BY <1>2, <1>3, SessionSteps

LEMMA StoreInvariants == Spec => [](CP!ReadInv /\ CP!ReadSoFar /\ CP!Types)
<1>1. CP!Spec => [](CP!ReadInv /\ CP!ReadSoFar)
  BY CP!ReadInvariant, ReplicasAssumption, ChunksAssumption, FaultsAssumption,
     DisksAssumption
<1>2. CP!ReadInv => CP!Types
  BY DEF CP!ReadInv, CP!Frame
<1> QED
  BY <1>1, <1>2, SessionIsStore, PTL

LEMMA OneAfterTheOtherInvariant == Spec => []OneAfterTheOther
<1>1. Init => OneAfterTheOther
  BY PingsAssumption DEF Init, OneAfterTheOther, GaveUp, ClientRun, Store!Init,
     Store!Master!Init
<1>2. OneAfterTheOther /\ CP!Types /\ [Next]_vars => OneAfterTheOther'
  <2>1. UNCHANGED vars /\ OneAfterTheOther => OneAfterTheOther'
    BY DEF vars, store, OneAfterTheOther, GaveUp
  <2> QED
    BY <2>1, OneAfterTheOtherStep
<1> QED
  BY <1>1, <1>2, StoreInvariants, PTL DEF Spec

-----------------------------------------------------------------------------
(* MismatchHasCause *)

Cause(c) ==
  \/ \E d \in Others(c) : deletion[d].pc # "idle"
  \/ \E w \in locate[c].chosen :
       \/ Store!Died(w)
       \/ \E h \in Hashes : Store!Torn(h, w)
       \/ get[<<c, w>>].unread
  \/ fetch[c].pc = "cut"

\* A mismatch had its cause when it was found, and what caused it has not gone.
Explained ==
  \A c \in Clients : client[c].outcome = "mismatch" =>
    /\ Workers # {}
    /\ client[c].pc \in {"deleting", "done"}
    /\ fetch[c].pc \in {"ok", "cut"}
    /\ Cause(c)

\* When a client compares, its own deletion has not begun.
LEMMA ComparedWithCause ==
  ASSUME OneAfterTheOther, CP!ReadInv, CP!ReadSoFar, Next,
         NEW c \in Clients, NEW w \in Workers, BlobRetrieved(c, w),
         client'[c].outcome = "mismatch"
  PROVE  fetch[c].pc \in {"ok", "cut"} /\ Cause(c)
<1>1. /\ fetch[c].pc \in {"ok", "cut"}
      /\ w \in locate[c].chosen
      /\ deletion[c].pc = "idle"
  BY DEF BlobRetrieved, OneAfterTheOther
<1>2. CASE fetch[c].pc = "cut"
  BY <1>1, <1>2 DEF Cause
<1>3. CASE fetch[c].pc = "ok"
  <2>1. get[<<c, w>>].sent # Store!Worker!Content(get[<<c, w>>].hash)
    BY <1>3 DEF BlobRetrieved, Compared, OneAfterTheOther, ClientRun
  <2>2. get[<<c, w>>].sent # CP!Worker!Content(get[<<c, w>>].hash)
    BY <2>1 DEF Store!Worker!Content, CP!Worker!Content, Store!Worker!Prefix,
     CP!Worker!Prefix
  <2>3. \/ CP!Deleted(locate[c].hash) \/ CP!Died(w)
        \/ CP!Torn(locate[c].hash, w) \/ get[<<c, w>>].unread
    BY <1>1, <1>3, <2>2, CP!AnsweredFetch, ReplicasAssumption, ChunksAssumption,
       FaultsAssumption, DisksAssumption
  <2>4. locate[c].hash \in Hashes
    BY DEF CP!ReadInv, CP!Frame, CP!Types, CP!MP!TypeOK, CP!MP!LocateCall
  <2> QED
    BY <1>1, <2>3, <2>4 DEF CP!Deleted, CP!Died, Store!Died, CP!Torn, Store!Torn,
     Cause, Others
<1> QED
  BY <1>1, <1>2, <1>3

LEMMA CauseStays ==
  ASSUME CP!ReadInv, CP!ReadSoFar, CP!Types, CP!Next, Workers # {},
         NEW c \in Clients, fetch[c].pc \in {"ok", "cut"}, Cause(c)
  PROVE  fetch'[c].pc \in {"ok", "cut"} /\ Cause(c)'
<1>1. fetch'[c].pc = fetch[c].pc /\ locate'[c] = locate[c]
  BY CP!FetchForGood, ReplicasAssumption, ChunksAssumption, FaultsAssumption,
     DisksAssumption
<1>2. /\ \A d \in Clients : deletion[d].pc # "idle" => deletion'[d].pc # "idle"
      /\ \A r \in Boots : register'[r].worker = register[r].worker
      /\ sent \subseteq sent'
      /\ sent \subseteq Boots
  BY CP!RequestsStay, ReplicasAssumption, ChunksAssumption, FaultsAssumption,
     DisksAssumption DEF CP!Types
<1>3. \A w : Store!Died(w) => Store!Died(w)'
  BY <1>2 DEF Store!Died
<1>4. locate[c].chosen \subseteq Workers
  BY DEF CP!Types, CP!MP!TypeOK, CP!MP!LocateCall
<1>5. \A h \in Hashes, w \in Workers : Store!Torn(h, w) => Store!Torn(h, w)'
  BY CP!TornStays, ReplicasAssumption, ChunksAssumption, FaultsAssumption,
     DisksAssumption
  DEF CP!Torn, Store!Torn
<1>6. ASSUME fetch[c].pc = "ok", NEW w \in locate[c].chosen
      PROVE  get'[<<c, w>>].unread = get[<<c, w>>].unread
  <2>1. get[<<c, w>>].pc \in {"idle"} \cup CP!Final
    BY <1>4, <1>6 DEF CP!ReadSoFar, CP!ReadingOrder
  <2> QED
    BY <1>4, <1>6, <2>1, CP!RelayedForGood, ReplicasAssumption, ChunksAssumption,
       FaultsAssumption, DisksAssumption
<1> QED
  BY <1>1, <1>2, <1>3, <1>4, <1>5, <1>6 DEF Cause, Others

LEMMA ExplainedStep ==
  ASSUME Explained, OneAfterTheOther, CP!ReadInv, CP!ReadSoFar, CP!Types, Next
  PROVE  Explained'
<1> SUFFICES ASSUME NEW c \in Clients, client'[c].outcome = "mismatch"
             PROVE  /\ Workers # {}
                    /\ client'[c].pc \in {"deleting", "done"}
                    /\ fetch'[c].pc \in {"ok", "cut"}
                    /\ Cause(c)'
  BY DEF Explained
<1>1. CASE CP!Next /\ Requested /\ UNCHANGED client
  BY <1>1, CauseStays DEF Explained
<1>2. CASE UNCHANGED store
  <2>1. fetch' = fetch /\ (Cause(c) => Cause(c)')
    BY <1>2 DEF store, Cause, Store!Died, Store!Torn
  <2>2. GoesOn(c)
    BY ClientMoves DEF OneAfterTheOther
  <2>3. CASE client[c].outcome = "mismatch"
    BY <2>1, <2>2, <2>3 DEF Explained, GoesOn
  <2>4. CASE client[c].outcome # "mismatch"
    <3>1. client'[c].pc = "deleting" /\ \E w \in Workers : BlobRetrieved(c, w)
      BY <2>2, <2>4 DEF GoesOn
    <3> QED
      BY <2>1, <3>1, ComparedWithCause
  <2> QED
    BY <2>3, <2>4
<1> QED
  BY <1>1, <1>2, SessionSteps

\* Data that does not match is the work of another user's deletion, of a broken
\* stream, or of the worker it came from, by its death or its disk: the program asks
\* for its own deletion only after it has compared.
THEOREM MismatchesExplained == Spec => []MismatchHasCause
<1>1. Init => Explained
  BY DEF Init, Explained
<1>2. Explained /\ OneAfterTheOther /\ CP!ReadInv /\ CP!ReadSoFar /\ CP!Types
        /\ [Next]_vars => Explained'
  <2>1. UNCHANGED vars /\ Explained => Explained'
    BY DEF vars, store, Explained, Cause, Store!Died, Store!Torn
  <2> QED
    BY <2>1, ExplainedStep
<1>3. Explained => MismatchHasCause
  BY DEF Explained, Cause, MismatchHasCause
<1> QED
  BY <1>1, <1>2, <1>3, StoreInvariants, OneAfterTheOtherInvariant, PTL DEF Spec

-----------------------------------------------------------------------------
(* DeletedBlobIsGone *)

StoreFacts ==
  /\ CP!Frame /\ CP!FilesSent /\ CP!SendingInv
  /\ CP!AnsweredOK /\ CP!AcknowledgedUploadIsStored

LEMMA StoreFactsInvariant == Spec => []StoreFacts
<1>1. CP!Spec => []CP!Frame
  BY CP!FrameInvariant, ReplicasAssumption, ChunksAssumption, FaultsAssumption,
     DisksAssumption
<1>2. CP!Spec => []CP!FilesSent
  BY CP!FilesSentInvariant, ReplicasAssumption, ChunksAssumption, FaultsAssumption,
     DisksAssumption
<1>3. CP!Spec => []CP!SendingInv
  BY CP!SendingInvariant, ReplicasAssumption, ChunksAssumption, FaultsAssumption,
     DisksAssumption
<1>4. CP!Spec => []CP!AnsweredOK
  BY CP!AnsweredInvariant, ReplicasAssumption, ChunksAssumption, FaultsAssumption,
     DisksAssumption
<1>5. CP!Spec => []CP!AcknowledgedUploadIsStored
  BY CP!AcknowledgedStored, ReplicasAssumption, ChunksAssumption, FaultsAssumption,
     DisksAssumption
<1> QED
  BY <1>1, <1>2, <1>3, <1>4, <1>5, SessionIsStore, PTL DEF StoreFacts

\* No other user's upload has come to a master.
Alone(c) == \A d \in Others(c) : alloc[d].pc = "idle"

\* Then nobody sends anything any more once the deletion of c has begun, and no one
\* else deletes: who deletes has had an upload acknowledged before.
LEMMA AloneInDeletion ==
  ASSUME OneAfterTheOther, StoreFacts, NEW c \in Clients, Alone(c)
  PROVE  /\ \A d \in Others(c) : deletion[d].pc = "idle"
         /\ deletion[c].pc # "idle" =>
              /\ upload[c].pc = "ok" /\ alloc[c].pc = "ok"
              /\ \A d \in Clients : upload[d].pc # "sending" /\ alloc[d].pc # "addBlobEntry"
              /\ \A d \in Clients, w \in Workers : save[<<d, w>>].pc # "receiving"
<1>1. \A d \in Clients : upload[d].pc \in {"sending", "ok"} => alloc[d].pc = "ok"
  BY DEF StoreFacts, CP!AnsweredOK, CP!AnsweredSoFar
<1>2. ASSUME NEW d \in Clients, NEW w \in Workers, upload[c].pc = "ok",
             save[<<d, w>>].pc = "receiving"
      PROVE  FALSE
  <2>1. alloc[d].pc = "ok" /\ w \in alloc[d].placed
    BY <1>2 DEF StoreFacts, CP!SendingInv, CP!SentWherePlaced
  <2>2. d = c
    BY <2>1 DEF Alone, Others
  <2> QED
    BY <1>2, <2>1, <2>2 DEF StoreFacts, CP!AnsweredOK, CP!AnsweredSoFar
<1> QED
  BY <1>1, <1>2 DEF OneAfterTheOther, Alone, Others

LEMMA AloneBefore ==
  ASSUME CP!Types, CP!Next, NEW c \in Clients, Alone(c)'
  PROVE  Alone(c)
BY CP!RowArrives, ReplicasAssumption, ChunksAssumption, FaultsAssumption,
   DisksAssumption DEF Alone, Others

\* Rows: with or without faults, none is left and none comes back.
NoRowLeft ==
  \A c \in Clients, h \in Hashes, w \in Workers :
    deletion[c].pc = "ok" /\ Alone(c) => blob_copy[h][w] = Store!Master!NoCopy

LEMMA OneHash == \A g, h \in Hashes : g = h
BY OneBlob

LEMMA NoRowLeftStep ==
  ASSUME NoRowLeft, OneAfterTheOther, StoreFacts, CP!Next
  PROVE  NoRowLeft'
<1> SUFFICES ASSUME NEW c \in Clients, NEW h \in Hashes, NEW w \in Workers,
                    deletion'[c].pc = "ok", Alone(c)'
             PROVE  blob_copy'[h][w] = CP!Master!NoCopy
  BY DEF NoRowLeft, Store!Master!NoCopy, CP!Master!NoCopy
<1>1. CP!Types /\ Alone(c)
  BY AloneBefore DEF StoreFacts, CP!Frame
<1>2. CASE deletion[c].pc = "ok"
  <2>1. blob_copy[h][w] = CP!Master!NoCopy
    BY <1>1, <1>2 DEF NoRowLeft, Store!Master!NoCopy, CP!Master!NoCopy
  <2>2. \A d \in Clients : alloc[d].pc # "addBlobEntry"
    BY <1>1, <1>2, AloneInDeletion
  <2> QED
    BY <1>1, <2>1, <2>2, CP!RowArrives, ReplicasAssumption, ChunksAssumption,
       FaultsAssumption, DisksAssumption
<1>3. CASE deletion[c].pc # "ok"
  <2>1. \A g \in Hashes : g = deletion[c].hash => blob_copy'[g][w] = CP!Master!NoCopy
    BY <1>1, <1>3, CP!RowsErased, ReplicasAssumption, ChunksAssumption,
       FaultsAssumption, DisksAssumption
  <2>2. deletion[c].hash \in Hashes
    BY <1>1 DEF CP!Types, CP!MP!TypeOK, CP!MP!DeleteCall
  <2> QED
    BY <2>1, <2>2, OneHash
<1> QED
  BY <1>2, <1>3

\* Files, where nothing fails but workers that die: a worker is done with its file
\* once it has answered or is not asked any more, and no file comes back.
DoneWith(c, w) ==
  \/ deletion[c].pc = "ok"
  \/ deletion[c].pc = "askWorkers" /\ w \notin deletion[c].todo
  \/ erase[<<c, w>>].pc \in CP!Final

NoFileLeft ==
  \A c \in Clients, h \in Hashes, w \in Workers :
    DoneWith(c, w) /\ Alone(c) => <<w, h>> \notin files \/ CP!Died(w)

\* Whose file there is, when the deletion begins, the masters know to hold a copy.
LEMMA HolderIsAsked ==
  ASSUME OneAfterTheOther, StoreFacts, NEW c \in Clients, upload[c].pc = "ok",
         deletion[c].pc = "idle", Alone(c), NEW h \in Hashes, NEW w \in Workers,
         <<w, h>> \in files
  PROVE  CP!Saved(h, w) \/ CP!Died(w)
<1>1. PICK u \in Clients : alloc[u].hash = h /\ save[<<u, w>>].pc # "idle"
  BY DEF StoreFacts, CP!FilesSent
<1>2. alloc[u].pc = "ok" /\ w \in alloc[u].placed
  BY <1>1 DEF StoreFacts, CP!SendingInv, CP!SentWherePlaced
<1>3. u = c /\ upload[c].pc = "ok"
  BY <1>2 DEF Alone, Others, OneAfterTheOther
<1>4. CP!Saved(h, w) \/ CP!Deleted(h) \/ CP!Died(w)
  BY <1>1, <1>2, <1>3 DEF StoreFacts, CP!AcknowledgedUploadIsStored
<1>5. ~CP!Deleted(h)
  BY AloneInDeletion DEF CP!Deleted, Others
<1> QED
  BY <1>4, <1>5

LEMMA NoFileLeftStep ==
  ASSUME ~Faults, NoFileLeft, OneAfterTheOther, StoreFacts, CP!Next, Requested
  PROVE  NoFileLeft'
<1> USE ReplicasAssumption, ChunksAssumption, FaultsAssumption, DisksAssumption
<1> SUFFICES ASSUME NEW c \in Clients, NEW h \in Hashes, NEW w \in Workers,
                    DoneWith(c, w)', Alone(c)', ~CP!Died(w)'
             PROVE  <<w, h>> \notin files'
  BY DEF NoFileLeft
<1>1. /\ CP!Frame /\ CP!Types
      /\ Alone(c)
      /\ deletion[c].hash \in Hashes
  BY AloneBefore DEF StoreFacts, CP!Frame, CP!Types, CP!MP!TypeOK, CP!MP!DeleteCall
<1>2. h = deletion[c].hash
  BY <1>1, OneHash
<1>3. ~CP!Died(w)
  BY <1>1, CP!RequestsStay DEF CP!Types, CP!Died
<1>4. deletion[c].pc # "idle" => (<<w, h>> \in files' => <<w, h>> \in files)
  <2>1. SUFFICES ASSUME deletion[c].pc # "idle", <<w, h>> \in files', <<w, h>> \notin files
                 PROVE  FALSE
    OBVIOUS
  <2>2. PICK u \in Clients : upload[u].pc = "sending" \/ save[<<u, w>>].pc = "receiving"
    BY <1>1, <2>1, CP!FilesArrive
  <2> QED
    BY <1>1, <2>1, <2>2, AloneInDeletion
<1>5. CASE DoneWith(c, w)
  <2>1. deletion[c].pc # "idle"
    BY <1>1, <1>5 DEF DoneWith, CP!Frame, CP!Causes, CP!Final
  <2>2. <<w, h>> \notin files
    BY <1>1, <1>3, <1>5 DEF NoFileLeft
  <2> QED
    BY <1>4, <2>1, <2>2
<1>6. CASE ~DoneWith(c, w)
  <2>1. CASE erase'[<<c, w>>].pc \in CP!Final
    BY <1>1, <1>2, <1>6, <2>1, CP!ErasedFile DEF DoneWith
  <2>2. CASE deletion'[c] = deletion[c]
    BY <1>6, <2>1, <2>2 DEF DoneWith
  <2>3. CASE /\ deletion[c].pc = "idle"
             /\ deletion'[c].pc = "askWorkers"
             /\ deletion'[c].todo = {v \in Workers : CP!Saved(deletion[c].hash, v)}
             /\ UNCHANGED <<files, sent, register, erase>>
    <3>1. upload[c].pc = "ok"
      BY <2>3 DEF Requested, Made, OneAfterTheOther, GaveUp
    <3>2. ~CP!Saved(h, w) \/ erase'[<<c, w>>].pc \in CP!Final
      BY <1>2, <2>3 DEF DoneWith
    <3> QED
      BY <1>1, <1>3, <2>1, <2>3, <3>1, <3>2, HolderIsAsked
  <2>4. CASE /\ deletion[c].pc = "askWorkers"
             /\ deletion'[c].pc = "askWorkers"
             /\ \E v \in Workers : /\ deletion'[c].todo = deletion[c].todo \ {v}
                                   /\ erase[<<c, v>>].pc \in CP!Final \/ CP!Died(v)
             /\ UNCHANGED <<files, sent, register, erase>>
    <3>1. w \notin deletion'[c].todo
      BY <2>1, <2>4, <1>6 DEF DoneWith
    <3> QED
      BY <1>3, <1>6, <2>4, <3>1 DEF DoneWith
  <2>5. CASE deletion[c].pc = "askWorkers" /\ deletion[c].todo = {}
    BY <1>6, <2>5 DEF DoneWith
  <2>6. CASE deletion'[c].pc = "error"
    BY <2>1, <2>6 DEF DoneWith
  <2> QED
    BY <1>1, <2>2, <2>3, <2>4, <2>5, <2>6, CP!RemovalFate
<1> QED
  BY <1>5, <1>6

\* What is left alone stays.
LEMMA NothingLeftFrame ==
  ASSUME UNCHANGED store
  PROVE  (NoRowLeft => NoRowLeft') /\ (NoFileLeft => NoFileLeft')
BY DEF store, NoRowLeft, NoFileLeft, DoneWith, Alone, CP!Died, CP!Final

\* With or without faults, no row of a deleted blob is left or comes back, unless
\* another user uploads it: who deletes has had the end of its own upload, and no
\* notification inserts a row.
THEOREM DeletedRowsAreGone == Spec => []NoRowLeft
<1>1. Init => NoRowLeft
  BY DEF Init, Store!Init, NoRowLeft
<1>2. NoRowLeft /\ OneAfterTheOther /\ StoreFacts /\ [Next]_vars => NoRowLeft'
  BY SessionSteps, NoRowLeftStep, NothingLeftFrame
<1> QED
  BY <1>1, <1>2, StoreFactsInvariant, OneAfterTheOtherInvariant, PTL DEF Spec

\* Without faults each worker that was asked has removed its file.
LEMMA FilesInvariant ==
  ASSUME ~Faults
  PROVE  Spec => []NoFileLeft
<1>1. Init => NoFileLeft
  BY DEF Init, Store!Init, Store!Worker!Init, NoFileLeft
<1>2. NoFileLeft /\ OneAfterTheOther /\ StoreFacts /\ [Next]_vars => NoFileLeft'
  BY SessionSteps, NoFileLeftStep, NothingLeftFrame
<1> QED
  BY <1>1, <1>2, StoreFactsInvariant, OneAfterTheOtherInvariant, PTL DEF Spec

\* Once a deletion is answered OK nothing of the blob is left, but for another
\* user's upload and files of workers that have died: as long as nothing fails,
\* every worker with a file is known to the masters and is asked.
THEOREM DeletedIsGone ==
  ASSUME ~Faults
  PROVE  Spec => []DeletedBlobIsGone
<1>1. NoRowLeft /\ NoFileLeft => DeletedBlobIsGone
  BY DEF NoRowLeft, NoFileLeft, DoneWith, Alone, DeletedBlobIsGone, CP!Died, Store!Died
<1> QED
  BY <1>1, DeletedRowsAreGone, FilesInvariant, PTL
=============================================================================
