----------------------------- MODULE BlobStore ------------------------------
(***************************************************************************)
(* The system: frontends (src/frontend/frontend_service.cpp) that carry    *)
(* uploads, downloads and deletions, the masters of MasterService, and     *)
(* workers whose files are those of one WorkerService: a file is known by  *)
(* its worker and its name, so the Hashes of that instance are pairs.      *)
(* Workers die and register again (src/worker/main.cpp).                   *)
(*                                                                         *)
(* A step of the system is a step of a frontend, of a master's handler or  *)
(* of a worker's handler; a handler starts when its caller has called it.  *)
(* A frontend never sets size_mb (frontend_service.cpp:112), so every size *)
(* is 0 here; the space accounts are the subject of MasterAccounting.      *)
(***************************************************************************)
EXTENDS Integers, Sequences, FiniteSets

CONSTANTS
  Hashes,     \* blobs, named by their hashes
  Workers,    \* worker addresses
  Uploads, Fetches, Removals,   \* UploadBlob, GetBlob, DeleteBlob calls of clients
  Boots,      \* registrations a worker may send
  Replicas,   \* workers asked for per upload; 3 in the code
  Chunks,     \* chunks in a blob
  Faults,     \* whether commits, streams and masters fail
  BadDisks    \* workers of which a write may fall short, and a read fail

ASSUME ReplicasAssumption == Replicas \in Nat \ {0}
ASSUME ChunksAssumption == Chunks \in Nat \ {0}
ASSUME FaultsAssumption == Faults \in BOOLEAN
ASSUME DisksAssumption == BadDisks \subseteq Workers

VARIABLES
  blob_copy, worker_state,   \* the tables
  alloc, notify, locate, register, deletion,   \* calls at the masters
  files, data,               \* files of all workers, by <<worker, hash>>
  save, get, erase,          \* calls at the workers
  upload, fetch,             \* calls at the frontends
  boot,                      \* boot[w]: the registration w waits for, if any
  sent                       \* registrations sent: they arrive, maybe late, or are lost

Saves == Uploads \X Workers     \* an upload saves once per worker
Names == Workers \X Hashes      \* files

Master == INSTANCE MasterService WITH
  Allocs <- Uploads, Notifies <- Saves, Locates <- Fetches, Registers <- Boots,
  Deletes <- Removals, Sizes <- {0}, Spaces <- {1}, delete <- deletion

Worker == INSTANCE WorkerService WITH
  Hashes <- Names, Saves <- Saves, Gets <- Fetches \X Workers,
  Deletes <- Removals \X Workers, Crashes <- FALSE, Faults <- Faults \/ BadDisks # {},
  delete <- erase

masters == <<blob_copy, worker_state, alloc, notify, locate, register, deletion>>
disks == <<files, data, save, get, erase>>
frontends == <<upload, fetch>>
boots == <<boot, sent>>
vars == <<masters, disks, frontends, boots>>

Final == {"ok", "error"}

\* temp: whether the temporary file is there; todo: workers of the loop not yet
\* sent to; at: the worker being sent to.
UploadCall == [pc : {"idle", "allocating", "sending"} \cup Final, temp : BOOLEAN,
               todo : SUBSET Workers, at : SUBSET Workers]
\* "cut": answered OK after the worker's stream broke.
FetchCall == [pc : {"idle", "reading", "cut"} \cup Final]

Up(w) == boot[w] = {}

\* Every worker is registered and has no files; a call's arguments are fixed.
Init ==
  /\ \E uploaded \in [Uploads -> Hashes], fetched \in [Fetches -> Hashes],
        removed \in [Removals -> Hashes] :
       /\ alloc = [u \in Uploads |-> [hash |-> uploaded[u], size |-> 0, pc |-> "idle",
                     rows |-> Master!NoRows, todo |-> {}, placed |-> {}]]
       /\ notify = [s \in Saves |-> [hash |-> uploaded[s[1]], worker |-> s[2], pc |-> "idle",
                     size |-> 0, row |-> Master!NoWorker]]
       /\ locate = [g \in Fetches |-> [hash |-> fetched[g], pc |-> "idle", chosen |-> {}]]
       /\ deletion = [d \in Removals |-> [hash |-> removed[d], pc |-> "idle", todo |-> {},
                     erased |-> FALSE]]
       /\ save = [s \in Saves |-> [hash |-> <<s[2], uploaded[s[1]]>>, received |-> 0,
                     blob |-> <<s[2], uploaded[s[1]]>>, short |-> FALSE, pc |-> "idle"]]
       /\ get = [c \in Fetches \X Workers |-> [hash |-> <<c[2], fetched[c[1]]>>, size |-> 0,
                     pc |-> "idle", sent |-> <<>>, unlinked |-> FALSE, held |-> <<>>,
                     unread |-> FALSE]]
       /\ erase = [c \in Removals \X Workers |-> [hash |-> <<c[2], removed[c[1]]>>,
                     pc |-> "idle"]]
  /\ Master!Init
  /\ Worker!Init
  /\ \A w \in Workers : worker_state[w].registered
  /\ upload = [u \in Uploads |-> [pc |-> "idle", temp |-> FALSE, todo |-> {}, at |-> {}]]
  /\ fetch = [g \in Fetches |-> [pc |-> "idle"]]
  /\ boot = [w \in Workers |-> {}]
  /\ sent = {}

-----------------------------------------------------------------------------
(* UploadBlob *)

\* receive_and_hash_blob: a stream that is not what it announced is refused, and
\* its temporary file is left; there is none if it began with no info.
ReceiveBlob(u) ==
  /\ upload[u].pc = "idle"
  /\ \E pc \in {"allocating", "error"}, temp \in BOOLEAN :
       /\ pc = "allocating" => temp
       /\ upload' = [upload EXCEPT ![u].pc = pc, ![u].temp = temp]
  /\ UNCHANGED <<masters, disks, fetch, boots>>

\* get_workers_from_master: the master runs the call, also for a frontend that
\* has given it up.
AskMaster(u) ==
  /\ upload[u].pc = "allocating" \/ alloc[u].pc # "idle"
  /\ Master!AllocStep(u)
  /\ UNCHANGED <<disks, frontends, boots>>

\* It has answered: the addresses, or an error that ends the upload, which may be
\* that of the connection.
TakeWorkers(u) ==
  /\ upload[u].pc = "allocating"
  /\ \/ /\ alloc[u].pc = "ok"
        /\ upload' = [upload EXCEPT ![u].pc = "sending", ![u].todo = alloc[u].placed]
     \/ /\ alloc[u].pc = "error" \/ Faults
        /\ upload' = [upload EXCEPT ![u].pc = "error"]
  /\ UNCHANGED <<masters, disks, fetch, boots>>

\* send_blob_to_worker: the next worker gets the first request, which names the
\* file.
OpenSave(u, w) ==
  /\ upload[u].pc = "sending"
  /\ upload[u].at = {}
  /\ w \in upload[u].todo
  /\ Up(w)
  /\ Worker!SaveBlob(<<u, w>>)
  /\ upload' = [upload EXCEPT ![u].at = {w}, ![u].todo = @ \ {w}]
  /\ UNCHANGED <<masters, fetch, boots>>

\* The worker is down, its file cannot be created, or the stream breaks before
\* the first request.  What an empty stream does to the worker is a failed call or, undefined, a Crash.
OpenSaveFails(u, w) ==
  /\ upload[u].pc = "sending"
  /\ upload[u].at = {}
  /\ w \in upload[u].todo
  /\ Faults \/ ~Up(w)
  /\ upload' = [upload EXCEPT ![u].pc = "error"]
  /\ UNCHANGED <<masters, disks, fetch, boots>>

Streaming(u, w) == upload[u].pc = "sending" /\ w \in upload[u].at

\* Slip: whatever the worker answers, the loop goes on to the next.
SaveAnswered_IgnoresStatus(u, w) ==
  /\ Streaming(u, w)
  /\ save[<<u, w>>].pc \in Final
  /\ upload' = IF upload[u].todo = {}
                 THEN [upload EXCEPT ![u].pc = "ok", ![u].at = {}, ![u].temp = FALSE]
                 ELSE [upload EXCEPT ![u].at = {}]
  /\ UNCHANGED <<masters, disks, fetch, boots>>

\* SaveBlob has answered: on to the next worker, or the end of the upload; the
\* temporary file is removed only at the end of the loop.
SaveAnswered(u, w) ==
  /\ Streaming(u, w)
  /\ \/ /\ save[<<u, w>>].pc = "ok"
        /\ upload' = IF upload[u].todo = {}
                       THEN [upload EXCEPT ![u].pc = "ok", ![u].at = {}, ![u].temp = FALSE]
                       ELSE [upload EXCEPT ![u].at = {}]
     \/ /\ save[<<u, w>>].pc = "error"
        /\ upload' = [upload EXCEPT ![u].pc = "error", ![u].at = {}]
  /\ UNCHANGED <<masters, disks, fetch, boots>>

\* The stream breaks or the frontend dies: the worker sees the end of it.
StreamBreaks(u, w) ==
  /\ Faults
  /\ Streaming(u, w)
  /\ save[<<u, w>>].pc \notin Final
  /\ upload' = [upload EXCEPT ![u].pc = "error", ![u].at = {}]
  /\ UNCHANGED <<masters, disks, fetch, boots>>

-----------------------------------------------------------------------------
(* SaveBlob and NotifyBlobSaved, at the worker and at a master *)

\* The worker reads what the frontend has written, also of a stream that broke
\* since; it accepts the blob when all of it has come, and rejects it when the
\* stream ended before.  The file may fail to open, or take less than the chunk.
ServeSave(u, w) ==
  /\ \/ Worker!ReceiveChunk(<<u, w>>)
     \/ Faults /\ Worker!ReceiveChunkFails(<<u, w>>)
     \/ w \in BadDisks /\ Worker!ReceiveChunkShort(<<u, w>>)
     \/ Worker!AcceptStream(<<u, w>>)
     \/ ~Streaming(u, w) /\ Worker!RejectStream(<<u, w>>)
  /\ UNCHANGED <<masters, frontends, boots>>

\* A master runs the notification once the worker has sent it.
ServeNotify(u, w) ==
  /\ save[<<u, w>>].pc = "notifying" \/ notify[<<u, w>>].pc # "idle"
  /\ Master!NotifyStep(<<u, w>>)
  /\ UNCHANGED <<disks, frontends, boots>>

\* The worker has the master's answer, or the call has failed.
NotifyAnswered(u, w) ==
  /\ Worker!MasterAnswers(<<u, w>>)
  /\ \/ /\ notify[<<u, w>>].pc \in Final
        /\ save'[<<u, w>>].pc = notify[<<u, w>>].pc
     \/ /\ Faults
        /\ save'[<<u, w>>].pc = "error"
  /\ UNCHANGED <<masters, frontends, boots>>

-----------------------------------------------------------------------------
(* GetBlob *)

\* get_worker_with_blob_id: the master runs the call.
LocateBlob(g) ==
  /\ fetch[g].pc = "idle"
  /\ Master!LocateStep(g)
  /\ UNCHANGED <<disks, frontends, boots>>

StartFetch(g) ==
  /\ fetch[g].pc = "idle"
  /\ \/ locate[g].pc = "ok" /\ fetch' = [fetch EXCEPT ![g].pc = "reading"]
     \/ locate[g].pc = "error" /\ fetch' = [fetch EXCEPT ![g].pc = "error"]
  /\ UNCHANGED <<masters, disks, upload, boots>>

\* The worker sends and the frontend relays; a worker whose frontend is gone
\* goes on until a write fails.  The file may not be read as far as it goes.
ServeGet(g, w) ==
  /\ w \in locate[g].chosen
  /\ \/ fetch[g].pc = "reading" /\ Up(w) /\ Worker!GetStep(<<g, w>>)
     \/ /\ fetch[g].pc \in {"cut", "error"}
        /\ get[<<g, w>>].pc # "idle"
        /\ Worker!GetStep(<<g, w>>) \/ Worker!SendFails(<<g, w>>)
     \/ w \in BadDisks /\ Worker!ReadFails(<<g, w>>)
  /\ UNCHANGED <<masters, frontends, boots>>

\* Slip: the frontend reads again until all of the blob has come.
EndFetch_UntilWhole(g, w) ==
  /\ fetch[g].pc = "reading"
  /\ w \in locate[g].chosen
  /\ get[<<g, w>>].pc \in Final
  /\ \/ /\ get[<<g, w>>].pc = "ok"
        /\ fetch' = [fetch EXCEPT ![g].pc = "ok"]
     \/ UNCHANGED fetch
  /\ UNCHANGED <<masters, disks, upload, boots>>

\* The worker's stream has ended, for whatever reason, or never began since the
\* worker is down: its status is not asked for.
EndFetch(g, w) ==
  /\ fetch[g].pc = "reading"
  /\ w \in locate[g].chosen
  /\ get[<<g, w>>].pc \in Final \/ (get[<<g, w>>].pc = "idle" /\ ~Up(w))
  /\ fetch' = [fetch EXCEPT ![g].pc = "ok"]
  /\ UNCHANGED <<masters, disks, upload, boots>>

\* A stream breaks: the worker's, which the frontend takes for its end, or the
\* client's, which is an error.
FetchBreaks(g) ==
  /\ Faults
  /\ fetch[g].pc = "reading"
  /\ \E pc \in {"cut", "error"} : fetch' = [fetch EXCEPT ![g].pc = pc]
  /\ UNCHANGED <<masters, disks, upload, boots>>

-----------------------------------------------------------------------------
(* DeleteBlob, at a master and at the workers it asks one after the other *)

StartRemoval(d) ==
  /\ Master!DeleteBlob(d)
  /\ UNCHANGED <<disks, frontends, boots>>

\* What a worker has begun it ends, also for a master that is gone.
ServeErase(d, w) ==
  /\ \/ /\ deletion[d].pc = "askWorkers"
        /\ w \in deletion[d].todo
        /\ \A v \in deletion[d].todo \ {w} : erase[<<d, v>>].pc = "idle"
        /\ Up(w)
        /\ Worker!DeleteBlob(<<d, w>>)
     \/ Worker!RemoveFile(<<d, w>>)
  /\ UNCHANGED <<masters, frontends, boots>>

\* The worker has answered, or the call has failed.
AskedWorker(d, w) ==
  /\ \/ erase[<<d, w>>].pc \in Final
     \/ erase[<<d, w>>].pc = "idle" /\ ~Up(w)
     \/ Faults
  /\ Master!AskWorker(d, w)
  /\ UNCHANGED <<disks, frontends, boots>>

EndRemoval(d) ==
  /\ Master!DeleteEntries(d)
  /\ UNCHANGED <<disks, frontends, boots>>

-----------------------------------------------------------------------------
(* Death and boot of a worker: it registers, then serves *)

\* r is the next registration of w.
Unsent(r, w) == register[r].worker = w /\ r \notin sent

Send(r, w) == boot' = [boot EXCEPT ![w] = {r}] /\ sent' = sent \cup {r}

\* The new process sends its first registration.
Crash(w, r) ==
  /\ Unsent(r, w)
  /\ Worker!Lose({w} \X Hashes)
  /\ Send(r, w)
  /\ UNCHANGED <<masters, frontends>>

\* A master runs a registration it receives to the end, whether or not the worker
\* still waits for it.
ServeRegister(r) ==
  /\ r \in sent
  /\ Master!RegisterStep(r)
  /\ UNCHANGED <<disks, frontends, boots>>

\* The loop over tries: try again after a failure, which may be that of the
\* connection, before the request has arrived or later.
Retry(w, r) ==
  /\ Unsent(r, w)
  /\ \E q \in boot[w] : register[q].pc = "error" \/ Faults
  /\ Send(r, w)
  /\ UNCHANGED <<masters, disks, frontends>>

\* The server is started after a registration, and also after a last try that
\* failed: maybe with its handler still running, maybe with no master reached.
Serve(w) ==
  /\ \E q \in boot[w] : register[q].pc \in Final \/ Faults
  /\ boot' = [boot EXCEPT ![w] = {}]
  /\ UNCHANGED <<masters, disks, frontends, sent>>

\* A master's handler fails between two commits, or the master dies.
MasterFault == Master!Fault /\ UNCHANGED <<disks, frontends, boots>>

-----------------------------------------------------------------------------
UploadStep(u) ==
  \/ ReceiveBlob(u) \/ AskMaster(u) \/ TakeWorkers(u)
  \/ \E w \in Workers : OpenSave(u, w) \/ OpenSaveFails(u, w) \/ SaveAnswered(u, w)

FetchStep(g) ==
  LocateBlob(g) \/ StartFetch(g) \/ \E w \in Workers : ServeGet(g, w) \/ EndFetch(g, w)

RemovalStep(d) ==
  \/ StartRemoval(d) \/ EndRemoval(d)
  \/ \E w \in Workers : ServeErase(d, w) \/ AskedWorker(d, w)

\* Every call is over and every worker serves: the system waits for more.
Quiet ==
  /\ \A u \in Uploads : upload[u].pc \in Final
  /\ \A g \in Fetches : fetch[g].pc \in {"cut"} \cup Final
  /\ \A d \in Removals : deletion[d].pc \in Final
  /\ \A w \in Workers : Up(w)

Next ==
  \/ \E u \in Uploads : UploadStep(u)
  \/ \E u \in Uploads, w \in Workers :
       ServeSave(u, w) \/ ServeNotify(u, w) \/ NotifyAnswered(u, w) \/ StreamBreaks(u, w)
  \/ \E g \in Fetches : FetchStep(g) \/ FetchBreaks(g)
  \/ \E d \in Removals : RemovalStep(d)
  \/ \E w \in Workers, r \in Boots : Crash(w, r) \/ Retry(w, r)
  \/ \E r \in Boots : ServeRegister(r)
  \/ \E w \in Workers : Serve(w)
  \/ MasterFault
  \/ Quiet /\ UNCHANGED vars

Spec == Init /\ [][Next]_vars

\* What goes on by itself: a frontend that has taken a request, a handler at a
\* master or a worker, and a worker that boots.  Requests need not arrive, and
\* neither faults nor deaths are owed.
Owed ==
  \/ \E u \in Uploads : upload[u].pc # "idle" /\ UploadStep(u)
  \/ \E u \in Uploads, w \in Workers :
       ServeSave(u, w) \/ ServeNotify(u, w) \/ NotifyAnswered(u, w)
  \/ \E g \in Fetches : locate[g].pc # "idle" /\ FetchStep(g)
  \/ \E d \in Removals : deletion[d].pc # "idle" /\ RemovalStep(d)
  \/ \E r \in Boots : ServeRegister(r)
  \/ \E w \in Workers : Serve(w)

-----------------------------------------------------------------------------
(* Properties *)

TypeOK ==
  /\ Master!TypeOK
  /\ Worker!TypeOK
  /\ upload \in [Uploads -> UploadCall]
  /\ fetch \in [Fetches -> FetchCall]
  /\ boot \in [Workers -> SUBSET Boots]
  /\ sent \subseteq Boots

Saved(h, w) == blob_copy[h][w].state = Master!SAVED
Whole(h, w) == <<w, h>> \in files /\ data[<<w, h>>] = Worker!Content(<<w, h>>)

\* A deletion of the blob has begun, or the worker has died.
Deleted(h) == \E d \in Removals : deletion[d].hash = h /\ deletion[d].pc # "idle"
Died(w) == \E r \in sent : register[r].worker = w

\* A write of the blob has fallen short at the worker.
Torn(h, w) == \E u \in Uploads : alloc[u].hash = h /\ save[<<u, w>>].short

\* A copy the masters announce is a whole file on its worker, until a deletion
\* of the blob begins or the worker dies, and unless a write fell short, which
\* nobody notices (blob_file.hpp:138): whatever uploads of the blob overlap and
\* break, SAVED is written after the worker checked what was streamed.
UndisturbedCopyIsWhole ==
  \A h \in Hashes, w \in Workers :
    Saved(h, w) => Whole(h, w) \/ Torn(h, w) \/ Deleted(h) \/ Died(w)

\* Two uploads of a blob are never sent to one worker, where they would write the
\* same file, unless the row of the copy was erased after the first was placed:
\* what the masters keep apart stays apart through frontends that give up and
\* workers that come back.
OneUploadPerFile ==
  \A u, v \in Uploads, w \in Workers :
    /\ u # v
    /\ alloc[u].hash = alloc[v].hash
    /\ save[<<u, w>>].pc # "idle"
    /\ save[<<v, w>>].pc # "idle"
    => Master!Erased(alloc[u].hash, w)

\* An upload that was acknowledged has its copies, announced and whole, on as
\* many workers as were asked for, but for what deletions, deaths and writes that
\* fell short took; the last leave the copy announced.
AcknowledgedUploadIsStored ==
  \A u \in Uploads : upload[u].pc = "ok" =>
    LET h == alloc[u].hash
    IN  /\ Cardinality(alloc[u].placed) = Replicas
        /\ \A w \in alloc[u].placed :
             (Saved(h, w) /\ (Whole(h, w) \/ Torn(h, w))) \/ Deleted(h) \/ Died(w)

\* A client reads what was written: once an upload is acknowledged, a lookup that
\* arrives at any master finds a holder of its blob, unless the blob is being deleted
\* or every worker the upload went to has died.
AcknowledgedIsFound ==
  [][\A u \in Uploads, g \in Fetches :
       /\ upload[u].pc = "ok"
       /\ locate[g].hash = alloc[u].hash /\ ~Deleted(locate[g].hash)
       /\ \E w \in alloc[u].placed : ~Died(w)
       /\ locate[g].pc = "idle"
       => locate'[g].pc \in {"idle", "getWorkerState"}]_vars

\* A client whose GetBlob was answered OK has the blob, unless the blob was
\* deleted, the worker died, its disk did not give the file back, or the stream
\* broke ("cut") meanwhile: those end the stream early, which the frontend does
\* not tell from its end.  Nor does it notice that a write had fallen short.
UndisturbedFetchIsWhole ==
  \A g \in Fetches, w \in Workers :
    fetch[g].pc = "ok" /\ w \in locate[g].chosen =>
      \/ get[<<g, w>>].sent = Worker!Content(<<w, locate[g].hash>>)
      \/ Deleted(locate[g].hash)
      \/ Died(w)
      \/ Torn(locate[g].hash, w)
      \/ get[<<g, w>>].unread

\* What SAVED says of a worker that serves and a file that no deletion and no
\* SaveBlob is at: "successful saving of blob"
\* (src/protos/services/master_service.proto:30).
SavedCopyIsWhole ==
  \A h \in Hashes, w \in Workers :
    /\ Saved(h, w)
    /\ Up(w)
    /\ \A u \in Uploads : save[<<u, w>>].hash = <<w, h>> => save[<<u, w>>].pc # "receiving"
    /\ \A d \in Removals : deletion[d].hash = h => deletion[d].pc # "askWorkers"
    => Whole(h, w)

\* The system implements the store of DurableStore: a copy the masters announce, on
\* a worker that holds all of it, is kept until its blob is deleted, its worker dies
\* or a write of it falls short; uploads are acknowledged, and downloads answered,
\* on its strength.
kept ==
  {c \in Hashes \X Workers :
     /\ Saved(c[1], c[2]) /\ Whole(c[1], c[2])
     /\ ~Deleted(c[1]) /\ ~Died(c[2]) /\ ~Torn(c[1], c[2])}
deleted == {h \in Hashes : Deleted(h)}
restarted == {w \in Workers : Died(w)}
torn == {c \in Hashes \X Workers : Torn(c[1], c[2])}

\* The blob has come to the frontend as it is named.
Relayed(g) ==
  \E w \in locate[g].chosen :
    get[<<g, w>>].sent = Worker!Content(<<w, locate[g].hash>>)

PutStatus(u) ==
  CASE upload[u].pc \in {"allocating", "sending"} -> "asked"
    [] OTHER -> upload[u].pc

\* A file that is not read to its end breaks the stream.
Unread(g) == \E w \in locate[g].chosen : get[<<g, w>>].unread

GotStatus(g) ==
  CASE fetch[g].pc = "reading" -> "asked"
    [] fetch[g].pc = "ok" -> IF Relayed(g) THEN "whole" ELSE IF Unread(g) THEN "cut" ELSE "part"
    [] OTHER -> fetch[g].pc

put == [u \in Uploads |-> [hash |-> alloc[u].hash, pc |-> PutStatus(u)]]
got == [g \in Fetches |-> [hash |-> locate[g].hash, pc |-> GotStatus(g)]]

Durable == INSTANCE DurableStore WITH Puts <- Uploads, Gets <- Fetches
DurableSpec == Durable!Spec
=============================================================================
