# A TLA+ model of blob-store

blob-store keeps blobs, named by a hash of their content, on several worker
nodes. A client talks to a frontend, the frontend asks a master where to put or
find a blob and streams it to or from workers, and the masters keep a catalog of
copies and of free space in two Spanner tables they share. This directory holds
TLA+ modules of the parts with state, the TLC configurations that check them, and
TLAPS proofs of the properties that matter most.

Paths below are from the root of the repository: `src/master/...` and so on.

## 1. The system

| part | code | state | operations |
|---|---|---|---|
| client | `src/client/main.cpp` | the call it is in, the hash it was given | ping, upload, get and compare with what was uploaded, delete |
| frontend | `src/frontend/frontend_service.cpp` | a temporary file per upload | UploadBlob, GetBlob, DeleteBlob |
| master | `src/master/master_service.cpp` | none: 3 interchangeable processes over one database | GetWorkersToSaveBlob, GetWorkerWithBlob, NotifyBlobSaved, RegisterWorker, DeleteBlob |
| repository | `src/master/master_db_repository.cpp` | tables `blob_copy` (hash, worker_address, state, size_mb) and `worker_state` (worker_address, available_space_mb, locked_space_mb) | single-query and single-commit operations |
| worker | `src/worker/worker_service.cpp`, `src/common/blob_file.hpp` | files in `blobs/`, one per blob, lost with the container | SaveBlob, GetBlob, DeleteBlob |
| worker boot | `src/worker/main.cpp` | tries left | register up to ten times, then serve |
| configuration | `src/common/environment.hpp`, `src/frontend/frontend_service.hpp` | none | worker ordinal to master, hash to master |
| hasher | `src/common/blob_hasher.hpp` | xxHash64 state | add chunk, finalize |

How they interact:

- **Upload.** The frontend stores the stream in a temporary file and hashes it,
  calls GetWorkersToSaveBlob, then streams the file to each of the three workers in
  turn (SaveBlob). A worker that has the whole blob calls NotifyBlobSaved at the
  master it registered with. The first worker that fails ends the upload.
- **Get.** The frontend calls GetWorkerWithBlob and relays the stream of the one
  worker named in the answer.
- **Delete.** The frontend calls DeleteBlob at a master, which calls DeleteBlob at
  every worker with a SAVED copy, ignores what they answer, and erases the rows.
- **Restart of a worker.** Its files are gone. It calls RegisterWorker, which
  erases its old row and its copies, and inserts a new row.

What is hard: handlers run on gRPC threads without locks or transactions. A
master's handler is a series of commits, each of which may fail or be the last
before the process dies, and other handlers run between any two. Rows are read
in one commit and written back whole in a later one. A worker's handlers share
files by name. Nothing is retried but registration, no call has a deadline, and
no step is undone.

What makes each part correct:

- *catalog of copies*: a blob is placed on a worker once; a copy is reported only
  after it was confirmed, and is not taken back; copies vanish only with a deletion
  or a restart; an allocation answered OK is complete;
- *space accounts*: what a master believes free is backed by what the worker
  reported; it is never negative;
- *worker files*: a file that has one writer at a time is the whole blob it is named
  after, or is being written; a reader is sent the beginning of the blob, never
  something else;
- *bytes of an upload*: what is sent is the temporary file, in order, and a blob that is
  whole there is accepted; the loop over chunks ends at the last byte;
- *worker boot*: the tries of a worker, which may overlap at the masters, leave it
  with a row; every worker comes up;
- *client*: every session ends; data that does not match has its reason; a deleted
  blob is gone;
- *all*: every call that arrives is answered;
- *end to end*: an acknowledged upload has three whole copies, and a download
  answered OK relays the blob, until the blob is deleted or its workers restart.

The full list of hazards, each at its line with the properties that cover it, is
in `PROJECT.json`.

## 2. The modules

| module | models | lines up to |
|---|---|---|
| `MasterDb` | the two tables and each repository operation, as operators from table to table | `master_db_repository.cpp` |
| `MasterService` | the five RPC handlers of the masters, their faults, and the masters' properties | `master_service.cpp` |
| `BlobCatalog` | abstract specification of `blob_copy`: Place, Confirm, Forget, Expel | |
| `MasterAccounting` | space accounts against copies, and whether the handlers have overlapped (`orderly`) | `master_service.cpp` |
| `WorkerService` | the three RPC handlers of a worker over its files, and their properties | `worker_service.cpp`, `blob_file.hpp` |
| `OneWriter` | whether a worker's files have had one writer at a time and no failed write (`orderly`), and what its files and readers have then | `worker_service.cpp` |
| `BlobStore` | the system: frontends, masters and workers that call one another, workers that die and register again | `frontend_service.cpp`, `worker/main.cpp` |
| `DurableStore` | abstract specification of what clients are promised: copies kept until deleted, lost with their worker or torn by its disk, uploads acknowledged and downloads answered on their strength | |
| `ClientSession` | the client program, several users of one blob, over `BlobStore` | `client/main.cpp` |
| `BlobTransfer` | the bytes of an upload: client, temporary file, `ChunkIterator`, worker | `frontend_service.cpp`, `blob_file.hpp` |
| `WorkerBoot` | the loop over tries of `run_worker`, over the registration handler of `MasterService`, with masters that die and return | `worker/main.cpp`, `environment.hpp` |
| `MC_Master`, `MC_Worker`, `MC_Store`, `MC_Client`, `MC_Transfer`, `MC_Boot` | symmetry sets for TLC, and the calls of `MC_Worker` | |
| `*Proofs` | the theorems of section 5 | |

### Masters

One action is one query or one commit of one call, with the code up to the next
one: what a client of the database can observe. A call is a record in `alloc`,
`notify`, `locate`, `register` or `delete`; its `pc` names the operation it is
about to do, its other fields are the arguments (any values, fixed in `Init`) and
the handler's local variables, in particular the rows it has read, which may be
stale by the time it writes them back. Masters keep nothing but the tables, so
calls at one master and calls at several interleave in the same way and no
variable says which master serves a call.

| handler | actions, in order |
|---|---|
| GetWorkersToSaveBlob | `GetWorkersToSaveBlob` (query), then per worker `AddBlobEntry`, `LockSpace` |
| NotifyBlobSaved | `NotifyBlobSaved` (query), `UpdateBlobEntry`, `ReadWorkerState`, `ChargeSpace` |
| GetWorkerWithBlob | `GetWorkerWithBlob` (query), `AnswerLocate` |
| RegisterWorker | `RegisterWorker` (erase the row), `DropCopies`, `AddWorkerState` |
| DeleteBlob | `DeleteBlob` (query), `AskWorker` per holder, `DeleteEntries` |

Each early return is a disjunct: an Insert of a key that is there, an Update of one
that is not, a query that finds too little. `AllocFails`, `NotifyFails` and so on end
a call between two commits without undoing any: a failed commit, or the death of
the master. A last commit that takes effect and is reported failed all the same, or after
which the master dies, answers the call an error (`Answers`): the error of a DeleteBlob
does not say that the rows are there. `erased` records, for the properties, that they
went. The query for free workers has a LIMIT and no ORDER BY, so any set of
the asked-for size is an answer, and the loop takes its members in any order.

The schema is not in the repository. The keys assumed, `worker_address` and
`(hash, worker_address)`, are those the code relies on: `deleteWorkerState` makes a
key of the address, and a blob has one row per worker. `last_heartbeat_epoch_ts`
is written as 0 and never read. Sums stay far below 2^63: sizes and spaces are plain
integers.

### Worker

One action is one operation on a file or one RPC. Every blob has `Chunks` chunks and
a file is a sequence of chunks `<<b, i>>`; `<<b, 0>>` is a piece of a chunk, which is
what a short write leaves. A frontend may stream fewer chunks than the blob has, or
another blob than the one it names. `HashMatches` takes the hash to be perfect.
`append_chunk` reopens the file by name with `ios::app`, and so creates a file that
has disappeared; a reader keeps its descriptor, and goes on with what the file
`held` when its name was removed. `EmptyStream` is undefined behaviour in the code,
modelled as a failed call or the death of the process. `Crash` is that death at any
time, after which `blobs/` is empty.

A disk fails in two ways. Of a write (`WriteFault`) it may take a piece or nothing, which
nobody notices (`ReceiveChunkShort`; `short` records it for the properties), or the file
cannot be opened for it, which ends the call. In a read (`ReadFault`) a file that is there
cannot be opened or read as far as it goes: `ReadFails` is the FileSystemException that
both throw, and `unread` records it.

`OneWriter` adds the history variable `orderly`. It restricts no behaviour: calls overlap
as they like, and from the moment two of them are at one file, or a write fails, `orderly`
is false.

### The system

`BlobStore` runs one instance of `MasterService` and one of `WorkerService` against
frontends, and adds no other account of what a handler does. A file of the system
is known by its worker and its name, so the `Hashes` of the worker instance are
pairs `<<w, h>>`, and the one instance holds the files of all workers. The call
identifiers are shared: an upload `u` is the allocation `u` at a master, and its
SaveBlob at worker `w` is the call `<<u, w>>`, which is also its notification at a
master; a download `g` is the lookup `g` and the call `<<g, w>>` at a worker; a
deletion `d` is the call `d` at a master and `<<d, w>>` at the workers.

What `BlobStore` adds is who makes a call when, and what the answer leads to:

| code | actions, in order |
|---|---|
| UploadBlob | `ReceiveBlob`, `AskMaster` (the steps of the allocation), `TakeWorkers`, then per worker `OpenSave` or `OpenSaveFails`, `ServeSave` (the steps of the worker), `ServeNotify` (those of the notification), `NotifyAnswered`, `SaveAnswered`; `StreamBreaks` at any time |
| GetBlob | `LocateBlob`, `StartFetch`, `ServeGet`, `EndFetch`; `FetchBreaks` at any time |
| DeleteBlob | `StartRemoval`, per holder `ServeErase` (the steps of the worker) and `AskedWorker`, `EndRemoval` |
| `run_worker` | `Crash`, `ServeRegister` (the steps of the registration), `Retry`, `Serve` |
| a master fails | `MasterFault` |

The worker's stream of a SaveBlob stays open while the frontend is sending
(`Streaming`): until then an incomplete stream is not rejected. A complete one may be
accepted before the frontend reads the answer, as with gRPC. What the frontend wrote
before its stream broke, the worker still reads. A handler that runs when
its caller dies or gives up runs on: the notification of a worker that has died, the
allocation of an upload that has failed, a deletion at a worker whose master has gone
on. `upload[u].temp` is the temporary file,
which stays behind when an upload fails. `BadDisks` are
the workers whose disk fails: a write falls short there unnoticed, a read ends the stream
of a download before its end. The frontend never sets `size_mb`, so all
sizes are 0 in `BlobStore`, and the space accounts are left to `MasterAccounting`.
`FetchBreaks` ends a download as "cut" when the worker's stream breaks: the answer
is OK, since the frontend does not call Finish on that stream.

`sent` holds the registrations a worker has sent. A worker goes on to the next try, or
serves after its last, while a master may not have received the one before, or still
runs it: `ServeRegister` is not tied to what the worker does.

`DurableSpec` says that all this implements `DurableStore`, an abstract store that knows
neither rows nor files nor messages. The refinement mapping is at the end of `BlobStore`:

| `DurableStore` | `BlobStore` |
|---|---|
| `kept` | the copies that are SAVED at the masters and whole on their worker, and not in doubt |
| `deleted`, `restarted`, `torn` | blobs a deletion has begun of; workers that have died; copies of which a write fell short |
| `put` | `upload`: "allocating" and "sending" are one state, "asked" |
| `got` | `fetch`: a download that was answered OK is "whole" or "part", by what was relayed, or "cut" when a disk did not give the file back |

`Keep` is the commit of `UpdateBlobEntry`, or a stutter when the copy is in doubt by
then; `Delete`, `Restart` and `Tear` are the query of a deletion, the death of a worker and
a short write;
`Acknowledge` is the last `SaveAnswered`; `Relay` and `RelayPart` are `EndFetch`, which
the code does not tell apart. Everything but these and the start or failure of a request
is a stutter. The abstract guards are the promise: an upload is acknowledged only with
`Replicas` copies, each kept or in doubt; a download is answered with less than the blob
only when some worker's copy of it is in doubt. A kept copy is only ever given up by
`Delete`, `Restart` and `Tear`.

### Sessions of clients

`ClientSession` adds to `BlobStore` the program that makes the calls. A client's
upload, download and deletion have the client's own name, and `Requested` lets a call
arrive at a frontend only when its client has made it: while it is in it, or later, when it
has lost the connection (`lost`).

| code | actions, in order |
|---|---|
| `run_frontend_ping` | `Ping`, five times in the code |
| `run_frontend_upload_blob` | `UploadBlob`, `UploadAnswered` |
| `run_frontend_get_blob` | `BlobRetrieved`, which compares, or `RetrievalFails` |
| `run_frontend_delete_blob` | `DeleteAnswered` |
| a connection is lost | `ConnectionBreaks`, for clients in `HangUps` |

The blob is a constant of the program, so all users work on one hash and disturb one
another: one may delete what another has just uploaded. A client whose connection
breaks goes on, or ends, while its call may still arrive and run.

### Bytes of an upload

`BlobStore` and `WorkerService` take a chunk for a chunk. `BlobTransfer` has the bytes:
the client's chunks may have any size, the temporary file holds bytes, and the iterator
cuts it anew.

| code | actions and operators |
|---|---|
| `receive_and_hash_blob` | `ReadInfo`, `ReadChunkData` (through `New` and `append_chunk`), `ReadChunkFails`, `EndOfStream` |
| `for (chunk : blob)` | `Iterating` (`!=`), `OpenStream`, `ReadChunk` and `ReadingFails` (`*`), `SendChunk` with `Advanced` (`++`) |
| the end of the loop | `EndOfBlob`, `SendFails`; `HashMatches` is the worker's test |

Files are numbered (`disk`) and `dir` says which of them a name stands for, since the
two come apart: a writer opens the file by name for every chunk, with `ios::app`,
which creates it when it is gone; a reader keeps the file it opened when its name is
removed. The name is `rand()`, so two uploads may draw the same. `streamed` is what
went to the hasher, which is taken to be perfect, and its length is `file_size_`.
`DiskFails` lets writes fall short and reads fail.

### Boot of a worker

| code | actions, in order |
|---|---|
| `get_free_storage` | `GetFreeStorage`, or the process exits |
| `while (tries--)` | `Try`, then `TryAnswered`, `TryRefused` (the master is down or has died) or `TryBreaks`; `GiveUp` is the test that fails and decrements once more |
| after the loop | `StartServer`, with the test `tries == 0` |
| `RegisterWorker` at the master | `Register`, the steps of `MasterService` for the try `<<w, n>>`; `RegisterFails` |
| masters | `MasterDies`, `MasterStarts`; `MasterOf` is `ordinal % masters_count` |

A try that broke may still be run, at any later time and beside later tries of the
same worker. `lost` records the tries cut off midway, of which nothing is left but the
commits they made. The module has no blobs: what a late registration does to copies is
checked in `BlobStore`.

## 3. What the runs check

| run | instance | shows |
|---|---|---|
| `master_handlers` | 1 blob, 2 workers, 2 copies; 2 uploads, 1 notification, 1 lookup, 1 registration, 1 deletion; faults | `TypeOK`; `ExclusivePlacement`: two uploads never share a worker's file unless the row was erased; `ReportedCopyStaysSaved`; `AllocationComplete`; `BelievedSpaceNotNegative`; `OrderlySpaceNotOverpromised`: without overlap and failures the accounts are right; `CatalogSpec`: the handlers refine `BlobCatalog` |
| `accounting_race` | 2 blobs, 2 workers, 2 overlapping uploads | **violated**: finding 1 |
| `worker_calls` | 2 saves, 1 get, 1 delete, all of one of 2 blobs of 2 chunks, overlapping at will; one of the saves may stream the other blob; a failing disk, crashes | `TypeOK`; `OrderlyBlobIsWhole`: while `orderly`, a file nobody writes is its whole blob; `SentIsPrefix`: while `orderly`, a reader is sent the beginning of its blob; `EveryCallAnswered` |
| `worker_disk` | 1 blob of 2 chunks, 1 save, a failing disk | **violated**: finding 4 |
| `store_uploads` | 1 blob of 2 chunks, 2 workers, 2 copies; 2 uploads, 2 registrations; commits, masters, streams, connections and the opening of files fail, disks are good | `UndisturbedCopyIsWhole`: a copy announced as SAVED is whole until the blob is deleted, the worker dies or a write falls short, whichever uploads overlap and break; `AcknowledgedUploadIsStored`: an upload answered OK has all its copies; `OneUploadPerFile`: two uploads never write one file unless its row was erased; `DurableSpec`: the system implements `DurableStore`, with workers that die |
| `store_requests` | 1 blob of 2 chunks, 2 workers, 2 copies; 1 upload, 1 download, 1 deletion; the same failures, and on one worker short writes and failing reads; no worker dies | `TypeOK`, `UndisturbedFetchIsWhole`: a download answered OK has the blob unless it was deleted, the worker died, its disk wrote short or did not give the file back, or the stream broke; `AcknowledgedIsFound`: after an acknowledged upload a lookup finds a holder; `DurableSpec`, with downloads and deletions |
| `store_delete` | 1 blob of 2 chunks, 2 workers; 2 uploads, 1 deletion, no faults | **violated**: finding 2 |
| `store_restart` | 1 blob, 2 workers; 2 uploads, 1 registration, no faults but one death | **violated**: finding 3 |
| `client` | 2 users of one blob, 2 workers, 1 copy; one of the users may lose its connections | `EverySessionEnds`; `MismatchHasCause`: data that does not match is due to another user's deletion (the only cause there is in this run; the theorem has the others), a broken stream, a death or a disk; `DeletedBlobIsGone`: a client alone on its blob leaves nothing of it |
| `transfer` | 2 uploads of up to 3 bytes of 2 kinds, 2 names, chunks of up to 2 bytes; writes fall short and reads fail | `TypeOK`; `SentIsBeginning`: what is sent is the temporary file up to the iterator, in order; `FailureHasCause`: a blob whole in a file of its own is accepted, unless it cannot be read; `LeftoverHasOwner`; `EveryChunkAdvances` |
| `boot` | 2 workers of one of 2 masters, 2 tries each, 1 outage | `TypeOK`; `RegistrationHolds`: overlapping tries of a worker never lose its row; `EveryWorkerComesUp` |
| `boot_log` | 1 worker of 1 master, 2 tries | **violated**: finding 5 |

**Bounds.** A call is used once, so the number of calls is the bound on behaviours;
each run has every pair of handlers that can disturb its properties, twice the
handler that can disturb itself. Two copies stand for the code's three: with two
the allocation loop already has a worker done, one at hand and one to come. Sizes
and spaces are the smallest with which a worker has room for one blob and not for
two. Two chunks are the fewest with a first, a last and a gap. In
`master_handlers` the first allocation takes the space of both workers to one half, the
second the rest. In `BlobStore` every call at a frontend makes one at a master
and one or more at workers; two uploads on two workers are enough for the row of a
copy to decide which upload gets a worker, for one to break while the other is
announced, and for a notification of the first to meet a row of the second.
`client` has one copy per upload and one chunk, which still leaves a worker that is not
used; two users are enough for each call of one to meet each of the other. Three bytes
in chunks of two give a whole chunk, a shorter last one, and files of exactly one chunk
and of none. Two tries are a first whose handler runs late and a last; the two workers
share a master, and the second master shows that its outage is of no concern to them.

**Symmetry.** Blobs, workers and the calls of one RPC are used through equality
only; the sets are permuted in the safety runs and never in a liveness run.

**Fairness.** `FairSpec` says that a handler which has started goes on to its next
step: a gRPC server thread runs its handler to the end, and the database, the other
process or the peer answers with some status. No RPC in the code has a deadline, so
a peer that never answers is outside what fairness assumes. Calls need not arrive,
faults are not owed, and nothing is promised to a call that has not started. In the
worker the frontend is assumed to go on streaming or to go away.

`ClientSession` assumes less, with one fairness condition over all that may go on: while
some client, call on its way, frontend, master or worker can take a step, some
step is taken (`Owed` of `BlobStore` names the steps of the system). A session takes
finitely many steps, so that is enough, and it is no assumption about which thread is
served first. A connection need not break. No worker dies in `client`; deaths of workers
are in `worker_calls` and, for safety and deadlock, in `store_uploads`; deaths of masters in
`boot`. That the safety of sessions holds with deaths too is proved.
In `WorkerBoot` a worker goes on when it is not waiting, and a master that is up runs
what it has received; a master that is down need not come back.

**Deadlock** is checked in every run. The stuttering disjunct `Quiet` is enabled
only when every call has been answered, so a deadlock would be a call left half way.

## 4. What the runs found

1. *A lost lock* (`accounting_race`; `src/master/master_service.cpp:48`). Two
   allocations read the row of one worker, and the second writes back its
   `locked_space_mb` plus its own size, without the first's. The space of the first
   blob is no longer locked, and a later query may choose a worker that has no room.
   As long as the handlers have not overlapped and none has failed midway, the accounts
   are right (`OrderlySpaceNotOverpromised`, proved), so it is the overlap that is at
   fault and not the sums. Whatever is lost, the space a master believes free never becomes
   negative (`BelievedSpaceNotNegative`, proved).
2. *Two writers of one file* (`store_delete`; `src/worker/worker_service.cpp:36`).
   A second SaveBlob of a blob truncates the file the first is appending to. The
   hash of each stream is right, and nobody looks at the file. The masters keep two
   uploads of a blob from one worker (`ExclusivePlacement`, proved) *unless a deletion
   erases the row between them*: upload, delete and upload again while the first
   still streams is enough, and leaves a copy announced as SAVED that is not the blob.
3. *A confirmation of the wrong row* (`store_restart`;
   `src/master/master_service.cpp:103`). NotifyBlobSaved queries the row in one commit
   and writes it in another, by key. A restart of the worker and a second upload in
   between put a new row under the same key; the copy is announced, the worker
   serves, and has no file.
4. *Unnoticed short writes* (`worker_disk`; `src/common/blob_file.hpp:138`). The state of
   the stream is not tested after write or close, and the hasher gets the chunk
   from memory: on a full disk a worker reports a blob it does not have. In `BlobStore`
   the workers in `BadDisks` do so too, and the properties of copies, uploads and
   downloads except what was torn this way (`Torn`): nothing else makes a copy that is
   announced, and not deleted, less than the blob while its worker lives.
5. *The wrong worker complains* (`boot_log`; `src/worker/main.cpp:61`). After
   `while (tries--)` has run out `tries` is -1, and it is 0 when the last try succeeded.
   So "Couldn't register at master service" is logged by a worker that is registered, and
   a worker whose tries all failed serves without a word. `Complaints` proves that the
   message is wrong whenever it is logged.

What follows was met while modelling and is no finding of a run, since no text of the
repository says otherwise or none of the model's properties is about it:

- The comment at `src/common/environment.hpp:46` gives master i the workers
  `[i * workers_per_master, ...]`; the code (`environment.hpp:100`) takes
  `ordinal % masters_count`. The masters share their tables, so nothing depends on it.
- Free storage is reported in bytes (`src/worker/worker_service.cpp:14`) and stored as
  `available_space_mb` (`src/master/master_service.cpp:124`).
- An upload that fails leaves rows in DURING_CREATION, and the blob cannot be uploaded
  again until it is deleted. It leaves its temporary file too (`LeftoverHasOwner`).
- A registration whose handler runs late erases the rows of files the worker has got since
  (`src/master/master_service.cpp:120`). Nobody finds these files any more, so a deletion
  answered OK leaves them. So it does where a worker could not be asked, or failed, which
  the master ignores on purpose. `DeletedBlobIsGone` therefore excepts files at workers
  that have died, and no others. `client` has no deaths; the theorem `DeletedIsGone` has any
  number.
- An empty blob cannot be stored: its loop sends no chunk (`FailureHasCause`).

## 5. What is proved

For every number of blobs, workers, copies and calls, all sizes and spaces in Nat,
with and without faults (TLAPS):

| theorem | module | property and argument |
|---|---|---|
| `TypeCorrect` | `MasterServiceProofs` | `TypeOK` is inductive; one lemma per handler |
| `ReportedCopies` | `MasterServiceProofs` | `ReportedCopyStaysSaved` is inductive relative to `TypeOK` |
| `Exclusion` | `MasterServiceProofs` | `ExclusivePlacement`, by `AllocInv` |
| `CompleteAllocation` | `MasterServiceProofs` | `AllocationComplete`, by `AllocInv` |
| `CatalogImplemented` | `MasterServiceProofs` | `CatalogSpec`: one abstract step or a stutter per action |
| `SpaceNeverNegative` | `MasterAccountingProofs` | `BelievedSpaceNotNegative`, by `SpaceInv` |
| `OrderlyAccounting` | `MasterAccountingProofs` | `OrderlySpaceNotOverpromised`, by `OrderlyAccounts` |
| `OrderlyCopiesFit` | `MasterAccountingProofs` | run one at a time, the copies placed on a worker fit in a space it can report |
| `WorkerTypeCorrect` | `WorkerServiceProofs` | `TypeOK` is inductive |
| `StoredBlobs` | `WorkerServiceProofs` | `OrderlyBlobIsWhole`, by `FilesInv` |
| `SentPrefixes` | `WorkerServiceProofs` | `SentIsPrefix`, by `Beginnings` |
| `MastersImplemented` | `BlobStoreProofs` | every step of the system is a step of the masters or a stutter |
| `OneUpload` | `BlobStoreProofs` | `OneUploadPerFile`, by `SendingInv` and `Exclusion` carried over |
| `StoreTypeCorrect` | `BlobStoreCopyProofs` | `TypeOK`, from the types of masters and workers |
| `CopiesAreWhole` | `BlobStoreCopyProofs` | `UndisturbedCopyIsWhole`, by `CopyInv` and `OneUpload` |
| `AcknowledgedStored` | `BlobStoreCopyProofs` | `AcknowledgedUploadIsStored`, by `AnsweredOK` |
| `AcknowledgedFound` | `BlobStoreCopyProofs` | `AcknowledgedIsFound`, from `AcknowledgedStored` |
| `FetchesAreWhole` | `BlobStoreCopyProofs` | `UndisturbedFetchIsWhole`, by `ReadSoFar` |
| `DurableImplemented` | `BlobStoreCopyProofs` | `DurableSpec`: one abstract step or a stutter per action, under `StoreInv` |
| `MismatchesExplained` | `ClientSessionProofs` | `MismatchHasCause`, by `Explained` |
| `DeletedRowsAreGone` | `ClientSessionProofs` | `NoRowLeft`: the part of `DeletedBlobIsGone` about rows, with faults |
| `DeletedIsGone` | `ClientSessionProofs` | `DeletedBlobIsGone`, by `NoFileLeft`; assumes `~Faults` |
| `TransferTypeCorrect` | `BlobTransferProofs` | `TypeOK` and `IterInv` together are inductive |
| `SentBeginnings` | `BlobTransferProofs` | `SentIsBeginning`, by `FilesInv` and `ReadInv` |
| `ChunksAdvance` | `BlobTransferProofs` | `EveryChunkAdvances`, by `IterInv` |
| `FailureCauses` | `BlobTransferProofs` | `FailureHasCause`, by `FilesInv` and `ReadInv` |
| `LeftoversOwned` | `BlobTransferProofs` | `LeftoverHasOwner`, by `FilesInv` |
| `BootTypeCorrect` | `WorkerBootProofs` | `TypeOK`, from `BootTyped` |
| `RowsHold` | `WorkerBootProofs` | `RegistrationHolds` is inductive relative to `BootTyped` |
| `Complaints` | `WorkerBootProofs` | `ComplaintsAreWrong`, by `LoopInv` |

Where no assumption is named, a theorem holds with and without faults, and with any of the
workers' disks bad. What a fault may break is an exception in the property itself: the
four that speak of copies, uploads, downloads and mismatches except a short write (`Torn`)
and, of downloads, a file that was not read to its end (`unread`), as finding 4 shows they
must.

- `BelievedSpaceNotNegative` speaks of the table alone and is not inductive: a
  handler may write back a row it read long ago. `SpaceInv` adds what the calls in
  flight remember: every row an allocation has still to write leaves room for its
  blob (`AllocRoom`), and every row a notification has read leaves at least nothing
  (`NotifyRowsFree`). `FreeSpaceOfWrites` is the arithmetic: a lock lowers the free
  space of the row it was computed from by the size, a charge leaves it unchanged.
  So the accounts may be wrong, but not negative.
- `OrderlyAccounting` is about the states between two calls, and its invariant about the
  middle of one. While an allocation runs, the accounts of one worker are off by the one copy
  it has inserted and not yet locked space for (`RightAt`), and what the call read of the
  tables is still what they hold (`AllocReads`, `NotifyReads`, `RegisterReads`), because
  nothing else has run since (`Alone`). Any second handler breaks the latter, which is finding
  1. The space reserved on a worker is the cardinality of a set with one pair for each
  megabyte of each copy, so a copy inserted adds its size (`ReservedGrows`) and no induction
  over the blobs is needed. `OrderlyCopiesFit` joins it with `SpaceNeverNegative`.
- `ReportedCopyStaysSaved` rests on `CopyFate`: in one step a copy keeps its state, is
  inserted where there was none, becomes SAVED, or is erased by a call that
  `Erased` then records for good (`ErasedStable`).
- `AllocInv` relates the local variables of an allocation: placed and still to be
  done add up to `Replicas`, except for the one being locked (`AllocCount`), and
  what was placed is there or was erased (`PlacedKept`). `ExclusivePlacement` follows
  from `PlacedGrowth`: a worker joins `placed` only by an insert that found no row.
- `CatalogImplemented` maps `catalog[h][w]` to `blob_copy[h][w].state`. Inserts are
  Place, updates are Confirm or a stutter, and the two DELETE statements are Forget
  and Expel.
- `FilesInv` says how far each SaveBlob has come: what its file holds is the prefix
  of its blob that it has received (`ReceivedSoFar`). It holds while `orderly` does, and
  findings 2 and 4 are what happens then. `Die` is `Lose(Hashes)`, and the
  lemma `LoseStep` covers the loss of any set of files.
- `SentPrefixes` has to follow a reader whose file is removed, emptied or written again
  under it. `Beginnings` says that a file holds a beginning of its blob, and so does what
  a reader kept of a removed file, and what it has sent. `ReaderMoves` and `FileMoves` are
  all that happens to either. A short write or a second writer breaks it, as it does
  `StoredBlobs`.
- `MastersImplemented` is what lets a theorem about `MasterService` be used of the
  system. `BlobStoreProofs` instantiates the module of those theorems as `MP`;
  `SameMasters` says that `MP!Spec` is `Master!Spec`, which holds by expanding both.
- `OneUpload` joins two components. `SendingInv` says that a frontend sends a blob only
  where its allocation placed it (`SentWherePlaced`; an answered allocation no longer
  changes, `AnsweredAlloc`), and `ExclusivePlacement` that no two allocations of a blob
  placed it on one worker.
- `BlobStoreCopyProofs` is about copies that are not *disturbed*: their blob has not been
  deleted, their worker has not died, no write of them fell short. All are for good
  (`DisturbedStays`), and whoever erased the row of a copy has disturbed it
  (`ErasedIsDisturbed`). So `OneUpload` gives an undisturbed file one writer, which
  `orderly` only supposes, and nothing removes it
  (`FileFate`). `Frame` is what all of it starts from: `Types`, the calls of one request
  are about one blob (`Arguments`), and whatever a worker or a master does was asked for
  (`Causes`). The types of the workers come from `WorkerServiceProofs`, instantiated as
  `WP`, as those of the masters come from `MP`.
- `CopiesAreWhole` follows the upload. What its file holds is what the worker has received
  (`WrittenSoFar`); the worker notifies after it has compared the hash (`SaveOrder`); a
  row becomes SAVED by a notification only (`SavedByNotify`).
- `AcknowledgedStored` follows the answers back: a worker the frontend is done with has
  answered OK, so it was answered OK by a master, which had written SAVED
  (`AnsweredSoFar`); a SAVED copy stays so (`ReportedCopies`); an allocation placed all
  copies (`CompleteAllocation`); and SAVED copies are whole.
- `AcknowledgedFound` follows: a SAVED copy of `AcknowledgedStored` is in the answer of the
  query when the lookup comes, at whichever master.
- `FetchesAreWhole`: the master named a SAVED copy, which is whole. `WholeSoFar` says that
  the reader opened it at its full length and has sent its beginning, and that it ends
  early only when its frontend is gone or its disk fails it (`unread`). What keeps the file
  still under the reader is that the blob's only upload is over: a second one would have
  to find the row gone.
- `DurableImplemented` puts the above together. A step moves the masters or the rest, not
  both (`StepOfOneSide`). A row becomes SAVED by a notification and ceases to be by a deletion
  or registration that began earlier, so its copy is in doubt by then (`SavedFate`,
  `DisturbedBy`). A file ceases to be whole only in doubt too (`CopiesAreWhole`). `PutFate` and
  `GotFate` are all that happens to a request, seen from outside. The abstract guards follow
  from the theorems above: `Acknowledge` from `AcknowledgedStored`; `Relay` and `RelayPart` from
  `FetchesAreWhole`; and that a blob which is SAVED was once uploaded, from `GivenFirst`.
- `ClientSessionProofs` rests on `SessionIsStore`: a session is a behaviour of the system,
  so the theorems above hold of it, as `CP`. `OneAfterTheOther` says that a client asks for
  its deletion after its upload was acknowledged and its data compared. With it, the
  deletion among the causes in `FetchesAreWhole` is another user's (`Explained`); causes
  stay, and so does what was compared (`FetchForGood`).
- `DeletedIsGone`: when a client deletes and no other user has come to a master (`Alone`),
  no allocation is in flight, so no row is inserted (`RowBy`) and no file is created
  (`FilesArrive`): its own saves have all been answered. Every worker with a file holds a
  SAVED copy, is asked, and answers after the file is gone (`DoneWith`, `ErasedFile`). The
  rows go with any fault. The file needs `~Faults`: the master ignores what a worker
  answers, so a removal that failed leaves it.
- `IterInv` is what keeps `!=` in place of `<` harmless: the iterator is never beyond the
  end, and a chunk in its hands is as long as `BytesToRead` says, at least one byte as
  long as the end is not reached (`BytesToReadBounds`). So each chunk sent moves it
  on by one byte at least and to the end at most, for every size.
- `FailureCauses` needs to know what was read. `FilesInv` says that a name stands for one
  file and a file has one name; `ReadSoFar` that an upload whose file is its own and
  whole has sent the beginning of the blob and read what comes next. Its proof has two
  halves: a step of another upload can neither mend the file nor give the name back
  (`OthersRead`), and the upload's own steps go on where the last one stopped
  (`OwnRead`).
- `RowsHold`: an insert that ends a try finds the row or makes it; the row is only
  erased by a try that is then in flight; and a try that fails or dies is remembered.
- `LoopInv` follows `tries` through the loop: it is 0 outside only after a `break` in the
  last try.

The assumptions are those the modules declare for their constants: positive counts
(`ReplicasAssumption`, `ChunksAssumption`), sizes and spaces in Nat, Boolean switches, and
for `ClientSession` that the program has one blob (`OneBlob`).

**Only model-checked**: liveness (`EveryCallAnswered`, `EverySessionEnds`,
`EveryWorkerComesUp`), since fairness and ENABLED are out of the prover's reach. Every other
property of a passing run is stated by a theorem above.

**Design of the modules.** No module uses a RECURSIVE operator or a fold. Operators
ending in a slip (`AddBlobEntry_Upsert`, `RejectStream_KeepsFile`, ...) stand beside the
definition they alter: each is a mistake one could make in that code, kept to show that
the property named for it in `PROJECT.json` notices. No specification uses them.

## 6. The plan

All modules of section 2, their runs and the theorems of section 5 are done. Left, for whoever
goes on: that a session of `ClientSession` is one client's view of `DurableStore` alone, without
the system below it; the accounts when handlers overlap, for which the code gives no
guarantee but the one of `SpaceNeverNegative`; and hash to master, once masters keep a state
of their own.

## 7. What is not modelled

- Hash to master (`src/frontend/frontend_service.hpp`): masters keep nothing but the
  tables they share, so it does not matter which one serves a call.
- Time: the ten seconds between tries, the sleeps of the client. Any delay is covered,
  since a step may come at any time.
- The hash function: taken to be perfect. `WorkerService` and `BlobStore` have the chunk
  for the smallest piece, `BlobTransfer` the byte.
- In `BlobTransfer`, one worker stands for the several an upload is sent to one after the
  other: each gets an iterator of its own over the same file. In `client` no worker
  dies and no stream between servers breaks; the theorems on sessions have deaths, and all
  but `DeletedIsGone` broken streams too.
- Healthcheck, logging, `Expected`: no state of their own. Expected is the early return
  of each action.
- `master_service_mock.hpp` and `master_db_example.cpp`: a test double and a
  demonstration, not part of the running system.
- Spanner and gRPC: external. A commit is atomic and durable; a call is answered once.
  A commit that took effect but is reported as failed is a failed call after that commit;
  so is the death of a master before its answer. Both are fault actions, for the last
  commit of a call too (`Answers`).
- A failing disk is a write that falls short and an open or read that fails. In the system
  TLC has them in `store_requests` only; the theorems have them everywhere. A
  `remove` that throws in a worker's DeleteBlob (`worker_service.cpp:91`) is no action of
  `WorkerService`. In `BlobStore` it is a DeleteBlob that gets no further while the master,
  which ignores what a worker answers, goes on to the next one (`AskedWorker`).
- Deployment files, build files, generated code.
