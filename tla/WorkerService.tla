--------------------------- MODULE WorkerService ----------------------------
(***************************************************************************)
(* One worker: the RPC handlers of src/worker/worker_service.cpp over the  *)
(* files of its blobs/ directory (src/common/blob_file.hpp).  Handlers run *)
(* on gRPC threads with no lock; one action is one file operation or one   *)
(* RPC of one call.  The container's disk does not survive the process.    *)
(*                                                                         *)
(* Every blob is Chunks chunks long; <<b, i>> is the i-th chunk of the     *)
(* blob whose hash is b, and <<b, 0>> a piece of one, which is what a      *)
(* short write leaves.  The hash is taken to be perfect: what was streamed *)
(* hashes to h only if it is the whole of blob h (xxHash64 in the code).   *)
(* Writers reopen the file by name for every chunk; a reader keeps it open,*)
(* and goes on reading a file that was removed meanwhile.                  *)
(***************************************************************************)
EXTENDS Integers, Sequences

CONSTANTS
  Hashes,                 \* blob hashes: file names
  Saves, Gets, Deletes,   \* the calls, by RPC
  Chunks,                 \* chunks in a blob
  Faults,                 \* whether file operations fail
  Crashes                 \* whether the process dies

ASSUME ChunksAssumption == Chunks \in Nat \ {0}
ASSUME SwitchesAssumption == Faults \in BOOLEAN /\ Crashes \in BOOLEAN

VARIABLES
  files,    \* names in blobs/
  data,     \* data[h]: what file h holds; empty when there is none
  save,     \* SaveBlob calls
  get,      \* GetBlob calls
  delete    \* DeleteBlob calls

vars == <<files, data, save, get, delete>>

Final == {"ok", "error"}
Active(pc) == pc \notin {"idle"} \cup Final

\* The first n chunks of blob b.
Prefix(b, n) == [i \in 1..n |-> <<b, i>>]
Content(h) == Prefix(h, Chunks)

Data == Seq(Hashes \X (0..Chunks))

\* hash: the claim of the first request; blob: what is streamed, which may be
\* another blob; received: chunks of it read so far; short: whether a write of
\* the call has fallen short.
SaveCall == [hash : Hashes, blob : Hashes, received : 0..Chunks, short : BOOLEAN,
             pc : {"idle", "receiving", "notifying"} \cup Final]
\* size: that of the file when it was loaded; held: what the open file holds
\* once its name was removed; unread: whether the disk has failed the reader.
GetCall == [hash : Hashes, pc : {"idle", "loaded", "sending"} \cup Final,
            size : Nat, sent : Data, unlinked : BOOLEAN, held : Data, unread : BOOLEAN]
DeleteCall == [hash : Hashes, pc : {"idle", "found"} \cup Final]

Init ==
  /\ files = {}
  /\ data = [h \in Hashes |-> <<>>]
  /\ save \in [Saves -> [hash : Hashes, blob : Hashes, received : {0}, short : {FALSE},
                      pc : {"idle"}]]
  /\ get \in [Gets -> [hash : Hashes, pc : {"idle"}, size : {0}, sent : {<<>>},
                       unlinked : {FALSE}, held : {<<>>}, unread : {FALSE}]]
  /\ delete \in [Deletes -> [hash : Hashes, pc : {"idle"}]]

-----------------------------------------------------------------------------
(* BlobFile *)

\* Slip: ios::app in place of ios::trunc.
New_Appending(h) == files' = files \cup {h} /\ UNCHANGED data

\* Create the file, or empty the one that is there.
New(h) ==
  /\ files' = files \cup {h}
  /\ data' = [data EXCEPT ![h] = <<>>]

\* ios::app: a file that has disappeared is created anew.
append_chunk(h, chunk) ==
  /\ files' = files \cup {h}
  /\ data' = [data EXCEPT ![h] = Append(@, chunk)]

\* The name goes; whoever has the file open keeps what it holds.
remove(h) ==
  /\ files' = files \ {h}
  /\ data' = [data EXCEPT ![h] = <<>>]
  /\ get' = [g \in Gets |->
       IF get[g].hash = h /\ get[g].pc = "sending" /\ ~get[g].unlinked
         THEN [get[g] EXCEPT !.unlinked = TRUE, !.held = data[h]]
         ELSE get[g]]

\* The files named are lost, and every call in flight on them fails at its caller.
Lose(names) ==
  /\ files' = files \ names
  /\ data' = [h \in Hashes |-> IF h \in names THEN <<>> ELSE data[h]]
  /\ save' = [s \in Saves |-> IF save[s].hash \in names /\ Active(save[s].pc)
                                THEN [save[s] EXCEPT !.pc = "error"] ELSE save[s]]
  /\ get' = [g \in Gets |-> IF get[g].hash \in names /\ Active(get[g].pc)
                              THEN [get[g] EXCEPT !.pc = "error"] ELSE get[g]]
  /\ delete' = [d \in Deletes |-> IF delete[d].hash \in names /\ Active(delete[d].pc)
                                    THEN [delete[d] EXCEPT !.pc = "error"] ELSE delete[d]]

\* Nothing in blobs/ survives the process.
Die == Lose(Hashes)

-----------------------------------------------------------------------------
(* SaveBlob *)

\* The first request: its hash names the file.
SaveBlob(s) ==
  /\ save[s].pc = "idle"
  /\ New(save[s].hash)
  /\ save' = [save EXCEPT ![s].pc = "receiving"]
  /\ UNCHANGED <<get, delete>>

\* A chunk goes to the file and to the hasher.
ReceiveChunk(s) ==
  /\ save[s].pc = "receiving"
  /\ save[s].received < Chunks
  /\ append_chunk(save[s].hash, <<save[s].blob, save[s].received + 1>>)
  /\ save' = [save EXCEPT ![s].received = @ + 1]
  /\ UNCHANGED <<get, delete>>

\* The chunk reaches the hasher, and of the file write a piece or nothing: the
\* state of the stream is not tested after write or close.
ReceiveChunkShort(s) ==
  /\ save[s].pc = "receiving"
  /\ save[s].received < Chunks
  /\ \/ append_chunk(save[s].hash, <<save[s].blob, 0>>)
     \/ files' = files \cup {save[s].hash} /\ UNCHANGED data
  /\ save' = [save EXCEPT ![s].received = @ + 1, ![s].short = TRUE]
  /\ UNCHANGED <<get, delete>>

\* The file cannot be opened for appending (FileSystemException): what was
\* written stays.  One that cannot be created fails the call as EmptyStream does.
ReceiveChunkFails(s) ==
  /\ save[s].pc = "receiving"
  /\ save[s].received < Chunks
  /\ save' = [save EXCEPT ![s].pc = "error"]
  /\ UNCHANGED <<files, data, get, delete>>

\* What was streamed hashes to the hash claimed.
HashMatches(s) == save[s].blob = save[s].hash /\ save[s].received = Chunks

\* The stream is over, at its end or because the frontend is gone.
AcceptStream(s) ==
  /\ save[s].pc = "receiving"
  /\ HashMatches(s)
  /\ save' = [save EXCEPT ![s].pc = "notifying"]
  /\ UNCHANGED <<files, data, get, delete>>

\* Slip: the file of a rejected stream is left behind.
RejectStream_KeepsFile(s) ==
  /\ save[s].pc = "receiving"
  /\ save[s].received > 0
  /\ ~HashMatches(s)
  /\ save' = [save EXCEPT ![s].pc = "error"]
  /\ UNCHANGED <<files, data, get, delete>>

RejectStream(s) ==
  /\ save[s].pc = "receiving"
  /\ save[s].received > 0
  /\ ~HashMatches(s)
  /\ remove(save[s].hash)
  /\ save' = [save EXCEPT ![s].pc = "error"]
  /\ UNCHANGED delete

\* The stream is over before a request: blob_file->remove() on an optional that
\* has no value, undefined.  The call fails or the process dies.
EmptyStream(s) ==
  /\ save[s].pc = "idle"
  /\ \/ /\ save' = [save EXCEPT ![s].pc = "error"]
        /\ UNCHANGED <<files, data, get, delete>>
     \/ Die

\* NotifyBlobSaved answered; a refusal leaves the file.
MasterAnswers(s) ==
  /\ save[s].pc = "notifying"
  /\ \E status \in Final : save' = [save EXCEPT ![s].pc = status]
  /\ UNCHANGED <<files, data, get, delete>>

-----------------------------------------------------------------------------
(* GetBlob *)

\* Slip: no test that the file exists; the size of a missing one is -1.
GetBlob_Unchecked(g) ==
  /\ get[g].pc = "idle"
  /\ get' = [get EXCEPT ![g].pc = "loaded",
                        ![g].size = IF get[g].hash \in files THEN Len(data[get[g].hash])
                                                             ELSE -1]
  /\ UNCHANGED <<files, data, save, delete>>

\* BlobFile::Load: the size the iteration will run to.
GetBlob(g) ==
  /\ get[g].pc = "idle"
  /\ get' = IF get[g].hash \in files
              THEN [get EXCEPT ![g].pc = "loaded", ![g].size = Len(data[get[g].hash])]
              ELSE [get EXCEPT ![g].pc = "error"]
  /\ UNCHANGED <<files, data, save, delete>>

\* The first chunk opens the file, by name again; an empty one is not opened.
OpenStream(g) ==
  /\ get[g].pc = "loaded"
  /\ get[g].size > 0
  /\ get' = [get EXCEPT ![g].pc = IF get[g].hash \in files THEN "sending" ELSE "error"]
  /\ UNCHANGED <<files, data, save, delete>>

Readable(g) == IF get[g].unlinked THEN get[g].held ELSE data[get[g].hash]

\* Slip: ++ does not advance (next_byte += 0).
SendChunk_Stays(g) ==
  /\ get[g].pc = "sending"
  /\ Len(get[g].sent) < get[g].size
  /\ UNCHANGED vars

\* Read the next chunk and write it to the stream; a file that has become
\* shorter than when it was loaded is a FileSystemException.
SendChunk(g) ==
  LET next == Len(get[g].sent) + 1
  IN  /\ get[g].pc = "sending"
      /\ next <= get[g].size
      /\ get' = IF next <= Len(Readable(g))
                  THEN [get EXCEPT ![g].sent = Append(@, Readable(g)[next])]
                  ELSE [get EXCEPT ![g].pc = "error"]
      /\ UNCHANGED <<files, data, save, delete>>

\* begin() has reached end(), which is the size loaded.
EndOfFile(g) ==
  /\ \/ get[g].pc = "loaded" /\ get[g].size = 0
     \/ get[g].pc = "sending" /\ Len(get[g].sent) = get[g].size
  /\ get' = [get EXCEPT ![g].pc = "ok"]
  /\ UNCHANGED <<files, data, save, delete>>

\* writer->Write fails: the frontend is gone.
SendFails(g) ==
  /\ get[g].pc = "sending"
  /\ Len(get[g].sent) < get[g].size
  /\ get' = [get EXCEPT ![g].pc = "error"]
  /\ UNCHANGED <<files, data, save, delete>>

\* The file, there or not, cannot be opened, or be read as far as it goes
\* (FileSystemException).
ReadFails(g) ==
  /\ \/ get[g].pc = "loaded" /\ get[g].size > 0
     \/ get[g].pc = "sending" /\ Len(get[g].sent) < get[g].size
  /\ get' = [get EXCEPT ![g].pc = "error", ![g].unread = TRUE]
  /\ UNCHANGED <<files, data, save, delete>>

-----------------------------------------------------------------------------
(* DeleteBlob *)

DeleteBlob(d) ==
  /\ delete[d].pc = "idle"
  /\ delete' = [delete EXCEPT ![d].pc = IF delete[d].hash \in files THEN "found" ELSE "error"]
  /\ UNCHANGED <<files, data, save, get>>

\* The file may be gone by now, which is no error.
RemoveFile(d) ==
  /\ delete[d].pc = "found"
  /\ remove(delete[d].hash)
  /\ delete' = [delete EXCEPT ![d].pc = "ok"]
  /\ UNCHANGED save

-----------------------------------------------------------------------------
Crash == Crashes /\ Die

SaveStep(s) ==
  SaveBlob(s) \/ ReceiveChunk(s) \/ AcceptStream(s) \/ RejectStream(s)
    \/ EmptyStream(s) \/ MasterAnswers(s)

GetStep(g) == GetBlob(g) \/ OpenStream(g) \/ SendChunk(g) \/ EndOfFile(g)

DeleteStep(d) == DeleteBlob(d) \/ RemoveFile(d)

WriteFault == Faults /\ \E s \in Saves : ReceiveChunkShort(s) \/ ReceiveChunkFails(s)

ReadFault == Faults /\ \E g \in Gets : ReadFails(g)

\* Every call of the behaviour has been answered: the worker waits for more.
Quiet ==
  /\ \A s \in Saves : save[s].pc \in Final
  /\ \A g \in Gets : get[g].pc \in Final
  /\ \A d \in Deletes : delete[d].pc \in Final

Next ==
  \/ \E s \in Saves : SaveStep(s)
  \/ \E g \in Gets : GetStep(g)
  \/ \E g \in Gets : SendFails(g)
  \/ \E d \in Deletes : DeleteStep(d)
  \/ WriteFault
  \/ ReadFault
  \/ Crash
  \/ Quiet /\ UNCHANGED vars

Spec == Init /\ [][Next]_vars

\* A thread in a handler runs on, the frontend goes on streaming or goes away,
\* and the master answers.  Calls need not arrive, and faults are not owed.
Fairness ==
  /\ \A s \in Saves : WF_vars(save[s].pc # "idle" /\ SaveStep(s))
  /\ \A g \in Gets : WF_vars(get[g].pc # "idle" /\ GetStep(g))
  /\ \A d \in Deletes : WF_vars(delete[d].pc # "idle" /\ DeleteStep(d))

FairSpec == Spec /\ Fairness

-----------------------------------------------------------------------------
(* Properties *)

TypeOK ==
  /\ files \subseteq Hashes
  /\ data \in [Hashes -> Data]
  /\ save \in [Saves -> SaveCall]
  /\ get \in [Gets -> GetCall]
  /\ delete \in [Deletes -> DeleteCall]

\* A SaveBlob that tells the master the blob is saved has saved it: the file is
\* the whole blob at that moment.
AcceptedBlobIsWhole ==
  \A s \in Saves :
    save[s].pc = "notifying" =>
      save[s].hash \in files /\ data[save[s].hash] = Content(save[s].hash)

\* Every call that arrives is answered: the loops over chunks end, and no call
\* waits for another.  (A call is used once: in the end none is in flight.)
EveryCallAnswered ==
  <>[](/\ \A s \in Saves : ~Active(save[s].pc)
       /\ \A g \in Gets : ~Active(get[g].pc)
       /\ \A d \in Deletes : ~Active(delete[d].pc))
=============================================================================
