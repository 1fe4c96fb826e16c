---------------------------- MODULE BlobTransfer ----------------------------
(***************************************************************************)
(* The bytes of an upload on their way through a frontend: from the chunks *)
(* of the client into a temporary file (receive_and_hash_blob,             *)
(* src/frontend/frontend_service.cpp), and from the file, cut anew by      *)
(* BlobFile::ChunkIterator (src/common/blob_file.hpp), to the worker that  *)
(* hashes them again.  Uploads run on threads of one frontend and share    *)
(* its blobs/ directory: a file is named after rand(), so two uploads may  *)
(* get one name.                                                           *)
(*                                                                         *)
(* A file is what its name stands for when it is opened: a reader keeps it *)
(* when the name is removed, a writer opens it by name for every chunk.    *)
(* The hash is taken to be perfect, so it is the bytes themselves.  Which  *)
(* workers get the blob, and what becomes of it there, is the subject of   *)
(* BlobStore and WorkerService; one worker stands for them here.           *)
(***************************************************************************)
EXTENDS Integers, Sequences, SequencesExt

CONSTANTS
  Uploads,         \* UploadBlob calls at one frontend
  Names,           \* names of temporary files
  Bytes,           \* values of a byte
  MaxSize,         \* length of the longest stream of a client
  MAX_CHUNK_SIZE,  \* of the iterator; 1 MiB in the code
  DiskFails        \* whether a write may fall short, and a read fail

ASSUME SizesAssumption == MaxSize \in Nat /\ MAX_CHUNK_SIZE \in Nat \ {0}
ASSUME DiskAssumption == DiskFails \in BOOLEAN

VARIABLES
  disk,     \* files ever created; disk[f] is what f holds
  dir,      \* dir[n]: the file named n, as a set of at most one
  up,       \* up[u]: the call at the frontend
  iter,     \* iter[u]: its iterator over the temporary file
  stored    \* stored[u]: what the worker has received

vars == <<disk, dir, up, iter, stored>>

\* "refused": the stream is not what it should be; "broken": a file cannot be
\* opened for writing, or a stream or the master fails; "unreadable": a
\* FileSystemException in the loop; "rejected": the worker's hash differs.
Failed == {"refused", "broken", "unreadable", "rejected"}
Final == {"ok"} \cup Failed

\* announced: size_bytes of the header; streamed: what has gone to the hasher,
\* whose length is file_size_; name: of the temporary file, as a set of one;
\* unread: whether the disk failed to give it back.
Upload == [pc : {"idle", "receiving", "sending"} \cup Final, announced : 0..MaxSize,
           streamed : Seq(Bytes), name : SUBSET Names, unread : BOOLEAN]
\* stream: the file opened, as a set of at most one; current_chunk: likewise.
Iterator == [next_byte : 0..MaxSize, stream : SUBSET (1..Len(disk)),
             current_chunk : SUBSET Seq(Bytes)]

Init ==
  /\ disk = <<>>
  /\ dir = [n \in Names |-> {}]
  /\ up = [u \in Uploads |-> [pc |-> "idle", announced |-> 0, streamed |-> <<>>, name |-> {},
                              unread |-> FALSE]]
  /\ iter = [u \in Uploads |-> [next_byte |-> 0, stream |-> {}, current_chunk |-> {}]]
  /\ stored = [u \in Uploads |-> <<>>]

End(u, pc) == up' = [up EXCEPT ![u].pc = pc]

-----------------------------------------------------------------------------
(* BlobFile *)

\* What the file named n will hold; it is created if there is none.
Put(n, bytes) ==
  \/ \E f \in dir[n] : disk' = [disk EXCEPT ![f] = bytes] /\ UNCHANGED dir
  \/ /\ dir[n] = {}
     /\ disk' = Append(disk, bytes)
     /\ dir' = [dir EXCEPT ![n] = {Len(disk) + 1}]

Held(n) == IF dir[n] = {} THEN <<>> ELSE disk[CHOOSE f \in dir[n] : TRUE]

\* ios::trunc
New(n) == Put(n, <<>>)

\* ios::app; the state of the stream is not tested after write or close.
append_chunk(n, chunk) ==
  \E k \in 0..Len(chunk) :
    /\ k = Len(chunk) \/ DiskFails
    /\ Put(n, Held(n) \o SubSeq(chunk, 1, k))

remove(n) == dir' = [dir EXCEPT ![n] = {}]

-----------------------------------------------------------------------------
(* receive_and_hash_blob *)

\* The header, and the file that is created or emptied; a name is not known to
\* be free.  Any other first message, or none, is refused.
ReadInfo(u) ==
  /\ up[u].pc = "idle"
  /\ \/ \E n \in Names, size \in 0..MaxSize :
          /\ New(n)
          /\ up' = [up EXCEPT ![u].pc = "receiving", ![u].name = {n}, ![u].announced = size]
     \/ \E pc \in {"refused", "broken"} : End(u, pc) /\ UNCHANGED <<disk, dir>>
  /\ UNCHANGED <<iter, stored>>

\* A chunk of any size goes to the file and to the hasher.
ReadChunkData(u) ==
  /\ up[u].pc = "receiving"
  /\ \E chunk \in BoundedSeq(Bytes, MaxSize - Len(up[u].streamed)), n \in up[u].name :
       /\ append_chunk(n, chunk)
       /\ up' = [up EXCEPT ![u].streamed = @ \o chunk]
  /\ UNCHANGED <<iter, stored>>

\* A message with no data, or a file that cannot be opened for appending: the
\* file stays.
ReadChunkFails(u) ==
  /\ up[u].pc = "receiving"
  /\ \E pc \in {"refused", "broken"} : End(u, pc)
  /\ UNCHANGED <<disk, dir, iter, stored>>

\* The stream is over, at its end or not: it must have brought what was
\* announced.  The master may then have no workers for it.
EndOfStream(u) ==
  /\ up[u].pc = "receiving"
  /\ IF Len(up[u].streamed) = up[u].announced
       THEN \E pc \in {"sending", "broken"} : End(u, pc)
       ELSE End(u, "refused")
  /\ UNCHANGED <<disk, dir, iter, stored>>

-----------------------------------------------------------------------------
(* send_blob_to_worker: for (chunk : blob) *)

\* begin() != end()
Iterating(u) ==
  up[u].pc = "sending" /\ iter[u].next_byte # Len(up[u].streamed)

\* create_stream_if_necessary
OpenStream(u) ==
  /\ Iterating(u)
  /\ iter[u].stream = {}
  /\ \E n \in up[u].name :
       \/ /\ dir[n] # {}
          /\ iter' = [iter EXCEPT ![u].stream = dir[n]]
          /\ UNCHANGED up
       \/ /\ dir[n] = {}
          /\ End(u, "unreadable")
          /\ UNCHANGED iter
  /\ UNCHANGED <<disk, dir, stored>>

\* Slip: the last chunk is not shorter.
BytesToRead_Max(u) == MAX_CHUNK_SIZE

BytesToRead(u) == LET left == Len(up[u].streamed) - iter[u].next_byte
                  IN  IF left < MAX_CHUNK_SIZE THEN left ELSE MAX_CHUNK_SIZE

\* Slip: the file is opened for every chunk, and read from its start.
ReadChunk_FromStart(u) ==
  LET to == BytesToRead(u)
  IN  /\ Iterating(u)
      /\ iter[u].current_chunk = {}
      /\ \E f \in iter[u].stream :
           \/ /\ to <= Len(disk[f])
              /\ iter' = [iter EXCEPT ![u].current_chunk = {SubSeq(disk[f], 1, to)}]
              /\ UNCHANGED up
           \/ /\ to > Len(disk[f])
              /\ End(u, "unreadable")
              /\ UNCHANGED iter
      /\ UNCHANGED <<disk, dir, stored>>

\* read_chunk: a file that is shorter than what was received is an exception.
ReadChunk(u) ==
  LET to == iter[u].next_byte + BytesToRead(u)
  IN  /\ Iterating(u)
      /\ iter[u].current_chunk = {}
      /\ \E f \in iter[u].stream :
           \/ /\ to <= Len(disk[f])
              /\ iter' = [iter EXCEPT ![u].current_chunk =
                                        {SubSeq(disk[f], iter[u].next_byte + 1, to)}]
              /\ UNCHANGED up
           \/ /\ to > Len(disk[f])
              /\ End(u, "unreadable")
              /\ UNCHANGED iter
      /\ UNCHANGED <<disk, dir, stored>>

\* The file cannot be opened, or not be read as far as it goes.
ReadingFails(u) ==
  /\ DiskFails
  /\ Iterating(u)
  /\ iter[u].current_chunk = {}
  /\ up' = [up EXCEPT ![u].pc = "unreadable", ![u].unread = TRUE]
  /\ UNCHANGED <<disk, dir, iter, stored>>

\* Slip: next_byte += MAX_CHUNK_SIZE.
Advanced_ByMax(it, chunk) == [it EXCEPT !.next_byte = @ + MAX_CHUNK_SIZE, !.current_chunk = {}]

\* Slip: the chunk is reset before its size is asked for, and the 1 is a 0.
Advanced_ByNothing(it, chunk) == [it EXCEPT !.current_chunk = {}]

\* operator++, after a chunk was read
Advanced(it, chunk) == [it EXCEPT !.next_byte = @ + Len(chunk), !.current_chunk = {}]

\* The chunk goes to the worker, which writes and hashes it; on to the next.
SendChunk(u) ==
  /\ Iterating(u)
  /\ \E chunk \in iter[u].current_chunk :
       /\ stored' = [stored EXCEPT ![u] = @ \o chunk]
       /\ iter' = [iter EXCEPT ![u] = Advanced(iter[u], chunk)]
  /\ UNCHANGED <<disk, dir, up>>

\* The stream to the worker breaks, or the worker fails for its own reasons.
SendFails(u) ==
  /\ up[u].pc = "sending"
  /\ End(u, "broken")
  /\ UNCHANGED <<disk, dir, iter, stored>>

\* The worker's hash of what it received is the one the frontend claims; a
\* stream without a chunk has no claim.
HashMatches(u) == stored[u] # <<>> /\ stored[u] = up[u].streamed

\* Slip: the temporary file is forgotten.
EndOfBlob_KeepsFile(u) ==
  /\ up[u].pc = "sending"
  /\ iter[u].next_byte = Len(up[u].streamed)
  /\ IF HashMatches(u) THEN End(u, "ok") ELSE End(u, "rejected")
  /\ UNCHANGED <<disk, dir, iter, stored>>

\* All is sent: the worker accepts or rejects it, and the file is removed by its
\* name, after success only.
EndOfBlob(u) ==
  /\ up[u].pc = "sending"
  /\ iter[u].next_byte = Len(up[u].streamed)
  /\ \/ /\ HashMatches(u)
        /\ End(u, "ok")
        /\ \E n \in up[u].name : remove(n)
     \/ /\ ~HashMatches(u)
        /\ End(u, "rejected")
        /\ UNCHANGED dir
  /\ UNCHANGED <<disk, iter, stored>>

-----------------------------------------------------------------------------
Receive(u) == ReadInfo(u) \/ ReadChunkData(u) \/ ReadChunkFails(u) \/ EndOfStream(u)

Send(u) ==
  OpenStream(u) \/ ReadChunk(u) \/ ReadingFails(u) \/ SendChunk(u) \/ EndOfBlob(u)

Quiet == \A u \in Uploads : up[u].pc \in Final

Next ==
  \/ \E u \in Uploads : Receive(u) \/ Send(u) \/ SendFails(u)
  \/ Quiet /\ UNCHANGED vars

Spec == Init /\ [][Next]_vars

-----------------------------------------------------------------------------
(* Properties *)

TypeOK ==
  /\ disk \in Seq(Seq(Bytes))
  /\ dir \in [Names -> SUBSET (1..Len(disk))]
  /\ up \in [Uploads -> Upload]
  /\ iter \in [Uploads -> Iterator]
  /\ stored \in [Uploads -> Seq(Bytes)]

\* No other upload was given the name.
Alone(u) == \A v \in Uploads \ {u} : up[v].name \cap up[u].name = {}

\* What the worker has of an upload is the beginning of its temporary file, up to
\* where the iterator stands, with no byte skipped, doubled or out of place: also
\* when writes fell short, which the iterator does not know, and for every way the
\* client and the iterator cut the blob (blob_file.hpp:47-61, 85-90).
SentIsBeginning ==
  \A u \in Uploads : up[u].pc = "sending" /\ Alone(u) =>
    \A n \in up[u].name : /\ iter[u].next_byte <= Len(Held(n))
                           /\ stored[u] = SubSeq(Held(n), 1, iter[u].next_byte)

\* The temporary file holds what was received.
Intact(u) == \E n \in up[u].name : dir[n] # {} /\ Held(n) = up[u].streamed

\* A blob that is whole in a file of its own is read and accepted, whatever the
\* client's chunks were and however the iterator cuts it: the loop, whose test
\* is != and not <, ends at the last byte (frontend_service.cpp:32).  Only the
\* empty blob, which has no chunk, is not, and what the disk does not give back.
FailureHasCause ==
  \A u \in Uploads : up[u].pc \in {"unreadable", "rejected"} =>
    ~Alone(u) \/ ~Intact(u) \/ up[u].streamed = <<>> \/ up[u].unread

\* A temporary file left over is that of an upload that has not succeeded
\* (frontend_service.cpp:172): success removes it, also with a name shared.
LeftoverHasOwner ==
  \A n \in Names : dir[n] # {} =>
    \E u \in Uploads : n \in up[u].name /\ up[u].pc # "ok"

\* The loop ends: every chunk written leaves fewer bytes to send, and it never
\* steps over the end, which the test != would not notice (blob_file.hpp:85-95).
EveryChunkAdvances ==
  [][\A u \in Uploads :
       iter[u].current_chunk # {} /\ iter'[u].current_chunk = {} =>
         iter'[u].next_byte \in (iter[u].next_byte + 1)..Len(up[u].streamed)]_vars
=============================================================================
