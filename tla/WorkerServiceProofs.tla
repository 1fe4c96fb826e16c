------------------------ MODULE WorkerServiceProofs -------------------------
(***************************************************************************)
(* The worker for any number of calls, blobs and chunks: TypeOK; and, as   *)
(* long as it is used in an orderly way, StoredBlobIsWhole, whose          *)
(* invariant adds what the file holds while it is being written, and       *)
(* SentIsPrefix, whose invariant adds that every file a reader may hold is *)
(* a beginning of its blob.                                                *)
(***************************************************************************)
EXTENDS OneWriter, TLAPS

\* The part of TypeOK the writers depend on.
WritersOK ==
  /\ files \subseteq Hashes
  /\ data \in [Hashes -> Data]
  /\ save \in [Saves -> SaveCall]
  /\ delete \in [Deletes -> DeleteCall]

\* While a blob is received its file holds what was received, and no more.
ReceivedSoFar ==
  \A s \in Saves :
    /\ save[s].pc = "idle" => save[s].received = 0
    /\ save[s].pc = "receiving" => /\ save[s].hash \in files
                                   /\ data[save[s].hash] = Prefix(save[s].blob, save[s].received)

FilesInv == WritersOK /\ ReceivedSoFar /\ StoredBlobIsWhole

-----------------------------------------------------------------------------
(* Prefixes of a blob *)

\* Empty at 0, one chunk longer at n + 1, and of the type of a file.
LEMMA PrefixFacts ==
  ASSUME NEW b \in Hashes, NEW n \in 0..Chunks
  PROVE  /\ Prefix(b, n) \in Data
         /\ Len(Prefix(b, n)) = n
         /\ Prefix(b, 0) = <<>>
         /\ Append(Prefix(b, n), <<b, n + 1>>) = Prefix(b, n + 1)
<1> USE ChunksAssumption
<1>1. Prefix(b, n) \in Data
  BY DEF Prefix, Data
<1>2. Len(Prefix(b, n)) = n
  BY DEF Prefix
<1>3. Prefix(b, 0) = <<>>
  BY DEF Prefix
<1>4. Append(Prefix(b, n), <<b, n + 1>>) = Prefix(b, n + 1)
  BY <1>2 DEF Prefix
<1> QED
  BY <1>1, <1>2, <1>3, <1>4

\* Every operation of BlobFile leaves files and their contents well formed.
LEMMA FileTyping ==
  ASSUME WritersOK, NEW h \in Hashes, NEW chunk \in Hashes \X (0..Chunks)
  PROVE  /\ files \cup {h} \subseteq Hashes
         /\ files \ {h} \subseteq Hashes
         /\ [data EXCEPT ![h] = <<>>] \in [Hashes -> Data]
         /\ [data EXCEPT ![h] = Append(@, chunk)] \in [Hashes -> Data]
  BY DEF WritersOK, Data

-----------------------------------------------------------------------------
(* Types: a file holds chunks and pieces of chunks, whoever writes it, and so *)
(* does what a reader has of it.                                             *)

LEMMA RemoveTyped ==
  ASSUME TypeOK, NEW h \in Hashes, remove(h)
  PROVE  /\ files' \subseteq Hashes
         /\ data' \in [Hashes -> Data]
         /\ get' \in [Gets -> GetCall]
<1>1. get' \in [Gets -> GetCall]
  <2> SUFFICES ASSUME NEW g \in Gets PROVE get'[g] \in GetCall
    BY DEF remove
  <2>1. get[g] \in GetCall /\ data[h] \in Data
    BY DEF TypeOK
  <2>2. [get[g] EXCEPT !.unlinked = TRUE, !.held = data[h]] \in GetCall
    BY <2>1 DEF GetCall
  <2> QED
    BY <2>1, <2>2 DEF remove
<1>2. <<>> \in Data
  BY DEF Data
<1> QED
  BY <1>1, <1>2 DEF TypeOK, remove

LEMMA LoseTyped ==
  ASSUME TypeOK, NEW names \in SUBSET Hashes, Lose(names)
  PROVE  TypeOK'
<1> USE DEF TypeOK, Lose
<1>1. <<>> \in Data
  BY DEF Data
<1>2. files' \subseteq Hashes /\ data' \in [Hashes -> Data]
  BY <1>1
<1>3. save' \in [Saves -> SaveCall]
  BY DEF SaveCall, Final
<1>4. get' \in [Gets -> GetCall]
  <2> SUFFICES ASSUME NEW g \in Gets PROVE get'[g] \in GetCall
    OBVIOUS
  <2>1. get[g] \in GetCall /\ [get[g] EXCEPT !.pc = "error"] \in GetCall
    BY DEF GetCall, Final
  <2> QED
    BY <2>1
<1>5. delete' \in [Deletes -> DeleteCall]
  BY DEF DeleteCall, Final
<1> QED
  BY <1>2, <1>3, <1>4, <1>5

LEMMA SaveTyped ==
  ASSUME TypeOK, NEW s \in Saves,
         SaveStep(s) \/ ReceiveChunkShort(s) \/ ReceiveChunkFails(s)
  PROVE  TypeOK'
<1>1. /\ save \in [Saves -> SaveCall]
      /\ save[s].hash \in Hashes
      /\ save[s].blob \in Hashes
      /\ save[s].received \in 0..Chunks
  BY DEF TypeOK, SaveCall
<1>2. WritersOK
  BY DEF TypeOK, WritersOK
<1>3. ASSUME NEW pc \in {"receiving", "notifying"} \cup Final,
             save' = [save EXCEPT ![s].pc = pc]
      PROVE  save' \in [Saves -> SaveCall]
  BY <1>1, <1>3 DEF SaveCall
<1>4. ASSUME save[s].received < Chunks, save' = [save EXCEPT ![s].received = @ + 1]
      PROVE  save' \in [Saves -> SaveCall]
  <2>1. save[s].received + 1 \in 0..Chunks
    BY <1>1, <1>4, ChunksAssumption
  <2> QED
    BY <1>1, <1>4, <2>1 DEF SaveCall
<1>5. ASSUME NEW i \in 0..Chunks, append_chunk(save[s].hash, <<save[s].blob, i>>)
      PROVE  files' \subseteq Hashes /\ data' \in [Hashes -> Data]
  <2>1. <<save[s].blob, i>> \in Hashes \X (0..Chunks)
    BY <1>1
  <2> QED
    BY <1>1, <1>2, <1>5, <2>1, FileTyping DEF append_chunk
<1>6. CASE SaveBlob(s)
  <2>1. files' \subseteq Hashes /\ data' \in [Hashes -> Data]
    <3>1. <<>> \in Data
      BY DEF Data
    <3> QED
      BY <1>1, <1>2, <1>6, <3>1 DEF SaveBlob, New, WritersOK
  <2> QED
    BY <1>3, <1>6, <2>1 DEF SaveBlob, TypeOK
<1>7. CASE ReceiveChunk(s)
  <2>1. save[s].received + 1 \in 0..Chunks
    BY <1>1, <1>7, ChunksAssumption DEF ReceiveChunk
  <2> QED
    BY <1>4, <1>5, <1>7, <2>1 DEF ReceiveChunk, TypeOK
<1>8. CASE ReceiveChunkShort(s)
  <2>1. 0 \in 0..Chunks
    BY ChunksAssumption
  <2>2. files' \subseteq Hashes /\ data' \in [Hashes -> Data]
    BY <1>1, <1>5, <1>8, <2>1 DEF ReceiveChunkShort, TypeOK
  <2>3. save[s].received + 1 \in 0..Chunks
    BY <1>1, <1>8, ChunksAssumption DEF ReceiveChunkShort
  <2>4. save' \in [Saves -> SaveCall]
    BY <1>1, <1>8, <2>3 DEF ReceiveChunkShort, SaveCall
  <2> QED
    BY <1>8, <2>2, <2>4 DEF ReceiveChunkShort, TypeOK
<1>9. CASE ReceiveChunkFails(s)
  BY <1>3, <1>9 DEF ReceiveChunkFails, TypeOK, Final
<1>10. CASE AcceptStream(s)
  BY <1>3, <1>10 DEF AcceptStream, TypeOK
<1>11. CASE RejectStream(s)
  BY <1>1, <1>3, <1>11, RemoveTyped DEF RejectStream, TypeOK, Final
<1>12. CASE EmptyStream(s)
  BY <1>3, <1>12, LoseTyped DEF EmptyStream, Die, TypeOK, Final
<1>13. CASE MasterAnswers(s)
  BY <1>3, <1>13 DEF MasterAnswers, TypeOK
<1> QED
  BY <1>6, <1>7, <1>8, <1>9, <1>10, <1>11, <1>12, <1>13 DEF SaveStep

LEMMA GetTyped ==
  ASSUME TypeOK, NEW g \in Gets, GetStep(g) \/ SendFails(g) \/ ReadFails(g)
  PROVE  TypeOK'
<1>1. get \in [Gets -> GetCall] /\ get[g] \in GetCall /\ data \in [Hashes -> Data]
  BY DEF TypeOK
<1>2. ASSUME NEW pc \in {"loaded", "sending"} \cup Final, get' = [get EXCEPT ![g].pc = pc]
      PROVE  get' \in [Gets -> GetCall]
  BY <1>1, <1>2 DEF GetCall
<1>3. ASSUME GetBlob(g)
      PROVE  get' \in [Gets -> GetCall]
  <2>1. Len(data[get[g].hash]) \in Nat
    BY <1>1 DEF GetCall, Data
  <2> QED
    BY <1>1, <1>2, <1>3, <2>1 DEF GetBlob, GetCall, Final
<1>4. ASSUME SendChunk(g)
      PROVE  get' \in [Gets -> GetCall]
  <2>1. Readable(g) \in Data /\ get[g].sent \in Data
    BY <1>1 DEF Readable, GetCall
  <2>2. ASSUME NEW i \in 1..Len(Readable(g))
        PROVE  Append(get[g].sent, Readable(g)[i]) \in Data
    BY <2>1 DEF Data
  <2>3. Len(get[g].sent) + 1 \in Nat /\ Len(get[g].sent) + 1 >= 1
    BY <2>1 DEF Data
  <2>4. Len(Readable(g)) \in Nat
    BY <2>1 DEF Data
  <2>5. CASE Len(get[g].sent) + 1 <= Len(Readable(g))
    <3>1. Append(get[g].sent, Readable(g)[Len(get[g].sent) + 1]) \in Data
      BY <2>2, <2>3, <2>4, <2>5
    <3>2. get' = [get EXCEPT ![g].sent =
                    Append(get[g].sent, Readable(g)[Len(get[g].sent) + 1])]
      BY <1>1, <1>4, <2>5 DEF SendChunk
    <3> QED
      BY <1>1, <3>1, <3>2 DEF GetCall
  <2> QED
    BY <1>2, <1>4, <2>5 DEF SendChunk, Final
<1>5. ASSUME OpenStream(g) \/ EndOfFile(g) \/ SendFails(g)
      PROVE  get' \in [Gets -> GetCall]
  BY <1>2, <1>5 DEF OpenStream, EndOfFile, SendFails, Final
<1>6. ASSUME ReadFails(g)
      PROVE  get' \in [Gets -> GetCall]
  BY <1>1, <1>6 DEF ReadFails, GetCall, Final
<1>7. get' \in [Gets -> GetCall]
  BY <1>3, <1>4, <1>5, <1>6 DEF GetStep
<1>8. UNCHANGED <<files, data, save, delete>>
  BY DEF GetStep, GetBlob, OpenStream, SendChunk, EndOfFile, SendFails, ReadFails
<1> QED
  BY <1>7, <1>8 DEF TypeOK

LEMMA DeleteTyped ==
  ASSUME TypeOK, NEW d \in Deletes, DeleteStep(d)
  PROVE  TypeOK'
<1>1. delete' \in [Deletes -> DeleteCall] /\ UNCHANGED save
  BY DEF TypeOK, DeleteStep, DeleteBlob, RemoveFile, DeleteCall, Final
<1>2. CASE DeleteBlob(d)
  BY <1>1, <1>2 DEF DeleteBlob, TypeOK
<1>3. CASE RemoveFile(d)
  <2>1. delete[d].hash \in Hashes
    BY DEF TypeOK, DeleteCall
  <2> QED
    BY <1>1, <1>3, <2>1, RemoveTyped DEF RemoveFile, TypeOK
<1> QED
  BY <1>2, <1>3 DEF DeleteStep

\* A step of a call, a fault, or the loss of any files.
LEMMA TypedStep ==
  ASSUME TypeOK, Next \/ \E names \in SUBSET Hashes : Lose(names)
  PROVE  TypeOK'
<1>1. UNCHANGED vars => TypeOK'
  BY DEF TypeOK, vars
<1> QED
  BY <1>1, SaveTyped, GetTyped, DeleteTyped, LoseTyped
  DEF Next, WriteFault, ReadFault, Crash, Die

LEMMA InitialSaves == Init => save \in [Saves -> SaveCall]
<1>1. Init => save \in [Saves -> [hash : Hashes, blob : Hashes, received : {0},
                                  short : {FALSE}, pc : {"idle"}]]
  BY DEF Init
<1>2. 0 \in 0..Chunks /\ {FALSE} \subseteq BOOLEAN
  BY ChunksAssumption
<1> QED
  BY <1>1, <1>2 DEF SaveCall

LEMMA TypedInit == Init => TypeOK
<1> SUFFICES ASSUME Init PROVE TypeOK
  OBVIOUS
<1>1. <<>> \in Data
  BY DEF Data
<1>2. save \in [Saves -> SaveCall]
  BY InitialSaves
<1>3. get \in [Gets -> GetCall]
  <2>1. get \in [Gets -> [hash : Hashes, pc : {"idle"}, size : {0}, sent : {<<>>},
                          unlinked : {FALSE}, held : {<<>>}, unread : {FALSE}]]
    BY DEF Init
  <2>2. {0} \subseteq Nat /\ {FALSE} \subseteq BOOLEAN /\ {<<>>} \subseteq Data
    BY <1>1
  <2> QED
    BY <2>1, <2>2 DEF GetCall
<1>4. delete \in [Deletes -> DeleteCall]
  BY DEF Init, DeleteCall
<1> QED
  BY <1>1, <1>2, <1>3, <1>4 DEF Init, TypeOK

\* Every call and every file has its type, however calls overlap and whatever
\* the disk loses.
THEOREM WorkerTypeCorrect == Spec => []TypeOK
<1>1. TypeOK /\ [Next]_vars => TypeOK'
  <2>1. UNCHANGED vars /\ TypeOK => TypeOK'
    BY DEF TypeOK, vars
  <2> QED
    BY <2>1, TypedStep
<1> QED
  BY <1>1, TypedInit, PTL DEF Spec

-----------------------------------------------------------------------------
(* SaveBlob *)

\* Nobody else receives the blob of a call in flight.
LEMMA SoleWriter ==
  ASSUME OneWriterPerBlob, NEW s \in Saves, Active(save[s].pc)
  PROVE  /\ \A t \in Saves : t # s /\ save[t].pc = "receiving" => save[t].hash # save[s].hash
         /\ \A d \in Deletes : Active(delete[d].pc) => delete[d].hash # save[s].hash
  BY DEF OneWriterPerBlob, Active, Final

\* Files are lost and the calls on them fail: the others are as they were.
LEMMA LoseStep ==
  ASSUME FilesInv, NEW names \in SUBSET Hashes, Lose(names)
  PROVE  FilesInv'
<1> USE DEF Active, Final
<1>1. /\ WritersOK /\ ReceivedSoFar /\ StoredBlobIsWhole
      /\ files \subseteq Hashes
      /\ data \in [Hashes -> Data]
      /\ save \in [Saves -> SaveCall]
      /\ delete \in [Deletes -> DeleteCall]
  BY DEF FilesInv, WritersOK
<1>2. /\ files' = files \ names
      /\ \A h \in Hashes \ names : data'[h] = data[h]
      /\ \A s \in Saves : /\ save'[s].hash = save[s].hash
                          /\ save[s].hash \notin names => save'[s] = save[s]
                          /\ save'[s].pc \in {"idle", "receiving"} => save'[s] = save[s]
                          /\ save[s].hash \in names => save'[s].pc # "receiving"
  BY <1>1 DEF Lose, SaveCall
<1>3. WritersOK'
  <2>1. data' \in [Hashes -> Data]
    BY <1>1 DEF Lose, Data
  <2>2. save' \in [Saves -> SaveCall]
    BY <1>1 DEF Lose, SaveCall
  <2>3. delete' \in [Deletes -> DeleteCall]
    BY <1>1 DEF Lose, DeleteCall
  <2> QED
    BY <1>1, <1>2, <2>1, <2>2, <2>3 DEF WritersOK
<1>4. ReceivedSoFar'
  BY <1>1, <1>2 DEF ReceivedSoFar, SaveCall
<1>5. StoredBlobIsWhole'
  <2> SUFFICES ASSUME NEW h \in files',
                      \A s \in Saves : save'[s].hash = h => save'[s].pc # "receiving"
               PROVE  data'[h] = Content(h)
    BY DEF StoredBlobIsWhole, Content
  <2>1. h \in files /\ h \notin names /\ data'[h] = data[h]
    BY <1>1, <1>2
  <2>2. \A s \in Saves : save[s].hash = h => save[s].pc # "receiving"
    BY <1>2, <2>1
  <2> QED
    BY <1>1, <2>1, <2>2 DEF StoredBlobIsWhole
<1> QED
  BY <1>3, <1>4, <1>5 DEF FilesInv

LEMMA DieStep ==
  ASSUME FilesInv, Die
  PROVE  FilesInv'
BY LoseStep DEF Die

LEMMA SaveStepInv ==
  ASSUME FilesInv, OneWriterPerBlob, OneWriterPerBlob', NEW s \in Saves, SaveStep(s)
  PROVE  FilesInv'
<1>1. /\ WritersOK /\ ReceivedSoFar /\ StoredBlobIsWhole
      /\ files \subseteq Hashes
      /\ data \in [Hashes -> Data]
      /\ save \in [Saves -> SaveCall]
  BY DEF FilesInv, WritersOK
<1>2. /\ save[s].hash \in Hashes
      /\ save[s].blob \in Hashes
      /\ save[s].received \in 0..Chunks
  BY <1>1 DEF SaveCall
<1>3. CASE SaveBlob(s)
  <2> DEFINE h == save[s].hash
  <2>1. /\ save[s].pc = "idle"
        /\ files' = files \cup {h}
        /\ data' = [data EXCEPT ![h] = <<>>]
        /\ save' = [save EXCEPT ![s].pc = "receiving"]
        /\ UNCHANGED <<get, delete>>
    BY <1>3 DEF SaveBlob, New
  <2>2. WritersOK'
    <3>1. save' \in [Saves -> SaveCall]
      BY <1>1, <2>1 DEF SaveCall
    <3>2. data' \in [Hashes -> Data]
      BY <1>1, <1>2, <2>1 DEF Data
    <3> QED
      BY <1>1, <1>2, <2>1, <3>1, <3>2 DEF WritersOK
  <2>3. /\ save'[s].pc = "receiving"
        /\ save'[s].hash = h
        /\ save'[s].blob = save[s].blob
        /\ save'[s].received = 0
        /\ \A t \in Saves : t # s => save'[t] = save[t]
    BY <1>1, <2>1 DEF SaveCall, ReceivedSoFar
  <2>4. \A t \in Saves : t # s /\ save[t].pc = "receiving" => save[t].hash # h
    BY <2>3 DEF OneWriterPerBlob, Active, Final
  <2>5. ReceivedSoFar'
    <3>1. data'[h] = Prefix(save[s].blob, 0)
      BY <1>1, <1>2, <2>1, PrefixFacts
    <3>2. ASSUME NEW t \in Saves, t # s, save[t].pc = "receiving"
          PROVE  save[t].hash \in files' /\ data'[save[t].hash] = data[save[t].hash]
      BY <1>1, <2>1, <2>4, <3>2 DEF ReceivedSoFar
    <3> QED
      BY <1>1, <2>1, <2>3, <3>1, <3>2 DEF ReceivedSoFar
  <2>6. StoredBlobIsWhole'
    <3>1. \A k \in files' : k # h => k \in files /\ data'[k] = data[k]
      BY <1>1, <2>1
    <3> QED
      BY <1>1, <2>3, <3>1 DEF StoredBlobIsWhole
  <2> QED
    BY <2>2, <2>5, <2>6 DEF FilesInv
<1>4. CASE ReceiveChunk(s)
  <2> DEFINE h == save[s].hash
             n == save[s].received
  <2>1. /\ save[s].pc = "receiving"
        /\ n < Chunks
        /\ files' = files \cup {h}
        /\ data' = [data EXCEPT ![h] = Append(@, <<save[s].blob, n + 1>>)]
        /\ save' = [save EXCEPT ![s].received = @ + 1]
        /\ UNCHANGED <<get, delete>>
    BY <1>4 DEF ReceiveChunk, append_chunk
  <2>2. n + 1 \in 0..Chunks
    BY <1>2, <2>1, ChunksAssumption
  <2>3. WritersOK'
    <3>1. save' \in [Saves -> SaveCall]
      BY <1>1, <2>1, <2>2 DEF SaveCall
    <3>2. <<save[s].blob, n + 1>> \in Hashes \X (0..Chunks)
      BY <1>2, <2>2
    <3>3. data' \in [Hashes -> Data]
      BY <1>1, <1>2, <2>1, <3>2, FileTyping
    <3> QED
      BY <1>1, <1>2, <2>1, <3>1, <3>3 DEF WritersOK
  <2>4. /\ save'[s].pc = "receiving"
        /\ save'[s].hash = h
        /\ save'[s].blob = save[s].blob
        /\ save'[s].received = n + 1
        /\ \A t \in Saves : t # s => save'[t] = save[t]
    BY <1>1, <2>1 DEF SaveCall
  <2>5. \A t \in Saves : t # s /\ save[t].pc = "receiving" => save[t].hash # h
    BY <2>1, SoleWriter DEF Active, Final
  <2>6. ReceivedSoFar'
    <3>1. data[h] = Prefix(save[s].blob, n)
      BY <1>1, <2>1 DEF ReceivedSoFar
    <3>2. data'[h] = Prefix(save[s].blob, n + 1)
      BY <1>1, <1>2, <2>1, <3>1, PrefixFacts
    <3>3. ASSUME NEW t \in Saves, t # s, save[t].pc = "receiving"
          PROVE  save[t].hash \in files' /\ data'[save[t].hash] = data[save[t].hash]
      BY <1>1, <2>1, <2>5, <3>3 DEF ReceivedSoFar
    <3> QED
      BY <1>1, <2>1, <2>4, <3>2, <3>3 DEF ReceivedSoFar
  <2>7. StoredBlobIsWhole'
    <3>1. \A k \in files' : k # h => k \in files /\ data'[k] = data[k]
      BY <1>1, <2>1
    <3> QED
      BY <1>1, <2>4, <3>1 DEF StoredBlobIsWhole
  <2> QED
    BY <2>3, <2>6, <2>7 DEF FilesInv
<1>5. CASE AcceptStream(s)
  <2>1. /\ save[s].pc = "receiving"
        /\ save[s].blob = save[s].hash
        /\ save[s].received = Chunks
        /\ save' = [save EXCEPT ![s].pc = "notifying"]
        /\ UNCHANGED <<files, data, get, delete>>
    BY <1>5 DEF AcceptStream, HashMatches
  <2>2. WritersOK'
    <3>1. save' \in [Saves -> SaveCall]
      BY <1>1, <2>1 DEF SaveCall
    <3> QED
      BY <1>1, <2>1, <3>1 DEF WritersOK
  <2>3. /\ save'[s].pc = "notifying"
        /\ \A t \in Saves : t # s => save'[t] = save[t]
    BY <1>1, <2>1 DEF SaveCall
  <2>4. ReceivedSoFar'
    BY <1>1, <2>1, <2>3 DEF ReceivedSoFar
  <2>5. data[save[s].hash] = Content(save[s].hash)
    BY <1>1, <2>1 DEF ReceivedSoFar, Content
  <2>6. StoredBlobIsWhole'
    <3> SUFFICES ASSUME NEW k \in files,
                        \A t \in Saves : save'[t].hash = k => save'[t].pc # "receiving"
                 PROVE  data[k] = Content(k)
      BY <2>1 DEF StoredBlobIsWhole
    <3>1. CASE k = save[s].hash
      BY <2>5, <3>1
    <3>2. CASE k # save[s].hash
      BY <1>1, <2>3, <3>2 DEF StoredBlobIsWhole
    <3> QED
      BY <3>1, <3>2
  <2> QED
    BY <2>2, <2>4, <2>6 DEF FilesInv
<1>6. CASE RejectStream(s)
  <2> DEFINE h == save[s].hash
  <2>1. /\ save[s].pc = "receiving"
        /\ files' = files \ {h}
        /\ data' = [data EXCEPT ![h] = <<>>]
        /\ save' = [save EXCEPT ![s].pc = "error"]
        /\ UNCHANGED delete
    BY <1>6 DEF RejectStream, remove
  <2>2. WritersOK'
    <3>1. save' \in [Saves -> SaveCall]
      BY <1>1, <2>1 DEF SaveCall, Final
    <3>2. data' \in [Hashes -> Data]
      BY <1>1, <1>2, <2>1 DEF Data
    <3> QED
      BY <1>1, <2>1, <3>1, <3>2 DEF WritersOK
  <2>3. /\ save'[s].pc = "error"
        /\ \A t \in Saves : t # s => save'[t] = save[t]
    BY <1>1, <2>1 DEF SaveCall
  <2>4. \A t \in Saves : t # s /\ save[t].pc = "receiving" => save[t].hash # h
    BY <2>1, SoleWriter DEF Active, Final
  <2>5. ReceivedSoFar'
    <3>1. ASSUME NEW t \in Saves, t # s, save[t].pc = "receiving"
          PROVE  save[t].hash \in files' /\ data'[save[t].hash] = data[save[t].hash]
      BY <1>1, <2>1, <2>4, <3>1 DEF ReceivedSoFar
    <3> QED
      BY <1>1, <2>3, <3>1 DEF ReceivedSoFar
  <2>6. StoredBlobIsWhole'
    <3> SUFFICES ASSUME NEW k \in files',
                        \A u \in Saves : save'[u].hash = k => save'[u].pc # "receiving"
                 PROVE  data'[k] = Content(k)
      BY DEF StoredBlobIsWhole
    <3>1. k \in files /\ k # h /\ data'[k] = data[k]
      BY <1>1, <2>1
    <3> QED
      BY <1>1, <2>3, <3>1 DEF StoredBlobIsWhole
  <2> QED
    BY <2>2, <2>5, <2>6 DEF FilesInv
<1>7. ASSUME NEW status \in Final, save[s].pc \in {"idle", "notifying"},
             save' = [save EXCEPT ![s].pc = status],
             UNCHANGED <<files, data, get, delete>>
      PROVE  FilesInv'
  <2>1. save' \in [Saves -> SaveCall]
    BY <1>1, <1>7 DEF SaveCall
  <2>2. /\ save'[s].pc \in Final
        /\ \A t \in Saves : t # s => save'[t] = save[t]
    BY <1>1, <1>7 DEF SaveCall
  <2>3. WritersOK'
    BY <1>1, <1>7, <2>1 DEF WritersOK
  <2>4. ReceivedSoFar'
    BY <1>1, <1>7, <2>2 DEF ReceivedSoFar, Final
  <2>5. StoredBlobIsWhole'
    <3>1. \A t \in Saves : save[t].pc = "receiving" => save'[t] = save[t]
      BY <1>7, <2>2
    <3> QED
      BY <1>1, <1>7, <3>1 DEF StoredBlobIsWhole
  <2> QED
    BY <2>3, <2>4, <2>5 DEF FilesInv
<1>8. CASE EmptyStream(s)
  BY <1>7, <1>8, DieStep DEF EmptyStream, Final
<1>9. CASE MasterAnswers(s)
  BY <1>7, <1>9 DEF MasterAnswers
<1> QED
  BY <1>3, <1>4, <1>5, <1>6, <1>8, <1>9 DEF SaveStep

-----------------------------------------------------------------------------
(* The other handlers *)

LEMMA DeleteStepInv ==
  ASSUME FilesInv, OneWriterPerBlob, NEW d \in Deletes, DeleteStep(d)
  PROVE  FilesInv'
<1>1. /\ WritersOK /\ ReceivedSoFar /\ StoredBlobIsWhole
      /\ files \subseteq Hashes
      /\ data \in [Hashes -> Data]
      /\ delete \in [Deletes -> DeleteCall]
  BY DEF FilesInv, WritersOK
<1>2. delete[d].hash \in Hashes
  BY <1>1 DEF DeleteCall
<1>3. delete' \in [Deletes -> DeleteCall] /\ UNCHANGED save
  BY <1>1 DEF DeleteStep, DeleteBlob, RemoveFile, DeleteCall, Final
<1>4. CASE DeleteBlob(d)
  <2>1. UNCHANGED <<files, data, save>>
    BY <1>4 DEF DeleteBlob
  <2> QED
    BY <1>1, <1>3, <2>1 DEF FilesInv, WritersOK, ReceivedSoFar, StoredBlobIsWhole
<1>5. CASE RemoveFile(d)
  <2> DEFINE h == delete[d].hash
  <2>1. /\ delete[d].pc = "found"
        /\ files' = files \ {h}
        /\ data' = [data EXCEPT ![h] = <<>>]
    BY <1>5 DEF RemoveFile, remove
  <2>2. data' \in [Hashes -> Data]
    BY <1>1, <1>2, <2>1 DEF Data
  <2>3. WritersOK'
    BY <1>1, <1>3, <2>1, <2>2 DEF WritersOK
  <2>4. \A s \in Saves : save[s].pc = "receiving" => save[s].hash # h
    BY <2>1 DEF OneWriterPerBlob, Active, Final
  <2>5. ReceivedSoFar'
    <3>1. ASSUME NEW s \in Saves, save[s].pc = "receiving"
          PROVE  save[s].hash \in files' /\ data'[save[s].hash] = data[save[s].hash]
      BY <1>1, <2>1, <2>4, <3>1 DEF ReceivedSoFar
    <3> QED
      BY <1>1, <1>3, <3>1 DEF ReceivedSoFar
  <2>6. StoredBlobIsWhole'
    <3>1. \A k \in files' : k \in files /\ data'[k] = data[k]
      BY <1>1, <2>1
    <3> QED
      BY <1>1, <1>3, <3>1 DEF StoredBlobIsWhole
  <2> QED
    BY <2>3, <2>5, <2>6 DEF FilesInv
<1> QED
  BY <1>4, <1>5 DEF DeleteStep

\* Readers write nothing.
LEMMA GetStepInv ==
  ASSUME FilesInv, NEW g \in Gets, GetStep(g) \/ SendFails(g) \/ ReadFails(g)
  PROVE  FilesInv'
<1>1. UNCHANGED <<files, data, save, delete>>
  BY DEF GetStep, GetBlob, OpenStream, SendChunk, EndOfFile, SendFails, ReadFails
<1> QED
  BY <1>1 DEF FilesInv, WritersOK, ReceivedSoFar, StoredBlobIsWhole

\* As long as the worker is used in an orderly way.
OrderlyFiles == orderly => FilesInv /\ OneWriterPerBlob

LEMMA FilesInvariant == OrderlySpec => []OrderlyFiles
<1>1. Init => FilesInv /\ OneWriterPerBlob
  <2> SUFFICES ASSUME Init PROVE FilesInv /\ OneWriterPerBlob
    OBVIOUS
  <2>1. data \in [Hashes -> Data]
    BY DEF Init, Data
  <2>2. save \in [Saves -> SaveCall]
    BY InitialSaves
  <2>3. delete \in [Deletes -> DeleteCall]
    BY DEF Init, DeleteCall
  <2>4. ReceivedSoFar
    BY DEF Init, ReceivedSoFar
  <2>5. StoredBlobIsWhole
    BY DEF Init, StoredBlobIsWhole
  <2>6. OneWriterPerBlob
    BY DEF Init, OneWriterPerBlob, Active
  <2> QED
    BY <2>1, <2>2, <2>3, <2>4, <2>5, <2>6 DEF Init, FilesInv, WritersOK
<1>2. OrderlyFiles /\ [OrderlyNext]_<<vars, orderly>> => OrderlyFiles'
  <2>1. ASSUME FilesInv, OneWriterPerBlob, UNCHANGED vars
        PROVE  FilesInv' /\ OneWriterPerBlob'
    BY <2>1 DEF FilesInv, WritersOK, ReceivedSoFar, StoredBlobIsWhole, OneWriterPerBlob, vars
  <2>2. ASSUME FilesInv, OneWriterPerBlob, Next, OneWriterPerBlob', ~WriteFault
        PROVE  FilesInv' \/ UNCHANGED vars
    BY <2>2, SaveStepInv, DeleteStepInv, GetStepInv, DieStep DEF Next, ReadFault, Crash
  <2> QED
    BY <2>1, <2>2 DEF OrderlyFiles, OrderlyNext
<1> QED
  BY <1>1, <1>2, PTL DEF OrderlySpec, OrderlyInit, OrderlyFiles

\* As long as one call writes a blob at a time and no write fails, a file nobody is
\* writing is the whole of the blob it is named after: crashes, failing reads and
\* streams that break off or are misnamed included.
THEOREM StoredBlobs == OrderlySpec => []OrderlyBlobIsWhole
<1>1. OrderlyFiles => OrderlyBlobIsWhole
  BY DEF OrderlyFiles, FilesInv, OrderlyBlobIsWhole
<1> QED
  BY <1>1, FilesInvariant, PTL
-----------------------------------------------------------------------------
(* What a GetBlob sends *)

BeginningOf(content, h) == \E n \in 0..Chunks : content = Prefix(h, n)

\* As long as calls stream the blob they name, every file, every file still held
\* open and everything sent is the beginning of the blob it stands for.
Beginnings ==
  (\A s \in Saves : save[s].blob = save[s].hash) =>
    /\ \A h \in Hashes : BeginningOf(data[h], h)
    /\ \A g \in Gets : /\ BeginningOf(get[g].held, get[g].hash)
                       /\ BeginningOf(get[g].sent, get[g].hash)

\* The arguments of a call never change.
LEMMA CallArgumentsKept ==
  ASSUME TypeOK, Next \/ \E names \in SUBSET Hashes : Lose(names)
  PROVE  /\ \A s \in Saves : save'[s].hash = save[s].hash /\ save'[s].blob = save[s].blob
         /\ \A g \in Gets : get'[g].hash = get[g].hash
         /\ \A d \in Deletes : delete'[d].hash = delete[d].hash
<1> DEFINE Kept == /\ \A s \in Saves : /\ save'[s].hash = save[s].hash
                                       /\ save'[s].blob = save[s].blob
                   /\ \A g \in Gets : get'[g].hash = get[g].hash
                   /\ \A d \in Deletes : delete'[d].hash = delete[d].hash
<1>1. /\ save \in [Saves -> SaveCall]
      /\ get \in [Gets -> GetCall]
      /\ delete \in [Deletes -> DeleteCall]
  BY DEF TypeOK
<1>2. ASSUME NEW names, Lose(names)
      PROVE  Kept
  BY <1>1, <1>2 DEF Lose, SaveCall, GetCall, DeleteCall
<1>3. ASSUME NEW h, remove(h)
      PROVE  \A g \in Gets : get'[g].hash = get[g].hash
  BY <1>1, <1>3 DEF remove, GetCall
<1>4. ASSUME NEW s \in Saves, SaveStep(s) \/ ReceiveChunkShort(s) \/ ReceiveChunkFails(s)
      PROVE  Kept
  <2>1. CASE RejectStream(s)
    BY <1>1, <1>3, <2>1 DEF RejectStream, SaveCall
  <2>2. CASE EmptyStream(s)
    BY <1>1, <1>2, <2>2 DEF EmptyStream, Die, SaveCall
  <2>3. CASE \/ SaveBlob(s) \/ ReceiveChunk(s) \/ AcceptStream(s) \/ MasterAnswers(s)
             \/ ReceiveChunkShort(s) \/ ReceiveChunkFails(s)
    BY <1>1, <2>3 DEF SaveBlob, ReceiveChunk, AcceptStream, MasterAnswers, ReceiveChunkShort,
       ReceiveChunkFails, SaveCall
  <2> QED
    BY <1>4, <2>1, <2>2, <2>3 DEF SaveStep
<1>5. ASSUME NEW g \in Gets, GetStep(g) \/ SendFails(g) \/ ReadFails(g)
      PROVE  Kept
  <2>1. UNCHANGED <<save, delete>>
    BY <1>5 DEF GetStep, GetBlob, OpenStream, SendChunk, EndOfFile, SendFails, ReadFails
  <2>2. \A r \in Gets : get'[r].hash = get[r].hash
    <3>1. CASE GetBlob(g)
      BY <1>1, <3>1 DEF GetBlob, GetCall
    <3>2. CASE SendChunk(g)
      BY <1>1, <3>2 DEF SendChunk, GetCall
    <3>3. CASE OpenStream(g) \/ EndOfFile(g) \/ SendFails(g)
      <4>1. ASSUME NEW pc, get' = [get EXCEPT ![g].pc = pc]
            PROVE  \A r \in Gets : get'[r].hash = get[r].hash
        BY <1>1, <4>1 DEF GetCall
      <4> QED
        BY <3>3, <4>1 DEF OpenStream, EndOfFile, SendFails
    <3>4. CASE ReadFails(g)
      <4>1. get' = [get EXCEPT ![g].pc = "error", ![g].unread = TRUE]
        BY <3>4 DEF ReadFails
      <4> QED
        BY <1>1, <4>1 DEF GetCall
    <3> QED
      BY <1>5, <3>1, <3>2, <3>3, <3>4 DEF GetStep
  <2> QED
    BY <2>1, <2>2
<1>6. ASSUME NEW d \in Deletes, DeleteStep(d)
      PROVE  Kept
  BY <1>1, <1>3, <1>6 DEF DeleteStep, DeleteBlob, RemoveFile, DeleteCall
<1>7. UNCHANGED vars => Kept
  BY DEF vars
<1> QED
  BY <1>2, <1>4, <1>5, <1>6, <1>7 DEF Next, WriteFault, ReadFault, Crash, Die

\* What one step makes of a file: nothing, an empty one, or one chunk more of the
\* blob being received.
LEMMA FileMoves ==
  ASSUME ~WriteFault, TypeOK, Next, NEW h \in Hashes
  PROVE  \/ data'[h] = data[h]
         \/ data'[h] = <<>>
         \/ \E s \in Saves :
              /\ save[s].pc = "receiving"
              /\ save[s].hash = h
              /\ save[s].received < Chunks
              /\ data'[h] = Append(data[h], <<save[s].blob, save[s].received + 1>>)
<1>1. data \in [Hashes -> Data] /\ save \in [Saves -> SaveCall]
  BY DEF TypeOK
<1>2. ASSUME NEW names, Lose(names)
      PROVE  data'[h] = data[h] \/ data'[h] = <<>>
  BY <1>1, <1>2 DEF Lose
<1>3. ASSUME NEW k, remove(k)
      PROVE  data'[h] = data[h] \/ data'[h] = <<>>
  BY <1>1, <1>3 DEF remove
<1>4. ASSUME NEW s \in Saves, SaveStep(s), ~ReceiveChunk(s)
      PROVE  data'[h] = data[h] \/ data'[h] = <<>>
  BY <1>1, <1>2, <1>3, <1>4 DEF SaveStep, SaveBlob, New, AcceptStream, RejectStream,
     EmptyStream, Die, MasterAnswers
<1>5. ASSUME NEW s \in Saves, ReceiveChunk(s)
      PROVE  \/ data'[h] = data[h]
             \/ /\ save[s].pc = "receiving"
                /\ save[s].hash = h
                /\ save[s].received < Chunks
                /\ data'[h] = Append(data[h], <<save[s].blob, save[s].received + 1>>)
  BY <1>1, <1>5 DEF ReceiveChunk, append_chunk
<1>6. ASSUME NEW d \in Deletes, DeleteStep(d)
      PROVE  data'[h] = data[h] \/ data'[h] = <<>>
  BY <1>1, <1>3, <1>6 DEF DeleteStep, DeleteBlob, RemoveFile
<1>7. ASSUME NEW g \in Gets, GetStep(g) \/ SendFails(g) \/ ReadFails(g)
      PROVE  data'[h] = data[h]
  BY <1>7 DEF GetStep, GetBlob, OpenStream, SendChunk, EndOfFile, SendFails, ReadFails
<1>8. UNCHANGED vars => data'[h] = data[h]
  BY DEF vars
<1> QED
  BY <1>2, <1>4, <1>5, <1>6, <1>7, <1>8 DEF Next, ReadFault, Crash, Die

\* What one step makes of a reader: it may be left with the file as it was when its
\* name was removed, and it may send the next chunk.
LEMMA ReaderMoves ==
  ASSUME TypeOK, Next, NEW g \in Gets
  PROVE  /\ get'[g].held = get[g].held \/ get'[g].held = data[get[g].hash]
         /\ \/ get'[g].sent = get[g].sent
            \/ /\ Len(get[g].sent) + 1 <= Len(Readable(g))
               /\ get'[g].sent = Append(get[g].sent, Readable(g)[Len(get[g].sent) + 1])
<1> DEFINE Left == /\ get'[g].held = get[g].held \/ get'[g].held = data[get[g].hash]
                   /\ get'[g].sent = get[g].sent
<1>1. get \in [Gets -> GetCall]
  BY DEF TypeOK
<1>2. ASSUME NEW names, Lose(names)
      PROVE  Left
  BY <1>1, <1>2 DEF Lose, GetCall
<1>3. ASSUME NEW k, remove(k)
      PROVE  Left
  BY <1>1, <1>3 DEF remove, GetCall
<1>4. UNCHANGED get => Left
  OBVIOUS
<1>5. ASSUME NEW s \in Saves, SaveStep(s) \/ ReceiveChunkShort(s) \/ ReceiveChunkFails(s)
      PROVE  Left
  BY <1>2, <1>3, <1>4, <1>5 DEF SaveStep, SaveBlob, ReceiveChunk, AcceptStream, RejectStream,
     EmptyStream, Die, MasterAnswers, ReceiveChunkShort, ReceiveChunkFails
<1>6. ASSUME NEW d \in Deletes, DeleteStep(d)
      PROVE  Left
  BY <1>3, <1>4, <1>6 DEF DeleteStep, DeleteBlob, RemoveFile
<1>7. ASSUME NEW r \in Gets, SendChunk(r)
      PROVE  /\ get'[g].held = get[g].held
             /\ \/ get'[g].sent = get[g].sent
                \/ /\ Len(get[g].sent) + 1 <= Len(Readable(g))
                   /\ get'[g].sent = Append(get[g].sent, Readable(g)[Len(get[g].sent) + 1])
  BY <1>1, <1>7 DEF SendChunk, GetCall
<1>8. ASSUME NEW r \in Gets,
             GetBlob(r) \/ OpenStream(r) \/ EndOfFile(r) \/ SendFails(r) \/ ReadFails(r)
      PROVE  Left
  BY <1>1, <1>8 DEF GetBlob, OpenStream, EndOfFile, SendFails, ReadFails, GetCall
<1>9. UNCHANGED vars => Left
  BY DEF vars
<1> QED
  BY <1>2, <1>5, <1>6, <1>7, <1>8, <1>9
  DEF Next, GetStep, WriteFault, ReadFault, Crash, Die

LEMMA BeginningsStep ==
  ASSUME ~WriteFault, TypeOK, ReceivedSoFar, Beginnings, Next
  PROVE  Beginnings'
<1>1. /\ \A s \in Saves : /\ save'[s].hash = save[s].hash
                          /\ save'[s].blob = save[s].blob
                          /\ save[s] \in SaveCall
      /\ \A g \in Gets : get'[g].hash = get[g].hash /\ get[g] \in GetCall
  BY CallArgumentsKept DEF TypeOK
<1>0. (\A s \in Saves : save[s].blob = save[s].hash)'
        => \A s \in Saves : save[s].blob = save[s].hash
  BY <1>1
<1> SUFFICES ASSUME \A s \in Saves : save[s].blob = save[s].hash
             PROVE  /\ \A h \in Hashes : BeginningOf(data'[h], h)
                    /\ \A g \in Gets : /\ BeginningOf(get'[g].held, get'[g].hash)
                                       /\ BeginningOf(get'[g].sent, get'[g].hash)
  BY <1>0 DEF Beginnings, BeginningOf
<1>2. /\ \A h \in Hashes : BeginningOf(data[h], h)
      /\ \A g \in Gets : /\ BeginningOf(get[g].held, get[g].hash)
                         /\ BeginningOf(get[g].sent, get[g].hash)
  BY DEF Beginnings
<1>3. ASSUME NEW h \in Hashes
      PROVE  BeginningOf(data'[h], h)
  <2>1. CASE data'[h] = <<>>
    <3>1. 0 \in 0..Chunks
      BY ChunksAssumption
    <3> QED
      BY <2>1, <3>1, PrefixFacts DEF BeginningOf
  <2>2. ASSUME NEW s \in Saves,
               save[s].pc = "receiving", save[s].hash = h, save[s].received < Chunks,
               data'[h] = Append(data[h], <<save[s].blob, save[s].received + 1>>)
        PROVE  BeginningOf(data'[h], h)
    <3>1. data[h] = Prefix(h, save[s].received)
      BY <2>2 DEF ReceivedSoFar
    <3>2. save[s].received \in 0..Chunks /\ save[s].received + 1 \in 0..Chunks
      BY <1>1, <2>2, ChunksAssumption DEF SaveCall
    <3>3. data'[h] = Prefix(h, save[s].received + 1)
      BY <2>2, <3>1, <3>2, PrefixFacts
    <3> QED
      BY <3>2, <3>3 DEF BeginningOf
  <2> QED
    BY <1>2, <2>1, <2>2, FileMoves
<1>4. ASSUME NEW g \in Gets
      PROVE  BeginningOf(get'[g].held, get[g].hash) /\ BeginningOf(get'[g].sent, get[g].hash)
  <2> DEFINE h == get[g].hash
  <2>1. h \in Hashes
    BY <1>1 DEF GetCall
  <2>2. BeginningOf(get'[g].held, h)
    BY <1>2, <2>1, ReaderMoves
  <2>3. ASSUME Len(get[g].sent) + 1 <= Len(Readable(g)),
               get'[g].sent = Append(get[g].sent, Readable(g)[Len(get[g].sent) + 1])
        PROVE  BeginningOf(get'[g].sent, h)
    <3>1. PICK m \in 0..Chunks : get[g].sent = Prefix(h, m)
      BY <1>2 DEF BeginningOf
    <3>2. PICK n \in 0..Chunks : Readable(g) = Prefix(h, n)
      BY <1>2, <2>1 DEF BeginningOf, Readable
    <3>3. Len(get[g].sent) = m /\ Len(Readable(g)) = n
      BY <2>1, <3>1, <3>2, PrefixFacts
    <3>4. m + 1 \in 0..Chunks /\ m + 1 \in 1..n
      BY <2>3, <3>3, ChunksAssumption
    <3>5. Readable(g)[m + 1] = <<h, m + 1>>
      BY <3>2, <3>4 DEF Prefix
    <3>6. get'[g].sent = Prefix(h, m + 1)
      BY <2>1, <2>3, <3>1, <3>3, <3>5, PrefixFacts
    <3> QED
      BY <3>4, <3>6 DEF BeginningOf
  <2> QED
    BY <1>2, <2>2, <2>3, ReaderMoves
<1> QED
  BY <1>1, <1>3, <1>4

\* As long as one call writes a blob at a time and no write fails, a GetBlob sends
\* the beginning of the blob asked for and nothing else, even from a file that is
\* deleted, emptied and written again under it or that cannot be read further.
THEOREM SentPrefixes == OrderlySpec => []SentIsPrefix
<1>1. Init => TypeOK /\ Beginnings
  <2> SUFFICES ASSUME Init PROVE Beginnings
    BY TypedInit
  <2>1. 0 \in 0..Chunks
    BY ChunksAssumption
  <2>2. \A h \in Hashes : BeginningOf(<<>>, h)
    BY <2>1, PrefixFacts DEF BeginningOf
  <2>3. /\ \A h \in Hashes : data[h] = <<>>
        /\ \A g \in Gets : get[g].held = <<>> /\ get[g].sent = <<>> /\ get[g].hash \in Hashes
    BY DEF Init
  <2> QED
    BY <2>2, <2>3 DEF Beginnings
<1>2. /\ OrderlyFiles
      /\ TypeOK
      /\ orderly => Beginnings
      /\ [OrderlyNext]_<<vars, orderly>>
      => TypeOK' /\ (orderly' => Beginnings')
  <2> SUFFICES ASSUME OrderlyFiles, TypeOK, orderly => Beginnings,
                      [OrderlyNext]_<<vars, orderly>>
               PROVE  TypeOK' /\ (orderly' => Beginnings')
    OBVIOUS
  <2>1. UNCHANGED vars => TypeOK' /\ (Beginnings => Beginnings')
    BY DEF TypeOK, Beginnings, vars
  <2>2. TypeOK /\ Next => TypeOK'
    BY TypedStep
  <2>3. FilesInv /\ TypeOK /\ Beginnings /\ Next /\ ~WriteFault => Beginnings'
    BY BeginningsStep DEF FilesInv
  <2>4. CASE OrderlyNext
    <3>1. Next /\ (orderly' => orderly /\ ~WriteFault)
      BY <2>4 DEF OrderlyNext
    <3> QED
      BY <2>2, <2>3, <3>1 DEF OrderlyFiles
  <2>5. CASE UNCHANGED <<vars, orderly>>
    <3>1. UNCHANGED vars /\ UNCHANGED orderly
      BY <2>5
    <3> QED
      BY <2>1, <3>1
  <2> QED
    BY <2>4, <2>5
<1>3. TypeOK /\ (orderly => Beginnings) => SentIsPrefix
  <2> SUFFICES ASSUME TypeOK, Beginnings, \A s \in Saves : save[s].blob = save[s].hash,
                      NEW g \in Gets
               PROVE  get[g].sent = Prefix(get[g].hash, Len(get[g].sent))
    BY DEF SentIsPrefix
  <2>1. get[g].hash \in Hashes
    BY DEF TypeOK, GetCall
  <2>2. PICK n \in 0..Chunks : get[g].sent = Prefix(get[g].hash, n)
    BY DEF Beginnings, BeginningOf
  <2> QED
    BY <2>1, <2>2, PrefixFacts
<1> QED
  BY <1>1, <1>2, <1>3, FilesInvariant, PTL DEF OrderlySpec, OrderlyInit
=============================================================================
