------------------------- MODULE BlobTransferProofs --------------------------
(***************************************************************************)
(* The bytes of an upload, for any number of uploads and names, any bytes, *)
(* any size and any MAX_CHUNK_SIZE.                                        *)
(***************************************************************************)
EXTENDS BlobTransfer, SequenceTheorems, TLAPS

\* The iterator stays within the file, which is what was received, and a chunk
\* in its hands is the next one, of at least a byte.
Within(u) ==
  /\ Len(up[u].streamed) <= MaxSize
  /\ iter[u].next_byte <= Len(up[u].streamed)
  /\ up[u].pc \in {"idle", "receiving"} =>
       iter[u].next_byte = 0 /\ iter[u].stream = {} /\ iter[u].current_chunk = {}
  /\ \A chunk \in iter[u].current_chunk :
       /\ iter[u].next_byte # Len(up[u].streamed)
       /\ Len(chunk) = BytesToRead(u)

IterInv == \A u \in Uploads : Within(u)

\* What the iterator asks for is there to be asked for, and is not nothing.
LEMMA BytesToReadBounds ==
  ASSUME TypeOK, IterInv, NEW u \in Uploads, iter[u].next_byte # Len(up[u].streamed)
  PROVE  /\ BytesToRead(u) \in Nat \ {0}
         /\ iter[u].next_byte + BytesToRead(u) <= Len(up[u].streamed)
<1>1. /\ iter[u].next_byte \in Nat
      /\ Len(up[u].streamed) \in Nat
      /\ iter[u].next_byte <= Len(up[u].streamed)
  BY SizesAssumption, LenProperties DEF TypeOK, IterInv, Within, Iterator, Upload
<1> QED BY <1>1, SizesAssumption DEF BytesToRead

-----------------------------------------------------------------------------
(* Types *)

LEMMA HeldTyped ==
  ASSUME TypeOK, NEW n \in Names
  PROVE  Held(n) \in Seq(Bytes)
<1>1. CASE dir[n] = {}
  BY <1>1 DEF Held
<1>2. CASE dir[n] # {}
  <2>1. (CHOOSE f \in dir[n] : TRUE) \in dir[n]
    BY <1>2
  <2>2. dir[n] \subseteq 1..Len(disk)
    BY DEF TypeOK
  <2> QED BY <1>2, <2>1, <2>2, ElementOfSeq DEF Held, TypeOK
<1> QED BY <1>1, <1>2

LEMMA PutTyped ==
  ASSUME TypeOK, NEW n \in Names, NEW bytes \in Seq(Bytes), Put(n, bytes)
  PROVE  /\ disk' \in Seq(Seq(Bytes))
         /\ Len(disk) <= Len(disk')
         /\ dir' \in [Names -> SUBSET (1..Len(disk'))]
<1> USE DEF TypeOK
<1>0. Len(disk) \in Nat
  BY LenProperties
<1>1. ASSUME NEW f \in dir[n], disk' = [disk EXCEPT ![f] = bytes], UNCHANGED dir
      PROVE  disk' \in Seq(Seq(Bytes)) /\ Len(disk') = Len(disk)
  BY <1>1, ExceptSeq
<1>2. ASSUME disk' = Append(disk, bytes), dir' = [dir EXCEPT ![n] = {Len(disk) + 1}]
      PROVE  /\ disk' \in Seq(Seq(Bytes))
             /\ Len(disk') = Len(disk) + 1
             /\ dir' \in [Names -> SUBSET (1..Len(disk'))]
  <2>1. disk' \in Seq(Seq(Bytes)) /\ Len(disk') = Len(disk) + 1
    BY <1>2, AppendProperties
  <2>2. 1..Len(disk) \subseteq 1..Len(disk') /\ Len(disk) + 1 \in 1..Len(disk')
    BY <2>1, <1>0
  <2> QED BY <1>2, <2>1, <2>2
<1> QED BY <1>0, <1>1, <1>2 DEF Put

LEMMA NewTyped ==
  ASSUME TypeOK, NEW n \in Names, New(n)
  PROVE  /\ disk' \in Seq(Seq(Bytes))
         /\ Len(disk) <= Len(disk')
         /\ dir' \in [Names -> SUBSET (1..Len(disk'))]
BY PutTyped, EmptySeq DEF New

LEMMA AppendTyped ==
  ASSUME TypeOK, NEW n \in Names, NEW chunk \in Seq(Bytes), append_chunk(n, chunk)
  PROVE  /\ disk' \in Seq(Seq(Bytes))
         /\ Len(disk) <= Len(disk')
         /\ dir' \in [Names -> SUBSET (1..Len(disk'))]
<1>1. PICK k \in 0..Len(chunk) : Put(n, Held(n) \o SubSeq(chunk, 1, k))
  BY DEF append_chunk
<1>2. SubSeq(chunk, 1, k) \in Seq(Bytes)
  <2>1. \A i \in 1..k : chunk[i] \in Bytes
    BY LenProperties, ElementOfSeq
  <2> QED BY <2>1, <1>1, LenProperties, SubSeqProperties
<1>3. Held(n) \o SubSeq(chunk, 1, k) \in Seq(Bytes)
  BY <1>2, HeldTyped, ConcatProperties
<1> QED BY <1>1, <1>3, PutTyped

\* Files are never fewer, so an iterator's stays one.
LEMMA IterTyped ==
  ASSUME TypeOK, Len(disk) <= Len(disk'), Len(disk') \in Nat, UNCHANGED iter
  PROVE  iter' \in [Uploads -> Iterator']
<1>1. 1..Len(disk) \subseteq 1..Len(disk')
  BY LenProperties DEF TypeOK
<1> QED BY <1>1 DEF TypeOK, Iterator

\* A chunk of the client: some bytes, no more than the bound leaves.
LEMMA ChunkTyped ==
  ASSUME TypeOK, NEW m \in Int, NEW chunk \in BoundedSeq(Bytes, m)
  PROVE  chunk \in Seq(Bytes) /\ Len(chunk) <= m
<1>1. PICK k \in 0..m : chunk \in [1..k -> Bytes]
  BY DEF BoundedSeq, SeqOf
<1> QED BY <1>1

\* An upload that a step leaves alone.
LEMMA WithinKept ==
  ASSUME NEW v \in Uploads, Within(v), up'[v].streamed = up[v].streamed, iter'[v] = iter[v],
         up'[v].pc \in {"idle", "receiving"} => up[v].pc \in {"idle", "receiving"}
  PROVE  Within(v)'
BY DEF Within, BytesToRead

\* The control state changes, and nothing else of the call.
LEMMA EndTyped ==
  ASSUME TypeOK, IterInv, NEW u \in Uploads, NEW pc \in Final \cup {"sending"}, End(u, pc),
         UNCHANGED iter
  PROVE  up' \in [Uploads -> Upload] /\ IterInv'
<1>1. up' = [up EXCEPT ![u] = [up[u] EXCEPT !.pc = pc]]
  BY DEF End
<1>2. [up[u] EXCEPT !.pc = pc] \in Upload
  BY DEF TypeOK, Upload
<1>3. up' \in [Uploads -> Upload]
  BY <1>1, <1>2 DEF TypeOK
<1>4. ASSUME NEW v \in Uploads PROVE Within(v)'
  <2>1. /\ up'[v].streamed = up[v].streamed
        /\ up'[v].pc \in {"idle", "receiving"} => up[v].pc \in {"idle", "receiving"}
    BY <1>1 DEF TypeOK, Upload, Final, Failed
  <2> QED BY <2>1, WithinKept DEF IterInv
<1> QED BY <1>3, <1>4 DEF IterInv

LEMMA ReceiveTyped ==
  ASSUME TypeOK, IterInv, NEW u \in Uploads, Receive(u)
  PROVE  (TypeOK /\ IterInv)'
<1>1. CASE ReadInfo(u)
  <2>1. ASSUME NEW n \in Names, NEW size \in 0..MaxSize, New(n),
               up' = [up EXCEPT ![u].pc = "receiving", ![u].name = {n}, ![u].announced = size]
        PROVE  (TypeOK /\ IterInv)'
    <3>1. /\ disk' \in Seq(Seq(Bytes))
          /\ Len(disk) <= Len(disk')
          /\ dir' \in [Names -> SUBSET (1..Len(disk'))]
      BY <2>1, NewTyped
    <3> DEFINE call == [up[u] EXCEPT !.pc = "receiving", !.name = {n}, !.announced = size]
    <3>2. up[u] \in Upload /\ call \in Upload /\ call.streamed = up[u].streamed
      BY DEF TypeOK, Upload
    <3>3. up' = [up EXCEPT ![u] = call]
      BY <2>1, Zenon DEF TypeOK
    <3> HIDE DEF call
    <3>4. up' \in [Uploads -> Upload]
      BY <3>2, <3>3 DEF TypeOK
    <3>5. iter' \in [Uploads -> Iterator']
      BY <1>1, <3>1, IterTyped, LenProperties DEF ReadInfo
    <3>6. ASSUME NEW v \in Uploads PROVE Within(v)'
      <4>1. up'[v].streamed = up[v].streamed
        BY <3>2, <3>3 DEF TypeOK
      <4>2. up'[v].pc \in {"idle", "receiving"} => up[v].pc \in {"idle", "receiving"}
        BY <1>1, <3>3 DEF ReadInfo, TypeOK
      <4> QED BY <1>1, <4>1, <4>2, WithinKept DEF ReadInfo, IterInv
    <3> QED BY <1>1, <3>1, <3>4, <3>5, <3>6 DEF ReadInfo, TypeOK, IterInv
  <2>2. ASSUME NEW pc \in {"refused", "broken"}, End(u, pc), UNCHANGED <<disk, dir>>
        PROVE  (TypeOK /\ IterInv)'
    BY <1>1, <2>2, EndTyped DEF ReadInfo, Final, Failed, TypeOK, Iterator
  <2> QED BY <1>1, <2>1, <2>2 DEF ReadInfo
<1>2. CASE ReadChunkData(u)
  <2>0. up[u] \in Upload /\ Len(up[u].streamed) \in Nat /\ up[u].streamed \in Seq(Bytes)
    BY LenProperties DEF TypeOK, Upload
  <2>1. PICK chunk \in BoundedSeq(Bytes, MaxSize - Len(up[u].streamed)), n \in up[u].name :
          /\ append_chunk(n, chunk)
          /\ up' = [up EXCEPT ![u].streamed = @ \o chunk]
    BY <1>2 DEF ReadChunkData
  <2>2. chunk \in Seq(Bytes) /\ Len(chunk) <= MaxSize - Len(up[u].streamed)
    <3>1. MaxSize - Len(up[u].streamed) \in Int
      BY <2>0, SizesAssumption
    <3> QED BY <3>1, ChunkTyped
  <2>3. n \in Names
    BY <2>0 DEF Upload
  <2>4. /\ disk' \in Seq(Seq(Bytes))
        /\ Len(disk) <= Len(disk')
        /\ dir' \in [Names -> SUBSET (1..Len(disk'))]
    BY <2>1, <2>2, <2>3, AppendTyped
  <2> DEFINE bytes == up[u].streamed \o chunk
  <2>5. bytes \in Seq(Bytes) /\ Len(bytes) = Len(up[u].streamed) + Len(chunk)
    BY <2>0, <2>2, ConcatProperties
  <2>6. up' = [up EXCEPT ![u] = [up[u] EXCEPT !.streamed = bytes]]
    BY <2>1
  <2> HIDE DEF bytes
  <2>7. up' \in [Uploads -> Upload]
    <3>1. [up[u] EXCEPT !.streamed = bytes] \in Upload
      BY <2>0, <2>5 DEF Upload
    <3> QED BY <2>6, <3>1 DEF TypeOK
  <2>8. iter' \in [Uploads -> Iterator']
    BY <1>2, <2>4, IterTyped, LenProperties DEF ReadChunkData
  <2>9. ASSUME NEW v \in Uploads PROVE Within(v)'
    <3>1. CASE v = u
      <4>1. iter'[u].next_byte = 0 /\ iter'[u].stream = {} /\ iter'[u].current_chunk = {}
        BY <1>2 DEF ReadChunkData, IterInv, Within
      <4>2. Len(up'[u].streamed) \in 0..MaxSize
        BY <2>0, <2>2, <2>5, <2>6, SizesAssumption, LenProperties DEF TypeOK, Upload
      <4> QED BY <3>1, <4>1, <4>2 DEF Within
    <3>2. CASE v # u
      BY <3>2, <1>2, <2>6, WithinKept DEF ReadChunkData, IterInv
    <3> QED BY <3>1, <3>2
  <2> QED BY <1>2, <2>4, <2>7, <2>8, <2>9 DEF ReadChunkData, TypeOK, IterInv
<1>3. CASE ReadChunkFails(u) \/ EndOfStream(u)
  <2>1. PICK pc \in {"sending", "refused", "broken"} : End(u, pc)
    BY <1>3 DEF ReadChunkFails, EndOfStream
  <2>2. UNCHANGED <<disk, dir, iter, stored>>
    BY <1>3 DEF ReadChunkFails, EndOfStream
  <2> QED BY <2>1, <2>2, EndTyped DEF Final, Failed, TypeOK, Iterator
<1> QED BY <1>1, <1>2, <1>3 DEF Receive

\* One iterator changes: the others need not be looked at.
LEMMA IterStepTyped ==
  ASSUME TypeOK, IterInv, NEW u \in Uploads, NEW it \in Iterator,
         iter' = [iter EXCEPT ![u] = it], UNCHANGED <<disk, dir, up>>,
         stored' \in [Uploads -> Seq(Bytes)], Within(u)'
  PROVE  (TypeOK /\ IterInv)'
<1>1. iter' \in [Uploads -> Iterator']
  BY DEF TypeOK, Iterator
<1>2. ASSUME NEW v \in Uploads PROVE Within(v)'
  BY WithinKept DEF IterInv, TypeOK
<1> QED BY <1>1, <1>2 DEF TypeOK, IterInv, Upload

LEMMA OpenStreamTyped ==
  ASSUME TypeOK, IterInv, NEW u \in Uploads, OpenStream(u)
  PROVE  (TypeOK /\ IterInv)'
<1>1. CASE End(u, "unreadable") /\ UNCHANGED <<disk, dir, iter, stored>>
  BY <1>1, EndTyped DEF Final, Failed, TypeOK, Iterator
<1>2. ASSUME NEW n \in up[u].name, iter' = [iter EXCEPT ![u].stream = dir[n]],
             UNCHANGED <<disk, dir, up, stored>>
      PROVE  (TypeOK /\ IterInv)'
  <2> DEFINE it == [iter[u] EXCEPT !.stream = dir[n]]
  <2>1. dir[n] \subseteq 1..Len(disk)
    BY DEF TypeOK, Upload
  <2>2. it \in Iterator
    BY <2>1 DEF TypeOK, Iterator
  <2>3. iter' = [iter EXCEPT ![u] = it]
    BY <1>2
  <2>4. Within(u)'
    BY <1>2 DEF OpenStream, Iterating, IterInv, Within, BytesToRead, TypeOK, Iterator
  <2> HIDE DEF it
  <2> QED BY <1>2, <2>2, <2>3, <2>4, IterStepTyped DEF TypeOK
<1> QED BY <1>1, <1>2 DEF OpenStream

LEMMA ReadChunkTyped ==
  ASSUME TypeOK, IterInv, NEW u \in Uploads, ReadChunk(u)
  PROVE  (TypeOK /\ IterInv)'
<1> DEFINE to == iter[u].next_byte + BytesToRead(u)
<1>1. CASE End(u, "unreadable") /\ UNCHANGED <<disk, dir, iter, stored>>
  BY <1>1, EndTyped DEF Final, Failed, TypeOK, Iterator
<1>2. ASSUME NEW f \in iter[u].stream, to <= Len(disk[f]), UNCHANGED <<disk, dir, up, stored>>,
             iter' = [iter EXCEPT ![u].current_chunk =
                                    {SubSeq(disk[f], iter[u].next_byte + 1, to)}]
      PROVE  (TypeOK /\ IterInv)'
  <2> DEFINE chunk == SubSeq(disk[f], iter[u].next_byte + 1, to)
             it == [iter[u] EXCEPT !.current_chunk = {chunk}]
  <2>1. disk[f] \in Seq(Bytes)
    <3>1. f \in 1..Len(disk)
      BY DEF TypeOK, Iterator
    <3> QED BY <3>1, ElementOfSeq DEF TypeOK
  <2>2. up[u].pc = "sending" /\ iter[u].next_byte # Len(up[u].streamed)
    BY DEF ReadChunk, Iterating
  <2>3. iter[u].next_byte \in Nat /\ BytesToRead(u) \in Nat \ {0}
    BY <2>2, BytesToReadBounds, SizesAssumption DEF TypeOK, Iterator
  <2>4. chunk \in Seq(Bytes) /\ Len(chunk) = BytesToRead(u)
    <3>1. \A i \in (iter[u].next_byte + 1)..to : disk[f][i] \in Bytes
      BY <2>1, <2>3, <1>2, ElementOfSeq, LenProperties
    <3> QED BY <3>1, <2>3, SubSeqProperties
  <2> HIDE DEF chunk
  <2>5. it \in Iterator
    BY <2>4 DEF TypeOK, Iterator
  <2>6. iter' = [iter EXCEPT ![u] = it]
    BY <1>2 DEF chunk
  <2>7. Within(u)'
    <3>1. iter'[u] = it
      BY <2>6 DEF TypeOK
    <3>2. it.next_byte = iter[u].next_byte /\ it.current_chunk = {chunk}
      BY DEF TypeOK, Iterator
    <3> HIDE DEF it
    <3> QED BY <1>2, <2>2, <2>4, <3>1, <3>2 DEF IterInv, Within, BytesToRead
  <2> HIDE DEF it
  <2> QED BY <1>2, <2>5, <2>6, <2>7, IterStepTyped DEF TypeOK
<1> QED BY <1>1, <1>2 DEF ReadChunk

LEMMA SendChunkTyped ==
  ASSUME TypeOK, IterInv, NEW u \in Uploads, SendChunk(u)
  PROVE  (TypeOK /\ IterInv)'
<1>1. PICK chunk \in iter[u].current_chunk :
        /\ stored' = [stored EXCEPT ![u] = @ \o chunk]
        /\ iter' = [iter EXCEPT ![u] = Advanced(iter[u], chunk)]
  BY DEF SendChunk
<1>2. chunk \in Seq(Bytes) /\ iter[u].next_byte \in Nat
  BY SizesAssumption DEF TypeOK, Iterator
<1>3. stored' \in [Uploads -> Seq(Bytes)]
  BY <1>1, <1>2, ConcatProperties DEF TypeOK
<1>4. /\ iter[u].next_byte + Len(chunk) \in 0..MaxSize
      /\ iter[u].next_byte + Len(chunk) <= Len(up[u].streamed)
  <2>1. Len(chunk) = BytesToRead(u) /\ Len(up[u].streamed) <= MaxSize
    BY DEF IterInv, Within
  <2>2. iter[u].next_byte # Len(up[u].streamed) /\ Len(up[u].streamed) \in Nat
    BY LenProperties DEF SendChunk, Iterating, TypeOK, Upload
  <2> QED BY <1>2, <2>1, <2>2, BytesToReadBounds, SizesAssumption
<1>5. Advanced(iter[u], chunk) \in Iterator
  BY <1>4 DEF Advanced, TypeOK, Iterator
<1>6. Within(u)'
  <2>1. /\ iter'[u].next_byte = iter[u].next_byte + Len(chunk)
        /\ iter'[u].current_chunk = {}
    BY <1>1 DEF Advanced, TypeOK, Iterator
  <2>2. UNCHANGED up /\ up[u].pc = "sending"
    BY DEF SendChunk, Iterating
  <2> QED BY <1>4, <2>1, <2>2 DEF IterInv, Within
<1> QED BY <1>1, <1>3, <1>5, <1>6, IterStepTyped DEF SendChunk

LEMMA SendTyped ==
  ASSUME TypeOK, IterInv, NEW u \in Uploads, Send(u) \/ SendFails(u)
  PROVE  (TypeOK /\ IterInv)'
<1>1. CASE EndOfBlob(u) \/ SendFails(u)
  <2>1. PICK pc \in {"ok", "rejected", "broken"} : End(u, pc)
    BY <1>1 DEF EndOfBlob, SendFails
  <2>2. UNCHANGED <<disk, iter, stored>> /\ dir' \in [Names -> SUBSET (1..Len(disk))]
    BY <1>1 DEF EndOfBlob, SendFails, remove, TypeOK
  <2> QED BY <2>1, <2>2, EndTyped DEF Final, Failed, TypeOK, Iterator
<1>2. CASE ReadingFails(u)
  <2> DEFINE call == [up[u] EXCEPT !.pc = "unreadable", !.unread = TRUE]
  <2>1. call \in Upload /\ call.streamed = up[u].streamed /\ call.pc = "unreadable"
    BY DEF TypeOK, Upload, Final, Failed
  <2>2. up' = [up EXCEPT ![u] = call] /\ UNCHANGED <<disk, dir, iter, stored>>
    BY <1>2, Zenon DEF ReadingFails, TypeOK
  <2> HIDE DEF call
  <2>3. ASSUME NEW v \in Uploads PROVE Within(v)'
    <3>1. /\ up'[v].streamed = up[v].streamed
          /\ up'[v].pc \in {"idle", "receiving"} => up[v].pc \in {"idle", "receiving"}
      BY <2>1, <2>2 DEF TypeOK
    <3> QED BY <2>2, <3>1, WithinKept DEF IterInv
  <2> QED BY <2>1, <2>2, <2>3 DEF TypeOK, IterInv, Iterator
<1> QED BY <1>1, <1>2, OpenStreamTyped, ReadChunkTyped, SendChunkTyped DEF Send

\* Every variable keeps its type; the position of the iterator never leaves the
\* file, which is IterInv.
THEOREM TransferTypeCorrect == Spec => [](TypeOK /\ IterInv)
<1>1. Init => TypeOK /\ IterInv
  <2> SUFFICES ASSUME Init PROVE TypeOK /\ IterInv
    OBVIOUS
  <2>1. <<>> \in Seq(Seq(Bytes)) /\ <<>> \in Seq(Bytes) /\ Len(<<>>) = 0
    BY EmptySeq
  <2>2. TypeOK
    BY <2>1, SizesAssumption DEF Init, TypeOK, Upload, Iterator
  <2>3. IterInv
    BY <2>1, SizesAssumption DEF Init, IterInv, Within
  <2> QED BY <2>2, <2>3
<1>2. (TypeOK /\ IterInv) /\ [Next]_vars => (TypeOK /\ IterInv)'
  <2>1. ASSUME TypeOK, IterInv, UNCHANGED vars PROVE (TypeOK /\ IterInv)'
    BY <2>1 DEF vars, TypeOK, IterInv, Within, BytesToRead, Upload, Iterator
  <2> QED BY <2>1, ReceiveTyped, SendTyped DEF Next
<1> QED BY <1>1, <1>2, PTL DEF Spec

-----------------------------------------------------------------------------
(* The end of the loop *)

\* A chunk leaves the iterator only when it is sent, and moves it on.
LEMMA ChunkLeaves ==
  ASSUME TypeOK, IterInv, [Next]_vars, NEW u \in Uploads,
         iter[u].current_chunk # {}, iter'[u].current_chunk = {}
  PROVE  iter'[u].next_byte \in (iter[u].next_byte + 1)..Len(up[u].streamed)
<1>1. SendChunk(u)
  <2>1. PICK v \in Uploads : Receive(v) \/ Send(v) \/ SendFails(v)
    BY DEF Next, vars
  <2>2. iter' # iter
    OBVIOUS
  <2>3. OpenStream(v) \/ ReadChunk(v) \/ SendChunk(v)
    BY <2>1, <2>2 DEF Receive, ReadInfo, ReadChunkData, ReadChunkFails, EndOfStream, Send,
       ReadingFails, SendFails, EndOfBlob
  <2>4. CASE OpenStream(v) \/ ReadChunk(v)
    <3>1. CASE OpenStream(v)
      <4>1. iter'[u].current_chunk = iter[u].current_chunk
        <5>1. PICK file : iter' = [iter EXCEPT ![v].stream = file]
          BY <3>1, <2>2 DEF OpenStream
        <5> QED BY <5>1 DEF TypeOK, Iterator
      <4> QED BY <4>1
    <3>2. CASE ReadChunk(v)
      <4>1. PICK chunk : iter' = [iter EXCEPT ![v].current_chunk = {chunk}]
        BY <3>2, <2>2 DEF ReadChunk
      <4>2. iter'[u].current_chunk # {}
        BY <4>1 DEF TypeOK, Iterator
      <4> QED BY <4>2
    <3> QED BY <2>4, <3>1, <3>2
  <2>5. CASE SendChunk(v)
    BY <2>5 DEF SendChunk, TypeOK
  <2> QED BY <2>3, <2>4, <2>5
<1>2. PICK chunk \in iter[u].current_chunk :
        iter' = [iter EXCEPT ![u] = Advanced(iter[u], chunk)]
  BY <1>1 DEF SendChunk
<1>3. Len(chunk) = BytesToRead(u) /\ iter[u].next_byte # Len(up[u].streamed)
  BY DEF IterInv, Within
<1>4. iter'[u].next_byte = iter[u].next_byte + Len(chunk)
  BY <1>2 DEF Advanced, TypeOK, Iterator
<1>5. iter[u].next_byte \in Nat /\ Len(up[u].streamed) \in Nat
  BY SizesAssumption, LenProperties DEF TypeOK, Iterator, Upload
<1> QED BY <1>3, <1>4, <1>5, BytesToReadBounds

\* The loop ends at the last byte of the file and not beyond, for every size of
\* the file and of the chunks.
THEOREM ChunksAdvance == Spec => EveryChunkAdvances
<1>1. TypeOK /\ IterInv /\ [Next]_vars =>
        [\A u \in Uploads :
           iter[u].current_chunk # {} /\ iter'[u].current_chunk = {} =>
             iter'[u].next_byte \in (iter[u].next_byte + 1)..Len(up[u].streamed)]_vars
  BY ChunkLeaves
<1> QED BY <1>1, TransferTypeCorrect, PTL DEF Spec, EveryChunkAdvances

-----------------------------------------------------------------------------
(* What the temporary file does to the upload *)

\* A name stands for one file, and a file has one name; an upload has one name.
FilesInv ==
  /\ \A n \in Names : \A f, g \in dir[n] : f = g
  /\ \A n, m \in Names : n # m => dir[n] \cap dir[m] = {}
  /\ \A u \in Uploads : \A n, m \in up[u].name : n = m
  /\ \A u \in Uploads : up[u].pc = "idle" => up[u].name = {}

\* As long as the file is the upload's own, what has been sent is its beginning
\* and what was read comes next; and if it holds what was received, nothing fails.
SentSoFar(u, n) ==
  /\ iter[u].stream \subseteq dir[n]
  /\ iter[u].next_byte <= Len(Held(n))
  /\ stored[u] = SubSeq(Held(n), 1, iter[u].next_byte)
  /\ \A chunk \in iter[u].current_chunk :
       /\ iter[u].next_byte + BytesToRead(u) <= Len(Held(n))
       /\ chunk = SubSeq(Held(n), iter[u].next_byte + 1, iter[u].next_byte + BytesToRead(u))

ReadSoFar(u) ==
  /\ up[u].pc \in {"idle", "receiving"} => stored[u] = <<>>
  /\ up[u].pc = "sending" /\ Alone(u) => \A n \in up[u].name : SentSoFar(u, n)
  /\ up[u].pc \in {"unreadable", "rejected"} /\ Alone(u) /\ Intact(u) =>
       up[u].streamed = <<>> \/ up[u].unread

ReadInv == \A u \in Uploads : ReadSoFar(u)

LEMMA HeldIs ==
  ASSUME FilesInv, NEW n \in Names, NEW f \in dir[n]
  PROVE  Held(n) = disk[f]
BY DEF FilesInv, Held

\* Writing to one name leaves the file of another alone, and names apart.
LEMMA PutElsewhere ==
  ASSUME TypeOK, FilesInv, NEW m \in Names, NEW bytes, Put(m, bytes)
  PROVE  /\ \A n \in Names : \A f, g \in dir'[n] : f = g
         /\ \A n, k \in Names : n # k => dir'[n] \cap dir'[k] = {}
         /\ \A n \in Names \ {m} : dir'[n] = dir[n] /\ \A f \in dir[n] : disk'[f] = disk[f]
<1>1. ASSUME NEW f \in dir[m], disk' = [disk EXCEPT ![f] = bytes], UNCHANGED dir
      PROVE  \A n \in Names \ {m} : \A g \in dir[n] : disk'[g] = disk[g]
  <2> SUFFICES ASSUME NEW n \in Names \ {m}, NEW g \in dir[n] PROVE disk'[g] = disk[g]
    OBVIOUS
  <2>1. g # f /\ g \in 1..Len(disk) /\ f \in 1..Len(disk)
    BY DEF FilesInv, TypeOK
  <2> QED BY <1>1, <2>1, ExceptSeq DEF TypeOK
<1>2. ASSUME disk' = Append(disk, bytes), dir' = [dir EXCEPT ![m] = {Len(disk) + 1}]
      PROVE  /\ \A n \in Names : \A f, g \in dir'[n] : f = g
             /\ \A n, k \in Names : n # k => dir'[n] \cap dir'[k] = {}
             /\ \A n \in Names \ {m} : /\ dir'[n] = dir[n]
                                       /\ \A f \in dir[n] : disk'[f] = disk[f]
  <2>1. \A n \in Names : dir[n] \subseteq 1..Len(disk)
    BY DEF TypeOK
  <2>2. \A n \in Names : dir'[n] = IF n = m THEN {Len(disk) + 1} ELSE dir[n]
    BY <1>2 DEF TypeOK
  <2>3. Len(disk) \in Nat
    BY LenProperties DEF TypeOK
  <2>4. \A f \in 1..Len(disk) : disk'[f] = disk[f]
    BY <1>2, <2>3 DEF TypeOK
  <2> QED BY <2>1, <2>2, <2>3, <2>4 DEF FilesInv
<1> QED BY <1>1, <1>2 DEF Put, FilesInv

\* A step touches the file of no name but its upload's.
LEMMA FilesStep ==
  ASSUME TypeOK, FilesInv, NEW v \in Uploads, Receive(v) \/ Send(v) \/ SendFails(v)
  PROVE  /\ FilesInv'
         /\ \A u \in Uploads \ {v} : /\ up'[u] = up[u] /\ iter'[u] = iter[u]
                                     /\ stored'[u] = stored[u]
         /\ up[v].pc = "idle" \/ up'[v].name = up[v].name
         /\ \A n \in Names \ up'[v].name :
              dir'[n] = dir[n] /\ \A f \in dir[n] : disk'[f] = disk[f]
<1> USE DEF TypeOK
<1>0. up[v] \in Upload
  OBVIOUS
<1>1. CASE ReadInfo(v)
  <2>1. ASSUME NEW n \in Names, NEW size \in 0..MaxSize, New(n),
               up' = [up EXCEPT ![v].pc = "receiving", ![v].name = {n}, ![v].announced = size]
        PROVE  /\ FilesInv'
               /\ \A u \in Uploads \ {v} : up'[u] = up[u]
               /\ \A k \in Names \ up'[v].name :
                    dir'[k] = dir[k] /\ \A f \in dir[k] : disk'[f] = disk[f]
    <3>1. up'[v].name = {n} /\ up'[v].pc = "receiving"
      BY <2>1 DEF Upload
    <3>2. \A u \in Uploads \ {v} : up'[u] = up[u]
      BY <2>1
    <3> QED BY <2>1, <3>1, <3>2, PutElsewhere DEF FilesInv, New
  <2>2. ASSUME NEW pc \in {"refused", "broken"}, End(v, pc), UNCHANGED <<disk, dir>>
        PROVE  FilesInv' /\ \A u \in Uploads \ {v} : up'[u] = up[u]
    <3>1. up'[v].name = up[v].name /\ up'[v].pc = pc
      BY <2>2 DEF End, Upload
    <3>2. \A u \in Uploads \ {v} : up'[u] = up[u]
      BY <2>2 DEF End
    <3> QED BY <2>2, <3>1, <3>2 DEF FilesInv
  <2> QED BY <1>1, <2>1, <2>2 DEF ReadInfo
<1>2. CASE ReadChunkData(v)
  <2>1. PICK chunk \in BoundedSeq(Bytes, MaxSize - Len(up[v].streamed)), n \in up[v].name :
          /\ append_chunk(n, chunk)
          /\ up' = [up EXCEPT ![v].streamed = @ \o chunk]
    BY <1>2 DEF ReadChunkData
  <2>2. PICK bytes : Put(n, bytes)
    BY <2>1 DEF append_chunk
  <2>3. n \in Names /\ up[v].name = {n}
    <3>1. up[v].name \subseteq Names
      BY <1>0 DEF Upload
    <3>2. \A m \in up[v].name : m = n
      BY DEF FilesInv
    <3> QED BY <3>1, <3>2
  <2>4. up'[v].name = up[v].name /\ up'[v].pc = up[v].pc
    BY <2>1 DEF Upload
  <2>5. \A u \in Uploads \ {v} : up'[u] = up[u]
    BY <2>1
  <2> QED BY <1>2, <2>2, <2>3, <2>4, <2>5, PutElsewhere DEF FilesInv, ReadChunkData
<1>3. CASE SendChunk(v)
  BY <1>3 DEF SendChunk, FilesInv
<1>4. CASE \E pc \in {"sending", "refused", "broken", "unreadable"} :
             End(v, pc) /\ UNCHANGED <<disk, dir, iter, stored>>
  <2>1. up'[v].name = up[v].name /\ up'[v].pc # "idle"
    BY <1>4 DEF End, Upload
  <2>2. \A u \in Uploads \ {v} : up'[u] = up[u]
    BY <1>4 DEF End
  <2> QED BY <1>4, <2>1, <2>2 DEF FilesInv
<1>5. CASE ReadChunkFails(v) \/ EndOfStream(v) \/ SendFails(v)
  BY <1>4, <1>5 DEF ReadChunkFails, EndOfStream, SendFails
<1>6. CASE OpenStream(v) \/ ReadChunk(v)
  BY <1>4, <1>6 DEF OpenStream, ReadChunk, FilesInv
<1>8. CASE ReadingFails(v)
  <2>1. /\ up' = [up EXCEPT ![v] = [up[v] EXCEPT !.pc = "unreadable", !.unread = TRUE]]
        /\ UNCHANGED <<disk, dir, iter, stored>>
    BY <1>8, Zenon DEF ReadingFails
  <2>2. up'[v].name = up[v].name /\ up'[v].pc # "idle"
    BY <2>1 DEF Upload
  <2>3. \A u \in Uploads \ {v} : up'[u] = up[u]
    BY <2>1
  <2> QED BY <2>1, <2>2, <2>3 DEF FilesInv
<1>7. CASE EndOfBlob(v)
  <2>1. PICK pc \in {"ok", "rejected"} : End(v, pc)
    BY <1>7 DEF EndOfBlob
  <2>2. up'[v].name = up[v].name /\ up'[v].pc # "idle"
    BY <2>1 DEF End, Upload
  <2>3. \A u \in Uploads \ {v} : up'[u] = up[u]
    BY <2>1 DEF End
  <2>4. \A n \in Names : dir'[n] \in {dir[n], {}} /\ (n \notin up[v].name => dir'[n] = dir[n])
    BY <1>7 DEF EndOfBlob, remove
  <2> QED BY <1>7, <2>2, <2>3, <2>4, ZenonT(60) DEF FilesInv, EndOfBlob
<1> QED BY <1>1, <1>2, <1>3, <1>5, <1>6, <1>7, <1>8 DEF Receive, Send

\* Another upload's step can neither mend the file nor give back its name.
LEMMA OthersRead ==
  ASSUME TypeOK, FilesInv, ReadInv, NEW v \in Uploads, Receive(v) \/ Send(v) \/ SendFails(v),
         NEW u \in Uploads \ {v}
  PROVE  ReadSoFar(u)'
<1>1. up'[u] = up[u] /\ iter'[u] = iter[u] /\ stored'[u] = stored[u]
  BY FilesStep
<1>2. BytesToRead(u)' = BytesToRead(u)
  BY <1>1 DEF BytesToRead
<1>3. ASSUME Alone(u)'
      PROVE  /\ Alone(u)
             /\ \A n \in up[u].name : dir'[n] = dir[n] /\ Held(n)' = Held(n)
             /\ Intact(u)' => Intact(u)
  <2>1. up'[v].name \cap up[u].name = {}
    BY <1>1, <1>3 DEF Alone
  <2>2. \A n \in up[u].name : n \in Names \ up'[v].name
    BY <2>1 DEF TypeOK, Upload
  <2>3. \A n \in up[u].name : dir'[n] = dir[n] /\ \A f \in dir[n] : disk'[f] = disk[f]
    BY <2>2, FilesStep
  <2>4. Alone(u)
    <3>1. ASSUME NEW x \in Uploads \ {u} PROVE up[x].name \subseteq up'[x].name
      BY FilesStep DEF FilesInv
    <3> QED BY <1>1, <1>3, <3>1 DEF Alone
  <2>5. ASSUME NEW n \in up[u].name PROVE Held(n)' = Held(n)
    <3>1. CASE dir[n] = {}
      BY <2>3, <3>1 DEF Held
    <3>2. CASE dir[n] # {}
      <4>1. (CHOOSE f \in dir[n] : TRUE) \in dir[n]
        BY <3>2
      <4> QED BY <2>3, <3>2, <4>1 DEF Held
    <3> QED BY <3>1, <3>2
  <2>6. Intact(u)' => Intact(u)
    BY <1>1, <2>3, <2>5 DEF Intact
  <2> QED BY <2>3, <2>4, <2>5, <2>6
<1>4. ASSUME NEW n \in up[u].name, SentSoFar(u, n), dir'[n] = dir[n], Held(n)' = Held(n)
      PROVE  SentSoFar(u, n)'
  BY <1>1, <1>2, <1>4 DEF SentSoFar
<1> QED BY <1>1, <1>3, <1>4 DEF ReadInv, ReadSoFar

\* The upload's own steps: it sends what it reads, and reads what it received.
LEMMA OwnRead ==
  ASSUME TypeOK, IterInv, FilesInv, ReadInv, NEW u \in Uploads,
         Receive(u) \/ Send(u) \/ SendFails(u)
  PROVE  ReadSoFar(u)'
<1>0. /\ up[u] \in Upload /\ iter[u] \in Iterator
      /\ up[u].streamed \in Seq(Bytes) /\ Len(up[u].streamed) \in Nat
      /\ iter[u].next_byte \in Nat /\ iter[u].next_byte <= Len(up[u].streamed)
      /\ ReadSoFar(u)
  BY SizesAssumption, LenProperties DEF TypeOK, Upload, Iterator, IterInv, Within, ReadInv
<1>1. CASE ReadInfo(u)
  <2>1. PICK pc \in {"receiving", "refused", "broken"} : up'[u].pc = pc
    BY <1>1, ZenonT(60) DEF ReadInfo, End, TypeOK, Upload
  <2> QED BY <1>0, <1>1, <2>1 DEF ReadInfo, ReadSoFar
<1>2. CASE ReadChunkData(u)
  <2>1. up'[u].pc = "receiving"
    BY <1>2 DEF ReadChunkData, TypeOK, Upload
  <2> QED BY <1>0, <1>2, <2>1 DEF ReadChunkData, ReadSoFar
<1>3. CASE ReadChunkFails(u) \/ EndOfStream(u)
  <2>1. PICK pc \in {"sending", "refused", "broken"} : End(u, pc)
    BY <1>3 DEF ReadChunkFails, EndOfStream
  <2>2. UNCHANGED <<disk, dir, iter, stored>> /\ up[u].pc = "receiving"
    BY <1>3 DEF ReadChunkFails, EndOfStream
  <2>3. up'[u].pc = pc /\ up'[u].streamed = up[u].streamed
    BY <1>0, <2>1 DEF End, TypeOK, Upload
  <2>4. iter[u].next_byte = 0 /\ iter[u].stream = {} /\ iter[u].current_chunk = {}
    BY <2>2 DEF IterInv, Within
  <2>5. ASSUME NEW n \in up[u].name PROVE SentSoFar(u, n)'
    <3>1. Held(n)' = Held(n) /\ Held(n) \in Seq(Bytes)
      BY <1>0, <2>2, HeldTyped DEF Held, Upload
    <3>2. SubSeq(Held(n), 1, 0) = <<>> /\ 0 <= Len(Held(n))
      BY <3>1, SubSeqEmpty, LenProperties
    <3>3. stored'[u] = <<>> /\ iter'[u] = iter[u]
      BY <1>0, <2>2 DEF ReadSoFar
    <3> QED BY <2>4, <3>1, <3>2, <3>3 DEF SentSoFar
  <2>6. up'[u].name = up[u].name
    BY <1>0, <2>1 DEF End, TypeOK, Upload
  <2> QED BY <2>3, <2>5, <2>6 DEF ReadSoFar
<1>4. CASE SendFails(u)
  <2>1. up'[u].pc = "broken"
    BY <1>4 DEF SendFails, End, TypeOK
  <2> QED BY <2>1 DEF ReadSoFar
<1>5. CASE Send(u)
  <2>0. ASSUME up'[u].name = up[u].name, up'[u].streamed = up[u].streamed,
               UNCHANGED <<disk, dir>>, Alone(u)'
        PROVE  /\ Alone(u)
               /\ \A n : Held(n)' = Held(n)
               /\ Intact(u)' => Intact(u)
    <3>1. \A v \in Uploads \ {u} : up'[v] = up[v]
      BY <1>5, FilesStep
    <3>2. Alone(u)
      BY <2>0, <3>1 DEF Alone
    <3>3. \A n : Held(n)' = Held(n)
      BY <2>0 DEF Held
    <3> QED BY <2>0, <3>2, <3>3 DEF Intact
  <2>1. CASE OpenStream(u)
    <3>1. PICK n \in up[u].name :
            \/ dir[n] # {} /\ iter' = [iter EXCEPT ![u].stream = dir[n]] /\ UNCHANGED up
            \/ dir[n] = {} /\ End(u, "unreadable") /\ UNCHANGED iter
      BY <2>1 DEF OpenStream
    <3>2. UNCHANGED <<disk, dir, stored>> /\ up[u].pc = "sending" /\ up[u].name = {n}
      <4>1. \A m \in up[u].name : m = n
        BY DEF FilesInv
      <4> QED BY <4>1, <2>1 DEF OpenStream, Iterating
    <3>3. CASE dir[n] # {} /\ iter' = [iter EXCEPT ![u].stream = dir[n]] /\ UNCHANGED up
      <4>1. /\ iter'[u].next_byte = iter[u].next_byte
            /\ iter'[u].current_chunk = iter[u].current_chunk
            /\ iter'[u].stream = dir[n]
        BY <1>0, <3>3 DEF TypeOK, Iterator
      <4>2. BytesToRead(u)' = BytesToRead(u)
        BY <3>3, <4>1 DEF BytesToRead
      <4>3. ASSUME Alone(u)' PROVE SentSoFar(u, n)'
        <5>1. SentSoFar(u, n) /\ Held(n)' = Held(n)
          BY <1>0, <2>0, <3>2, <3>3, <4>3 DEF ReadSoFar
        <5> QED BY <3>2, <4>1, <4>2, <5>1 DEF SentSoFar
      <4>4. up'[u].pc = "sending" /\ up'[u].name = {n}
        BY <3>2, <3>3
      <4> QED BY <4>3, <4>4 DEF ReadSoFar
    <3>4. CASE dir[n] = {} /\ End(u, "unreadable") /\ UNCHANGED iter
      <4>1. up'[u].pc = "unreadable" /\ up'[u].name = {n}
        BY <1>0, <3>2, <3>4 DEF End, TypeOK, Upload
      <4>2. ~Intact(u)'
        BY <3>2, <3>4, <4>1 DEF Intact
      <4> QED BY <4>1, <4>2 DEF ReadSoFar
    <3> QED BY <3>1, <3>3, <3>4
  <2>2. CASE ReadChunk(u)
    <3> DEFINE to == iter[u].next_byte + BytesToRead(u)
    <3>1. PICK f \in iter[u].stream :
            \/ /\ to <= Len(disk[f])
               /\ iter' = [iter EXCEPT ![u].current_chunk =
                                         {SubSeq(disk[f], iter[u].next_byte + 1, to)}]
               /\ UNCHANGED up
            \/ to > Len(disk[f]) /\ End(u, "unreadable") /\ UNCHANGED iter
      BY <2>2 DEF ReadChunk
    <3>2. /\ UNCHANGED <<disk, dir, stored>> /\ up[u].pc = "sending"
          /\ iter[u].next_byte # Len(up[u].streamed)
      BY <2>2 DEF ReadChunk, Iterating
    <3>3. to \in Nat /\ to <= Len(up[u].streamed)
      BY <1>0, <3>2, BytesToReadBounds
    <3>4. ASSUME Alone(u), NEW n \in up[u].name PROVE SentSoFar(u, n) /\ Held(n) = disk[f]
      <4>1. SentSoFar(u, n) /\ n \in Names
        BY <1>0, <3>2, <3>4 DEF ReadSoFar, Upload
      <4>2. f \in dir[n]
        BY <4>1 DEF SentSoFar
      <4> QED BY <4>1, <4>2, HeldIs
    <3>5. CASE /\ to <= Len(disk[f])
               /\ iter' = [iter EXCEPT ![u].current_chunk =
                                         {SubSeq(disk[f], iter[u].next_byte + 1, to)}]
               /\ UNCHANGED up
      <4>1. /\ iter'[u].next_byte = iter[u].next_byte
            /\ iter'[u].current_chunk = {SubSeq(disk[f], iter[u].next_byte + 1, to)}
            /\ iter'[u].stream = iter[u].stream
        BY <1>0, <3>5 DEF TypeOK, Iterator
      <4>2. BytesToRead(u)' = BytesToRead(u)
        BY <3>5, <4>1 DEF BytesToRead
      <4>3. ASSUME Alone(u)', NEW n \in up[u].name PROVE SentSoFar(u, n)'
        <5>1. Alone(u) /\ Held(n)' = Held(n)
          BY <2>0, <3>2, <3>5, <4>3
        <5>2. SentSoFar(u, n) /\ Held(n) = disk[f]
          BY <3>4, <5>1
        <5> QED BY <3>2, <3>5, <4>1, <4>2, <5>1, <5>2 DEF SentSoFar
      <4>4. up'[u].pc = "sending" /\ up'[u].name = up[u].name
        BY <3>2, <3>5
      <4> QED BY <4>3, <4>4 DEF ReadSoFar
    <3>6. CASE to > Len(disk[f]) /\ End(u, "unreadable") /\ UNCHANGED iter
      <4>1. /\ up'[u].pc = "unreadable" /\ up'[u].name = up[u].name
            /\ up'[u].streamed = up[u].streamed
        BY <1>0, <3>6 DEF End, TypeOK, Upload
      <4>2. ASSUME Alone(u)', Intact(u)' PROVE FALSE
        <5>1. Alone(u) /\ Intact(u)
          BY <2>0, <3>2, <4>1, <4>2
        <5>2. PICK n \in up[u].name : Held(n) = up[u].streamed
          BY <5>1 DEF Intact
        <5>3. disk[f] = up[u].streamed
          BY <3>4, <5>1, <5>2
        <5> QED BY <1>0, <3>3, <3>6, <5>3
      <4> QED BY <4>1, <4>2 DEF ReadSoFar
    <3> QED BY <3>1, <3>5, <3>6
  <2>3. CASE SendChunk(u)
    <3>1. PICK chunk \in iter[u].current_chunk :
            /\ stored' = [stored EXCEPT ![u] = @ \o chunk]
            /\ iter' = [iter EXCEPT ![u] = Advanced(iter[u], chunk)]
      BY <2>3 DEF SendChunk
    <3>2. UNCHANGED <<disk, dir, up>> /\ up[u].pc = "sending"
      BY <2>3 DEF SendChunk, Iterating
    <3> DEFINE to == iter[u].next_byte + BytesToRead(u)
    <3>3. to \in Nat /\ to <= Len(up[u].streamed) /\ iter[u].next_byte <= to
      BY <1>0, <2>3, BytesToReadBounds DEF SendChunk, Iterating
    <3>4. /\ iter'[u].next_byte = to
          /\ iter'[u].current_chunk = {} /\ iter'[u].stream = iter[u].stream
      <4>1. Len(chunk) = BytesToRead(u)
        BY DEF IterInv, Within
      <4> QED BY <1>0, <3>1, <4>1 DEF Advanced, TypeOK, Iterator
    <3>5. stored'[u] = stored[u] \o chunk
      BY <3>1 DEF TypeOK
    <3>6. ASSUME Alone(u)', NEW n \in up[u].name PROVE SentSoFar(u, n)'
      <4>1. SentSoFar(u, n) /\ Held(n)' = Held(n)
        BY <1>0, <2>0, <3>2, <3>6 DEF ReadSoFar
      <4>2. /\ to <= Len(Held(n))
            /\ chunk = SubSeq(Held(n), iter[u].next_byte + 1, to)
        BY <4>1 DEF SentSoFar
      <4>3. Held(n) \in Seq(Bytes)
        BY <1>0, HeldTyped DEF Upload
      <4>4. SubSeq(Held(n), 1, iter[u].next_byte) \o SubSeq(Held(n), iter[u].next_byte + 1, to)
              = SubSeq(Held(n), 1, to)
        <5>1. /\ 1 \in 1..(Len(Held(n)) + 1)
              /\ iter[u].next_byte \in (1 - 1)..Len(Held(n))
              /\ to \in iter[u].next_byte..Len(Held(n))
          BY <1>0, <3>3, <4>2, <4>3, LenProperties
        <5> HIDE DEF to
        <5> QED BY <4>3, <5>1, ConcatAdjacentSubSeq
      <4>5. stored'[u] = SubSeq(Held(n), 1, to)
        BY <3>5, <4>1, <4>2, <4>4 DEF SentSoFar
      <4> HIDE DEF to
      <4> QED BY <3>2, <3>4, <4>1, <4>2, <4>5 DEF SentSoFar
    <3> QED BY <3>2, <3>6 DEF ReadSoFar
  <2>5. CASE ReadingFails(u)
    <3>1. /\ up' = [up EXCEPT ![u] = [up[u] EXCEPT !.pc = "unreadable", !.unread = TRUE]]
          /\ UNCHANGED <<disk, dir, iter, stored>>
      BY <2>5, Zenon DEF ReadingFails
    <3>2. up'[u].pc = "unreadable" /\ up'[u].unread = TRUE
      BY <1>0, <3>1 DEF TypeOK, Upload
    <3> QED BY <3>2 DEF ReadSoFar
  <2>4. CASE EndOfBlob(u)
    <3>1. /\ UNCHANGED <<disk, iter, stored>> /\ up[u].pc = "sending"
          /\ iter[u].next_byte = Len(up[u].streamed)
      BY <2>4 DEF EndOfBlob
    <3>2. CASE End(u, "ok")
      <4>1. up'[u].pc = "ok"
        BY <3>2 DEF End, TypeOK
      <4> QED BY <4>1 DEF ReadSoFar
    <3>3. CASE ~HashMatches(u) /\ End(u, "rejected") /\ UNCHANGED dir
      <4>1. /\ up'[u].pc = "rejected" /\ up'[u].name = up[u].name
            /\ up'[u].streamed = up[u].streamed
        BY <1>0, <3>3 DEF End, TypeOK, Upload
      <4>2. ASSUME Alone(u)', Intact(u)' PROVE up[u].streamed = <<>>
        <5>1. Alone(u) /\ Intact(u)
          BY <2>0, <3>1, <3>3, <4>1, <4>2
        <5>2. PICK n \in up[u].name : Held(n) = up[u].streamed
          BY <5>1 DEF Intact
        <5>3. stored[u] = SubSeq(up[u].streamed, 1, Len(up[u].streamed))
          BY <1>0, <3>1, <5>1, <5>2 DEF ReadSoFar, SentSoFar
        <5>4. stored[u] = up[u].streamed
          BY <1>0, <5>3, SubSeqFull
        <5> QED BY <3>3, <5>4 DEF HashMatches
      <4> QED BY <4>1, <4>2 DEF ReadSoFar
    <3> QED BY <2>4, <3>2, <3>3 DEF EndOfBlob
  <2> QED BY <1>5, <2>1, <2>2, <2>3, <2>4, <2>5 DEF Send
<1> QED BY <1>1, <1>2, <1>3, <1>4, <1>5 DEF Receive

LEMMA ReadInvariant == Spec => [](FilesInv /\ ReadInv)
<1>1. Init => FilesInv /\ ReadInv
  BY DEF Init, FilesInv, ReadInv, ReadSoFar
<1>2. TypeOK /\ IterInv /\ (FilesInv /\ ReadInv) /\ [Next]_vars => (FilesInv /\ ReadInv)'
  <2> SUFFICES ASSUME TypeOK, IterInv, FilesInv, ReadInv, [Next]_vars
               PROVE  FilesInv' /\ ReadInv'
    OBVIOUS
  <2>1. ASSUME NEW v \in Uploads, Receive(v) \/ Send(v) \/ SendFails(v)
        PROVE  FilesInv' /\ ReadInv'
    BY <2>1, FilesStep, OthersRead, OwnRead DEF ReadInv
  <2>2. CASE UNCHANGED vars
    <3>1. UNCHANGED <<disk, dir, up, iter, stored>>
      BY <2>2 DEF vars
    <3>2. \A n : Held(n)' = Held(n)
      BY <3>1 DEF Held
    <3>3. ASSUME NEW u \in Uploads PROVE ReadSoFar(u)'
      <4>1. BytesToRead(u)' = BytesToRead(u) /\ (Alone(u)' <=> Alone(u))
        BY <3>1 DEF BytesToRead, Alone
      <4>2. Intact(u)' <=> Intact(u)
        BY <3>1, <3>2 DEF Intact
      <4>3. \A n \in up[u].name : SentSoFar(u, n)' <=> SentSoFar(u, n)
        BY <3>1, <3>2, <4>1 DEF SentSoFar
      <4> QED BY <3>1, <4>1, <4>2, <4>3 DEF ReadInv, ReadSoFar
    <3> QED BY <3>1, <3>3 DEF FilesInv, ReadInv
  <2> QED BY <2>1, <2>2 DEF Next
<1> QED BY <1>1, <1>2, TransferTypeCorrect, PTL DEF Spec

\* The worker gets the bytes of the temporary file in order and without a gap,
\* however the client and the iterator cut it and whatever the disk does.
THEOREM SentBeginnings == Spec => []SentIsBeginning
<1>1. ReadInv => SentIsBeginning
  BY DEF ReadInv, ReadSoFar, SentSoFar, SentIsBeginning
<1> QED BY <1>1, ReadInvariant, PTL

\* A blob whole in a file of its own is read and accepted: an upload fails over
\* its file only when the name was given twice, a write fell short, the disk does
\* not give it back, or the blob is empty.
THEOREM FailureCauses == Spec => []FailureHasCause
<1>1. ReadInv => FailureHasCause
  BY DEF ReadInv, ReadSoFar, FailureHasCause
<1> QED BY <1>1, ReadInvariant, PTL

\* Who succeeds removes the one file it has a name for.
LEMMA SuccessRemoves ==
  ASSUME TypeOK, FilesInv, NEW v \in Uploads, Receive(v) \/ Send(v) \/ SendFails(v),
         up'[v].pc = "ok", NEW n \in up'[v].name
  PROVE  dir'[n] = {}
<1> USE DEF TypeOK, Upload
<1>1. EndOfBlob(v)
  <2>1. ~Receive(v)
    BY ZenonT(60) DEF Receive, ReadInfo, ReadChunkData, ReadChunkFails, EndOfStream, End
  <2>2. ~(OpenStream(v) \/ ReadChunk(v) \/ ReadingFails(v) \/ SendChunk(v) \/ SendFails(v))
    BY DEF OpenStream, ReadChunk, ReadingFails, SendChunk, SendFails, Iterating, End
  <2> QED BY <2>1, <2>2 DEF Send
<1>2. End(v, "ok") /\ \E m \in up[v].name : remove(m)
  BY <1>1 DEF EndOfBlob, End
<1>3. up'[v].name = up[v].name
  BY <1>2 DEF End
<1>4. PICK m \in up[v].name : remove(m)
  BY <1>2
<1>5. m = n /\ n \in Names
  BY <1>3 DEF FilesInv
<1> QED BY <1>4, <1>5 DEF remove

\* No file is left but those of uploads that have not succeeded.
THEOREM LeftoversOwned == Spec => []LeftoverHasOwner
<1>1. Init => FilesInv /\ LeftoverHasOwner
  BY DEF Init, FilesInv, LeftoverHasOwner
<1>2. TypeOK /\ (FilesInv /\ LeftoverHasOwner) /\ [Next]_vars => (FilesInv /\ LeftoverHasOwner)'
  <2> SUFFICES ASSUME TypeOK, FilesInv, LeftoverHasOwner, [Next]_vars
               PROVE  FilesInv' /\ LeftoverHasOwner'
    OBVIOUS
  <2>1. ASSUME NEW v \in Uploads, Receive(v) \/ Send(v) \/ SendFails(v)
        PROVE  FilesInv' /\ LeftoverHasOwner'
    <3>1. ASSUME NEW n \in Names, dir'[n] # {}
          PROVE  \E u \in Uploads : n \in up'[u].name /\ up'[u].pc # "ok"
      <4>1. CASE n \in up'[v].name
        BY <2>1, <3>1, <4>1, SuccessRemoves
      <4>2. CASE n \notin up'[v].name
        <5>1. PICK u \in Uploads : n \in up[u].name /\ up[u].pc # "ok"
          BY <2>1, <3>1, <4>2, FilesStep DEF LeftoverHasOwner
        <5>2. u # v
          BY <2>1, <4>2, <5>1, FilesStep DEF FilesInv
        <5> QED BY <2>1, <5>1, <5>2, FilesStep
      <4> QED BY <4>1, <4>2
    <3> QED BY <2>1, <3>1, FilesStep DEF LeftoverHasOwner
  <2>2. CASE UNCHANGED vars
    BY <2>2 DEF vars, FilesInv, LeftoverHasOwner
  <2> QED BY <2>1, <2>2 DEF Next
<1> QED BY <1>1, <1>2, TransferTypeCorrect, PTL DEF Spec
=============================================================================
