--------------------------- MODULE CommFsmProofs ---------------------------
(***************************************************************************)
(* The file transfer over USB keeps its promises, for any files, lengths   *)
(* and limits of the file system: it implements FileTransfer.              *)
(***************************************************************************)
EXTENDS CommFsm, TLAPS

USE CommAssumption

-----------------------------------------------------------------------------
(* Types *)

\* Contents and chunks are sequences of bytes, and <<>> is one of them.
LEMMA ContentsAreSeq ==
  /\ <<>> \in Contents
  /\ \A c \in Contents : c \in Seq(Bytes) /\ Len(c) \in 0 .. MaxLen
<1>1. <<>> \in [1 .. 0 -> Bytes] /\ 0 \in 0 .. MaxLen
  OBVIOUS
<1>2. <<>> \in Contents
  BY <1>1 DEF Contents, SeqsTo
<1>3. ASSUME NEW c \in Contents PROVE c \in Seq(Bytes) /\ Len(c) \in 0 .. MaxLen
  <2>1. PICK k \in 0 .. MaxLen : c \in [1 .. k -> Bytes]
    BY DEF Contents, SeqsTo
  <2>2. c \in Seq(Bytes) /\ Len(c) = k
    BY <2>1
  <2> QED BY <2>2
<1> QED BY <1>2, <1>3

\* What ends a transfer leaves the members in their types.
LEMMA Zeros == <<>> \in Contents /\ <<>> \in Seq(Bytes) /\ 0 \in 0 .. MaxLen
               /\ 0 \in 0 .. MaxShort /\ 0 \in 0 .. MaxOpen
<1>1. <<>> \in Contents
  BY ContentsAreSeq
<1> QED BY <1>1

LEMMA ChunksAreSeq ==
  \A data \in Chunks : data \in Seq(Bytes) /\ Len(data) \in Nat /\ data # <<>>
<1> SUFFICES ASSUME NEW data \in Chunks
             PROVE  data \in Seq(Bytes) /\ Len(data) \in Nat /\ data # <<>>
  OBVIOUS
<1>1. PICK k \in 0 .. MaxChunk : data \in [1 .. k -> Bytes]
  BY DEF Chunks, SeqsTo
<1>2. data \in Seq(Bytes) /\ Len(data) = k
  BY <1>1
<1> QED BY <1>2 DEF Chunks

LEMMA StartHolds == Init => CInv
<1> SUFFICES ASSUME Init PROVE CInv
  OBVIOUS
<1>1. TypeOK
  <2>1. disk \in [Paths -> Seq(Bytes)]
    BY DEF Init
  <2> QED BY <2>1, Zeros DEF Init, TypeOK, Reply
<1> QED BY <1>1 DEF Init, CInv, PromiseKept, ChunkHasFile, OffsetIsFileEnd, NotYetPromised

\* What the storage may hold after a write are bytes, and other files are left alone.
LEMMA ReachedBytes ==
  ASSUME TypeOK, file_name \in Paths, NEW w \in Seq(Bytes), Reached(w)
  PROVE  /\ disk' \in [Paths -> Seq(Bytes)]
         /\ \A p \in Paths \ {file_name} : disk'[p] = disk[p]
<1>1. CASE UNCHANGED disk
  BY <1>1 DEF TypeOK
<1>2. ASSUME NEW k \in 0 .. Len(w), disk' = [disk EXCEPT ![file_name] = SubSeq(w, 1, k)]
      PROVE  /\ disk' \in [Paths -> Seq(Bytes)]
             /\ \A p \in Paths \ {file_name} : disk'[p] = disk[p]
  <2>1. SubSeq(w, 1, k) \in Seq(Bytes)
    OBVIOUS
  <2> QED BY <1>2, <2>1 DEF TypeOK
<1> QED BY <1>1, <1>2 DEF Reached

-----------------------------------------------------------------------------
(* The inductive invariant *)

\* Packets that change nothing.
LEMMA AnswerHolds ==
  ASSUME CInv, NEW r \in Reply, Answer(r)
  PROVE  CInv'
BY DEF CInv, TypeOK, Answer, transferVars, storeVars, PromiseKept, ChunkHasFile,
       OffsetIsFileEnd, NotYetPromised

\* Packets outside a transfer that only take promises back.
LEMMA DeleteHolds ==
  ASSUME CInv, NEW p \in Paths, handle_delete_file(p)
  PROVE  CInv'
<1>0. TypeOK /\ PromiseKept /\ ~expect_file_chunk /\ ~expect_file_chunk'
  BY DEF CInv, handle_delete_file, Free, transferVars
<1>1. CASE reply' = "ERROR" /\ UNCHANGED storeVars
  <2>1. TypeOK'
    BY <1>0, <1>1 DEF handle_delete_file, TypeOK, transferVars, storeVars, Reply
  <2>2. PromiseKept'
    BY <1>0, <1>1 DEF PromiseKept, storeVars
  <2> QED BY <1>0, <2>1, <2>2 DEF CInv, ChunkHasFile, OffsetIsFileEnd, NotYetPromised
<1>2. CASE /\ p \in files /\ reply' = "OK"
           /\ files' = files \ {p} /\ promised' = Besides(p)
           /\ disk' = [disk EXCEPT ![p] = <<>>]
  <2>1. TypeOK'
    BY <1>0, <1>2 DEF handle_delete_file, TypeOK, transferVars, Reply, Besides
  <2>2. ASSUME NEW f \in promised' PROVE f[1] \in files' /\ disk'[f[1]] = f[2]
    <3>1. f \in promised /\ f[1] # p
      BY <1>2 DEF Besides
    <3>2. f[1] \in files /\ disk[f[1]] = f[2] /\ f[1] \in Paths
      BY <1>0, <3>1 DEF PromiseKept, TypeOK
    <3> QED BY <1>0, <1>2, <3>1, <3>2 DEF TypeOK
  <2>3. PromiseKept'
    BY <2>2 DEF PromiseKept
  <2> QED BY <1>0, <2>1, <2>3 DEF CInv, ChunkHasFile, OffsetIsFileEnd, NotYetPromised
<1> QED BY <1>1, <1>2 DEF handle_delete_file

LEMMA InfoHolds ==
  ASSUME CInv, NEW p \in Paths, handle_get_file_info(p)
  PROVE  CInv'
<1>0. TypeOK /\ PromiseKept /\ ~expect_file_chunk /\ ~expect_file_chunk'
  BY DEF CInv, handle_get_file_info, Free, transferVars
<1>1. opened' \in 0 .. MaxOpen /\ reply' \in Reply
  BY <1>0 DEF handle_get_file_info, TypeOK, Reply
<1>2. TypeOK'
  BY <1>0, <1>1 DEF handle_get_file_info, TypeOK, transferVars, storeVars
<1>3. PromiseKept'
  BY <1>0 DEF handle_get_file_info, PromiseKept, storeVars
<1> QED BY <1>0, <1>2, <1>3 DEF CInv, ChunkHasFile, OffsetIsFileEnd, NotYetPromised

LEMMA FormatHolds ==
  ASSUME CInv, handle_format_partition
  PROVE  CInv'
<1>0. TypeOK /\ ~expect_file_chunk /\ ~expect_file_chunk' /\ promised' = {}
  BY DEF CInv, handle_format_partition, Free, transferVars
<1>1. files' \subseteq Paths /\ disk' \in [Paths -> Seq(Bytes)] /\ reply' \in Reply
  <2>1. [p \in Paths |-> <<>>] \in [Paths -> Seq(Bytes)]
    OBVIOUS
  <2> QED BY <1>0, <2>1 DEF handle_format_partition, TypeOK, Reply
<1>2. TypeOK'
  BY <1>0, <1>1 DEF handle_format_partition, TypeOK, transferVars
<1> QED BY <1>0, <1>2 DEF CInv, PromiseKept, ChunkHasFile, OffsetIsFileEnd, NotYetPromised

LEMMA StoreFailsHolds ==
  ASSUME CInv, StoreFails
  PROVE  CInv'
<1>0. TypeOK /\ PromiseKept /\ ~expect_file_chunk /\ ~expect_file_chunk'
  BY DEF CInv, StoreFails, Free
<1>1. TypeOK'
  BY <1>0 DEF StoreFails, TypeOK, storeVars, Reply
<1>2. PromiseKept'
  BY <1>0 DEF StoreFails, PromiseKept, storeVars
<1> QED BY <1>0, <1>1, <1>2 DEF CInv, ChunkHasFile, OffsetIsFileEnd, NotYetPromised

\* An announcement takes back what was promised of its path, and of nothing else.
LEMMA StoreOpensHolds ==
  ASSUME CInv, NEW p \in Paths, NEW c \in Contents, StoreOpens(p, c)
  PROVE  CInv'
<1>0. TypeOK /\ PromiseKept /\ c \in Seq(Bytes) /\ Len(c) \in 0 .. MaxLen
  BY ContentsAreSeq DEF CInv
<1>1. /\ disk' \in [Paths -> Seq(Bytes)]
      /\ \A q \in Paths \ {p} : disk'[q] = disk[q]
  <2>1. disk \in [Paths -> Seq(Bytes)] /\ <<>> \in Seq(Bytes)
    BY <1>0 DEF TypeOK
  <2>2. disk' = [disk EXCEPT ![p] = <<>>] \/ disk' = disk
    BY DEF StoreOpens
  <2> QED BY <2>1, <2>2
<1>2. opened' \in 0 .. MaxOpen /\ opened' > 0
  BY <1>0 DEF StoreOpens, TypeOK
<1>3. TypeOK'
  BY <1>0, <1>1, <1>2 DEF StoreOpens, TypeOK, Reply, Besides
<1>4. ASSUME NEW f \in promised'
      PROVE  f[1] \in files' /\ disk'[f[1]] = f[2] /\ f[1] # file_name'
  <2>1. f \in promised /\ f[1] # p
    BY DEF StoreOpens, Besides
  <2>2. f[1] \in files /\ disk[f[1]] = f[2] /\ f[1] \in Paths
    BY <1>0, <2>1 DEF PromiseKept, TypeOK
  <2> QED BY <1>1, <2>1, <2>2 DEF StoreOpens
<1>5. PromiseKept' /\ NotYetPromised'
  BY <1>4 DEF PromiseKept, NotYetPromised
<1>6. ChunkHasFile'
  BY <1>2 DEF StoreOpens, ChunkHasFile
<1>7. OffsetIsFileEnd'
  BY <1>0 DEF StoreOpens, OffsetIsFileEnd
<1> QED BY <1>3, <1>5, <1>6, <1>7 DEF CInv

\* A step of a transfer writes to the file being received, which is not promised.
LEMMA OthersKept ==
  ASSUME CInv, expect_file_chunk, files' = files, promised' = promised,
         \A p \in Paths \ {file_name} : disk'[p] = disk[p]
  PROVE  PromiseKept'
<1> SUFFICES ASSUME NEW f \in promised
             PROVE  f[1] \in files /\ disk'[f[1]] = f[2]
  BY DEF PromiseKept
<1>1. f[1] \in files /\ disk[f[1]] = f[2] /\ f[1] \in Paths /\ f[1] # file_name
  BY DEF CInv, PromiseKept, TypeOK, NotYetPromised
<1> QED BY <1>1

LEMMA AbortHolds ==
  ASSUME CInv, ChunkAborts
  PROVE  CInv'
<1>0. TypeOK /\ PromiseKept /\ ~expect_file_chunk'
  BY DEF CInv, ChunkAborts, EndTransfer
<1>1. TypeOK'
  BY <1>0, Zeros DEF ChunkAborts, EndTransfer, TypeOK, storeVars, Reply
<1>2. PromiseKept'
  BY <1>0 DEF ChunkAborts, PromiseKept, storeVars
<1> QED BY <1>0, <1>1, <1>2 DEF CInv, ChunkHasFile, OffsetIsFileEnd, NotYetPromised

LEMMA TooLongHolds ==
  ASSUME CInv, NEW data \in Chunks, ChunkTooLong(data)
  PROVE  CInv'
<1>0. /\ TypeOK /\ expect_file_chunk /\ ~expect_file_chunk'
      /\ file_name \in Paths /\ opened > 0
  BY DEF CInv, TypeOK, ChunkHasFile, ChunkTooLong, EndTransfer
<1>1. /\ disk' \in [Paths -> Seq(Bytes)]
      /\ \A p \in Paths \ {file_name} : disk'[p] = disk[p]
  BY <1>0 DEF ChunkTooLong, TypeOK
<1>2. opened' \in 0 .. MaxOpen
  BY <1>0 DEF ChunkTooLong, TypeOK
<1>3. TypeOK'
  BY <1>0, <1>1, <1>2, Zeros DEF ChunkTooLong, EndTransfer, TypeOK, Reply
<1>4. PromiseKept'
  BY <1>0, <1>1, OthersKept DEF ChunkTooLong
<1> QED BY <1>0, <1>3, <1>4 DEF CInv, ChunkHasFile, OffsetIsFileEnd, NotYetPromised

LEMMA NotWrittenHolds ==
  ASSUME CInv, NEW data \in Chunks, ChunkNotWritten(data)
  PROVE  CInv'
<1>0. /\ TypeOK /\ ChunkHasFile /\ OffsetIsFileEnd /\ NotYetPromised
      /\ expect_file_chunk /\ expect_file_chunk'
      /\ file_name \in Paths /\ data \in Seq(Bytes) /\ Len(data) \in Nat
  BY ChunksAreSeq DEF CInv, TypeOK, ChunkHasFile, ChunkNotWritten
<1>1. written' \in Seq(Bytes)
  <2>1. PICK k \in 0 .. Len(data) - 1 : written' = written \o SubSeq(data, 1, k)
    BY DEF ChunkNotWritten
  <2>2. SubSeq(data, 1, k) \in Seq(Bytes)
    BY <1>0
  <2> QED BY <1>0, <2>1, <2>2 DEF TypeOK
<1>2. Reached(written')
  BY DEF ChunkNotWritten
<1>3. /\ disk' \in [Paths -> Seq(Bytes)]
      /\ \A p \in Paths \ {file_name} : disk'[p] = disk[p]
  <2> DEFINE w == written'
  <2>1. w \in Seq(Bytes) /\ Reached(w)
    BY <1>1, <1>2
  <2> HIDE DEF w
  <2> QED BY <1>0, <2>1, ReachedBytes
<1>4. short' \in 0 .. MaxShort /\ short' # 0
  BY <1>0 DEF ChunkNotWritten, TypeOK
<1>5. TypeOK'
  BY <1>0, <1>1, <1>3, <1>4 DEF ChunkNotWritten, TypeOK, Reply
<1>6. PromiseKept'
  BY <1>0, <1>3, OthersKept DEF ChunkNotWritten
<1>7. ChunkHasFile' /\ NotYetPromised'
  BY <1>0 DEF ChunkNotWritten, ChunkHasFile, NotYetPromised
<1>8. OffsetIsFileEnd'
  BY <1>0, <1>4 DEF ChunkNotWritten, OffsetIsFileEnd
<1> QED BY <1>5, <1>6, <1>7, <1>8 DEF CInv

\* What a chunk that was written whole does, whatever is answered to it.
LEMMA WriteHolds ==
  ASSUME CInv, NEW data \in Chunks, expect_file_chunk, Fits(data), Write(data)
  PROVE  /\ written \o data \in Seq(Bytes)
         /\ Len(written \o data) = Len(written) + Len(data)
         /\ file_name \in Paths /\ file_name \in files
         /\ file_curr_offset + Len(data) \in 0 .. file_expect_len
         /\ file_expect_len \in 0 .. MaxLen
         /\ disk' \in [Paths -> Seq(Bytes)]
         /\ \A p \in Paths \ {file_name} : disk'[p] = disk[p]
<1>0. /\ TypeOK /\ file_name \in Paths /\ file_name \in files
      /\ data \in Seq(Bytes) /\ Len(data) \in Nat
  BY ChunksAreSeq DEF CInv, TypeOK, ChunkHasFile
<1>1. written \o data \in Seq(Bytes) /\ Len(written \o data) = Len(written) + Len(data)
  BY <1>0 DEF TypeOK
<1>2. file_curr_offset + Len(data) \in 0 .. file_expect_len /\ file_expect_len \in 0 .. MaxLen
  BY <1>0 DEF TypeOK, Fits
<1>3. Reached(written \o data)
  BY DEF Write
<1>4. /\ disk' \in [Paths -> Seq(Bytes)]
      /\ \A p \in Paths \ {file_name} : disk'[p] = disk[p]
  <2> DEFINE w == written \o data
  <2>1. w \in Seq(Bytes) /\ Reached(w)
    BY <1>1, <1>3
  <2> HIDE DEF w
  <2> QED BY <1>0, <2>1, ReachedBytes
<1> QED BY <1>0, <1>1, <1>2, <1>4

\* A chunk after which the transfer goes on.
LEMMA GoesOnHolds ==
  ASSUME CInv, NEW data \in Chunks, expect_file_chunk, Fits(data), Write(data), Advance(data),
         written' = written \o data, reply' \in Reply, opened' \in opened .. MaxOpen,
         UNCHANGED <<short, expect_file_chunk, file_expect_len, file_crc, file_name,
                     file_handle, files, promised>>
  PROVE  CInv'
<1>0. /\ TypeOK /\ ChunkHasFile /\ OffsetIsFileEnd /\ NotYetPromised
  BY DEF CInv
<1>1. /\ written' \in Seq(Bytes) /\ Len(written') = Len(written) + Len(data)
      /\ file_curr_offset' \in 0 .. file_expect_len
      /\ file_expect_len \in 0 .. MaxLen
      /\ disk' \in [Paths -> Seq(Bytes)]
      /\ \A p \in Paths \ {file_name} : disk'[p] = disk[p]
  BY WriteHolds DEF Advance
<1>2. file_curr_offset' \in 0 .. MaxLen /\ opened' \in 0 .. MaxOpen
  BY <1>0, <1>1 DEF TypeOK
<1>3. TypeOK'
  BY <1>0, <1>1, <1>2 DEF TypeOK
<1>4. PromiseKept'
  BY <1>1, OthersKept
<1>5. ChunkHasFile' /\ NotYetPromised'
  BY <1>0, <1>2 DEF ChunkHasFile, NotYetPromised, TypeOK
<1>6. OffsetIsFileEnd'
  BY <1>0, <1>1 DEF OffsetIsFileEnd, Advance
<1> QED BY <1>3, <1>4, <1>5, <1>6 DEF CInv

LEMMA WrittenHolds ==
  ASSUME CInv, NEW data \in Chunks, ChunkWritten(data)
  PROVE  CInv'
<1>1. opened' \in opened .. MaxOpen /\ reply' \in Reply
  BY DEF ChunkWritten, CInv, TypeOK, Reply
<1> QED BY <1>1, GoesOnHolds DEF ChunkWritten

LEMMA RefusedHolds ==
  ASSUME CInv, NEW data \in Chunks, FileRefused(data)
  PROVE  CInv'
<1>1. opened' \in opened .. MaxOpen /\ reply' \in Reply
  BY DEF FileRefused, CrcFails, CInv, TypeOK, Reply
<1> QED BY <1>1, GoesOnHolds DEF FileRefused

LEMMA DoneHolds ==
  ASSUME CInv, NEW data \in Chunks, FileDone(data)
  PROVE  CInv'
<1>0. TypeOK /\ expect_file_chunk /\ ~expect_file_chunk'
  BY DEF CInv, FileDone, EndTransfer
<1>1. /\ disk' \in [Paths -> Seq(Bytes)]
      /\ \A p \in Paths \ {file_name} : disk'[p] = disk[p]
      /\ file_name \in Paths /\ file_name \in files
  BY WriteHolds DEF FileDone
<1>2. opened' \in 0 .. MaxOpen /\ disk'[file_name] = file_crc
  BY <1>0 DEF FileDone, CrcMatches, TypeOK
<1>3. TypeOK'
  <2>1. promised' \subseteq Paths \X Contents
    BY <1>0, <1>1 DEF FileDone, TypeOK
  <2>2. /\ file_expect_len' = 0 /\ file_curr_offset' = 0 /\ file_crc' = <<>>
        /\ written' = <<>> /\ short' = 0 /\ file_name' = "none" /\ reply' = "DONE"
        /\ file_handle' = file_handle /\ files' = files /\ expect_file_chunk' = FALSE
    BY DEF FileDone, EndTransfer
  <2>3. disk' \in [Paths -> Seq(Bytes)] /\ opened' \in 0 .. MaxOpen
    BY <1>1, <1>2
  <2> QED BY <1>0, <2>1, <2>2, <2>3, Zeros DEF TypeOK, Reply
<1>4. ASSUME NEW f \in promised' PROVE f[1] \in files' /\ disk'[f[1]] = f[2]
  <2>1. CASE f = <<file_name, file_crc>>
    BY <1>1, <1>2, <2>1 DEF FileDone
  <2>2. CASE f \in promised
    <3>1. f[1] \in files /\ disk[f[1]] = f[2] /\ f[1] \in Paths /\ f[1] # file_name
      BY <1>0, <2>2 DEF CInv, PromiseKept, TypeOK, NotYetPromised
    <3> QED BY <1>1, <3>1 DEF FileDone
  <2> QED BY <2>1, <2>2 DEF FileDone
<1>5. PromiseKept'
  BY <1>4 DEF PromiseKept
<1> QED BY <1>0, <1>3, <1>5 DEF CInv, ChunkHasFile, OffsetIsFileEnd, NotYetPromised

LEMMA RestartHolds ==
  ASSUME CInv, Restart
  PROVE  CInv'
<1>0. TypeOK /\ PromiseKept /\ ~expect_file_chunk'
  BY DEF CInv, Restart, EndTransfer
<1>1. TypeOK'
  BY <1>0, Zeros DEF Restart, EndTransfer, TypeOK, storeVars, Reply
<1>2. PromiseKept'
  BY <1>0 DEF Restart, PromiseKept, storeVars
<1> QED BY <1>0, <1>1, <1>2 DEF CInv, ChunkHasFile, OffsetIsFileEnd, NotYetPromised

LEMMA StutterHolds == CInv /\ UNCHANGED vars => CInv'
BY DEF vars, transferVars, storeVars, CInv, TypeOK, PromiseKept, ChunkHasFile,
       OffsetIsFileEnd, NotYetPromised

LEMMA StepHolds == CInv /\ [Next]_vars => CInv'
<1> SUFFICES ASSUME CInv, [Next]_vars PROVE CInv'
  OBVIOUS
<1>1. CASE nack \/ ping \/ device_info \/ handle_fetch_file_req
  <2>1. \E r \in Reply : Answer(r)
    BY <1>1 DEF nack, ping, device_info, handle_fetch_file_req, Reply
  <2> QED BY <2>1, AnswerHolds
<1>2. CASE handle_store_file_req
  BY <1>2, StoreFailsHolds, StoreOpensHolds DEF handle_store_file_req
<1>3. CASE handle_file_chunk
  BY <1>3, AbortHolds, TooLongHolds, NotWrittenHolds, WrittenHolds, RefusedHolds, DoneHolds
     DEF handle_file_chunk, TakeChunk
<1>4. CASE handle_format_partition
  BY <1>4, FormatHolds
<1>5. CASE \E p \in Paths : handle_delete_file(p) \/ handle_get_file_info(p)
  BY <1>5, DeleteHolds, InfoHolds
<1>6. CASE Restart
  BY <1>6, RestartHolds
<1>7. CASE UNCHANGED vars
  BY <1>7, StutterHolds
<1> QED BY <1>1, <1>2, <1>3, <1>4, <1>5, <1>6, <1>7 DEF Next, parse_pkt

LEMMA CommInvariant == Spec => []CInv
BY StartHolds, StepHolds, PTL DEF Spec

-----------------------------------------------------------------------------
(* The theorems *)

\* The members keep their types, no counter of open files goes below 0.
THEOREM CommTypeCorrect == Spec => []TypeOK
<1>1. CInv => TypeOK
  BY DEF CInv
<1> QED BY <1>1, CommInvariant, PTL

\* What the host was told is stored stays stored.
THEOREM PromisesAreKept == Spec => []PromiseKept
<1>1. CInv => PromiseKept
  BY DEF CInv
<1> QED BY <1>1, CommInvariant, PTL

\* No chunk is written to a file that is not open.
THEOREM ChunksHaveAFile == Spec => []ChunkHasFile
<1>1. CInv => ChunkHasFile
  BY DEF CInv
<1> QED BY <1>1, CommInvariant, PTL

\* The offset told to the host is where the next chunk goes.
THEOREM OffsetsAreTrue == Spec => []OffsetIsFileEnd
<1>1. CInv => OffsetIsFileEnd
  BY DEF CInv
<1> QED BY <1>1, CommInvariant, PTL

\* A file being received has the device to itself.
THEOREM TransfersAreAlone == Spec => TransferIsAlone
<1>1. ASSUME CInv, [Next]_vars, expect_file_chunk
      PROVE  /\ files' = files /\ promised \subseteq promised'
             /\ \A p \in Paths \ {file_name} : disk'[p] = disk[p]
  <2>0. TypeOK /\ file_name \in Paths
    BY <1>1 DEF CInv, TypeOK, ChunkHasFile
  <2>1. CASE handle_file_chunk
    <3>1. CASE ChunkAborts
      BY <3>1 DEF ChunkAborts, storeVars
    <3>2. ASSUME NEW data \in Chunks, ChunkTooLong(data)
          PROVE  /\ files' = files /\ promised \subseteq promised'
                 /\ \A p \in Paths \ {file_name} : disk'[p] = disk[p]
      BY <2>0, <3>2 DEF ChunkTooLong, TypeOK
    <3>3. ASSUME NEW data \in Chunks, ChunkNotWritten(data)
          PROVE  /\ files' = files /\ promised \subseteq promised'
                 /\ \A p \in Paths \ {file_name} : disk'[p] = disk[p]
      BY <2>0, <3>3 DEF ChunkNotWritten, Reached, TypeOK
    <3>4. ASSUME NEW data \in Chunks,
                 ChunkWritten(data) \/ FileDone(data) \/ FileRefused(data)
          PROVE  /\ files' = files /\ promised \subseteq promised'
                 /\ \A p \in Paths \ {file_name} : disk'[p] = disk[p]
      <4>1. Fits(data) /\ Write(data)
        BY <3>4 DEF ChunkWritten, FileDone, FileRefused
      <4>2. \A p \in Paths \ {file_name} : disk'[p] = disk[p]
        BY <1>1, <4>1, WriteHolds
      <4>3. files' = files /\ promised \subseteq promised'
        BY <3>4 DEF ChunkWritten, FileDone, FileRefused
      <4> QED BY <4>2, <4>3
    <3> QED BY <2>1, <3>1, <3>2, <3>3, <3>4 DEF handle_file_chunk, TakeChunk
  <2>2. CASE UNCHANGED storeVars
    BY <2>2 DEF storeVars
  <2>3. CASE handle_store_file_req \/ handle_format_partition
             \/ \E p \in Paths : handle_delete_file(p) \/ handle_get_file_info(p)
    BY <1>1, <2>3 DEF handle_store_file_req, StoreFails, StoreOpens, handle_format_partition,
                      handle_delete_file, handle_get_file_info, Free
  <2>4. nack \/ ping \/ device_info \/ handle_fetch_file_req \/ Restart \/ UNCHANGED vars
        => UNCHANGED storeVars
    BY DEF nack, ping, device_info, handle_fetch_file_req, Answer, Restart, vars
  <2> QED BY <1>1, <2>1, <2>2, <2>3, <2>4 DEF Next, parse_pkt
<1>2. CInv /\ [Next]_vars =>
        [expect_file_chunk => /\ files' = files /\ promised \subseteq promised'
                              /\ \A p \in Paths \ {file_name} : disk'[p] = disk[p]]_vars
  BY <1>1
<1> QED BY <1>2, CommInvariant, PTL DEF Spec, TransferIsAlone

-----------------------------------------------------------------------------
(* Refinement *)

\* What the host sees of the transfer.
Incoming == IF expect_file_chunk THEN <<file_name, file_crc>> ELSE <<>>

\* Every step is one of the abstract transfer, or none.
LEMMA StepIsTransfer == CInv /\ [Next]_vars => [T!Next]_(T!vars)
<1> SUFFICES ASSUME CInv, [Next]_vars PROVE T!Next \/ UNCHANGED T!vars
  OBVIOUS
<1> USE DEF T!vars
<1>0. Incoming # <<>> <=> expect_file_chunk
  BY DEF Incoming
<1>1. CASE UNCHANGED <<promised, expect_file_chunk, file_name, file_crc>>
  BY <1>1
<1>2. CASE ~expect_file_chunk /\ ~expect_file_chunk' /\ UNCHANGED promised
  BY <1>2
<1>3. ASSUME NEW p \in Paths, handle_delete_file(p)
      PROVE  T!Next \/ UNCHANGED T!vars
  <2>1. CASE UNCHANGED storeVars
    BY <1>1, <1>3, <2>1 DEF handle_delete_file, transferVars, storeVars
  <2>2. CASE promised' = Besides(p)
    <3>1. T!Delete(p)
      BY <1>3, <2>2 DEF handle_delete_file, Free, transferVars, Besides, T!Delete, T!Besides
    <3> QED BY <3>1 DEF T!Next
  <2> QED BY <1>3, <2>1, <2>2 DEF handle_delete_file
<1>4. CASE handle_format_partition
  <2>1. T!Format
    BY <1>4 DEF handle_format_partition, Free, transferVars, T!Format
  <2> QED BY <2>1 DEF T!Next
<1>5. ASSUME NEW p \in Paths, NEW c \in Contents, StoreOpens(p, c)
      PROVE  T!Next
  <2>1. T!Announce(p, c)
    BY <1>5 DEF StoreOpens, Free, Besides, T!Announce, T!Besides
  <2> QED BY <2>1 DEF T!Next
<1>6. ASSUME expect_file_chunk, ~expect_file_chunk', promised' = promised
      PROVE  T!Next
  <2>1. T!Drop
    BY <1>0, <1>6 DEF T!Drop, Incoming
  <2> QED BY <2>1 DEF T!Next
<1>7. ASSUME NEW data \in Chunks, FileDone(data)
      PROVE  T!Next
  <2>1. T!Commit
    BY <1>0, <1>7 DEF FileDone, EndTransfer, T!Commit, Incoming
  <2> QED BY <2>1 DEF T!Next
<1>8. CASE handle_file_chunk
  <2>1. CASE ChunkAborts \/ \E data \in Chunks : ChunkTooLong(data)
    BY <1>6, <2>1 DEF ChunkAborts, ChunkTooLong, EndTransfer, storeVars
  <2>2. CASE \E data \in Chunks :
               ChunkNotWritten(data) \/ ChunkWritten(data) \/ FileRefused(data)
    BY <1>1, <2>2 DEF ChunkNotWritten, ChunkWritten, FileRefused
  <2> QED BY <1>7, <1>8, <2>1, <2>2 DEF handle_file_chunk, TakeChunk
<1>9. CASE Restart
  BY <1>2, <1>6, <1>9 DEF Restart, EndTransfer, storeVars, CInv, TypeOK
<1>10. CASE StoreFails
  BY <1>2, <1>10 DEF StoreFails, Free, storeVars
<1>11. CASE nack \/ ping \/ device_info \/ handle_fetch_file_req
            \/ (\E p \in Paths : handle_get_file_info(p)) \/ UNCHANGED vars
  BY <1>1, <1>11 DEF nack, ping, device_info, handle_fetch_file_req, handle_get_file_info,
                     Answer, transferVars, storeVars, vars
<1> QED BY <1>3, <1>4, <1>5, <1>8, <1>9, <1>10, <1>11
        DEF Next, parse_pkt, handle_store_file_req

\* The packets and their handlers implement the transfer a host relies on.
THEOREM CommImplementsTransfer == Spec => TransferImplemented
<1>1. Init => T!Init
  BY DEF Init, T!Init
<1> QED BY <1>1, CommInvariant, StepIsTransfer, PTL DEF Spec, T!Spec, TransferImplemented
=============================================================================
