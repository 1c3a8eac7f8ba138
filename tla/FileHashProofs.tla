--------------------------- MODULE FileHashProofs ---------------------------
(***************************************************************************)
(* The check of a file's hash judges a file by its whole blocks, or by all *)
(* of it if it is shorter than one, for any length of a block.             *)
(***************************************************************************)
EXTENDS FileHash, TLAPS

USE HashAssumption

\* A file is a sequence of bytes.
LEMMA BytesAreSeq == Bytes \subseteq Seq(Byte)
BY DEF Bytes

\* A read of a record that is there stays in the file.
LEMMA RecordFits ==
  ASSUME TypeOK
  PROVE  read_len \in Nat /\ read_len <= Block /\ read_len <= Len(content)
         /\ Len(content) \in Nat
<1>1. Len(content) \in Nat
  BY BytesAreSeq DEF TypeOK
<1> QED BY <1>1 DEF read_len

\* The part of a sequence read so far grows by what is read next.
LEMMA PrefixGrows ==
  ASSUME NEW S, NEW s \in Seq(S), NEW m \in 0 .. Len(s), NEW n \in m .. Len(s)
  PROVE  SubSeq(s, 1, m) \o SubSeq(s, m + 1, n) = SubSeq(s, 1, n)
<1> DEFINE a == SubSeq(s, 1, m)  b == SubSeq(s, m + 1, n)  c == SubSeq(s, 1, n)
<1>1. a \in Seq(S) /\ Len(a) = m /\ \A i \in 1 .. m : a[i] = s[i]
  OBVIOUS
<1>2. b \in Seq(S) /\ Len(b) = n - m /\ \A i \in 1 .. n - m : b[i] = s[m + i]
  OBVIOUS
<1>3. c \in Seq(S) /\ Len(c) = n /\ \A i \in 1 .. n : c[i] = s[i]
  OBVIOUS
<1>4. a \o b \in Seq(S) /\ Len(a \o b) = n
  BY <1>1, <1>2
<1>5. ASSUME NEW i \in 1 .. n PROVE (a \o b)[i] = c[i]
  BY <1>1, <1>2, <1>3
<1> QED BY <1>3, <1>4, <1>5

LEMMA EmptyIsBytes == <<>> \in Bytes
<1>1. <<>> \in Seq(Byte) /\ Len(<<>>) = 0
  OBVIOUS
<1>2. <<>> \in [1 .. 0 -> Byte]
  BY <1>1
<1>3. 0 \in 0 .. MaxLen
  OBVIOUS
<1> QED BY <1>2, <1>3 DEF Bytes

LEMMA TypeStart == Init => TypeOK
<1> SUFFICES ASSUME Init PROVE TypeOK
  OBVIOUS
<1>1. content \in Seq(Byte)
  BY BytesAreSeq DEF Init
<1>2. fpos \in 0 .. Len(content)
  BY <1>1 DEF Init
<1>3. expected \in Bytes
  BY EmptyIsBytes DEF Init
<1>4. ctx \in Seq(Byte)
  BY DEF Init
<1> QED BY <1>2, <1>3, <1>4 DEF Init, TypeOK

\* No step leaves the types: a record is read only where it is there.
LEMMA TypeStep == TypeOK /\ HashedInv /\ [Next]_vars => TypeOK'
<1> SUFFICES ASSUME TypeOK, HashedInv, [Next]_vars PROVE TypeOK'
  OBVIOUS
<1> USE DEF TypeOK
<1>0. Len(content) \in Nat /\ content \in Seq(Byte)
  BY BytesAreSeq
<1>1. CASE Replace
  <2>1. fpos' = 0
    BY <1>1 DEF Replace, HashedInv
  <2>2. Len(content') \in Nat
    BY <1>1, BytesAreSeq DEF Replace
  <2>3. fpos' \in 0 .. Len(content')
    BY <2>1, <2>2
  <2> QED BY <1>1, <2>3 DEF Replace
<1>2. CASE check_bin_hash
  BY <1>2 DEF check_bin_hash
<1>3. ASSUME NEW y, Answer(y), faulty' \in BOOLEAN PROVE TypeOK'
  <2>1. ctx' \in Seq(Byte) /\ fpos' \in 0 .. Len(content')
    BY <1>3, <1>0 DEF Answer
  <2> QED BY <1>3, <2>1 DEF Answer
<1>4. CASE OpenFails \/ DigestFails \/ Compare
  BY <1>3, <1>4 DEF OpenFails, DigestFails, Compare
<1>5. CASE Open
  BY <1>5 DEF Open
<1>6. CASE ReadBlock
  <2>1. fpos' \in 0 .. Len(content) /\ fpos + read_len \in Nat
    BY <1>6, <1>0, RecordFits DEF ReadBlock, Readable
  <2>2. SubSeq(content, fpos + 1, fpos + read_len) \in Seq(Byte)
    BY <1>0, <2>1, <1>6 DEF ReadBlock
  <2>3. ctx' \in Seq(Byte)
    BY <1>6, <2>2 DEF ReadBlock
  <2> QED BY <1>6, <2>1, <2>3 DEF ReadBlock
<1>7. CASE ReadFails
  <2>1. fpos' \in 0 .. Len(content)
    BY <1>7, <1>0 DEF ReadFails
  <2> QED BY <1>7, <2>1 DEF ReadFails
<1>8. CASE StorageFails
  BY <1>8 DEF StorageFails
<1>9. CASE UNCHANGED vars
  BY <1>9 DEF vars
<1> QED BY <1>1, <1>2, <1>4, <1>5, <1>6, <1>7, <1>8, <1>9 DEF Next, Work

-----------------------------------------------------------------------------
(* What has been hashed *)

LEMMA HashedStart == Init => HashedInv /\ DoneInv /\ FilesAreJudged
<1> SUFFICES ASSUME Init PROVE HashedInv /\ DoneInv /\ FilesAreJudged
  OBVIOUS
<1>1. Len(content) \in Nat
  BY BytesAreSeq DEF Init
<1>2. 0 \in 0 .. Len(content) /\ 0 = 0 * Block
  BY <1>1
<1> QED BY <1>1, <1>2 DEF Init, HashedInv, DoneInv, FilesAreJudged, Judged

\* Reading starts at 0, and goes on by whole records.
LEMMA HashedStep == TypeOK /\ TypeOK' /\ HashedInv /\ [Next]_vars => HashedInv'
<1> SUFFICES ASSUME TypeOK, TypeOK', HashedInv, [Next]_vars PROVE HashedInv'
  OBVIOUS
<1>0. /\ Len(content) \in Nat /\ content \in Seq(Byte) /\ fpos \in 0 .. Len(content)
      /\ Len(content') \in Nat /\ content' \in Seq(Byte)
  BY BytesAreSeq DEF TypeOK
<1>1. ASSUME at' \in {"idle", "open"}, fpos' = 0, ctx' = <<>> PROVE HashedInv'
  <2>1. 0 \in 0 .. Len(content') /\ 0 = 0 * Block
    BY <1>0
  <2> QED BY <1>1, <2>1 DEF HashedInv
<1>2. CASE Replace \/ check_bin_hash \/ OpenFails \/ DigestFails \/ Compare
  BY <1>1, <1>2 DEF Replace, check_bin_hash, OpenFails, DigestFails, Compare, Answer, HashedInv
<1>3. CASE Open
  <2>1. at' = "read" /\ fpos' = 0 /\ ctx' = <<>> /\ content' = content
    BY <1>3 DEF Open, HashedInv
  <2>2. 0 \in 0 .. Len(content') /\ 0 = 0 * Block /\ SubSeq(content', 1, 0) = <<>>
    BY <1>0
  <2> QED BY <2>1, <2>2 DEF HashedInv
<1>4. CASE ReadBlock
  <2>1. /\ at = "read" /\ at' = "read" /\ content' = content /\ fpos' = fpos + read_len
        /\ fpos + read_len <= Len(content) /\ Len(content) > 0
        /\ ctx' = ctx \o SubSeq(content, fpos + 1, fpos + read_len)
    BY <1>4, <1>0 DEF ReadBlock, Readable
  <2>2. read_len \in Nat
    BY RecordFits
  <2>3. ctx' = SubSeq(content', 1, fpos')
    <3>1. ctx = SubSeq(content, 1, fpos)
      BY <2>1 DEF HashedInv
    <3>2. fpos + read_len \in fpos .. Len(content)
      BY <1>0, <2>1, <2>2
    <3> QED BY <1>0, <2>1, <3>1, <3>2, PrefixGrows
  <2>4. CASE Len(content) < Block
    <3>1. read_len = Len(content) /\ fpos' = Len(content)
      BY <1>0, <2>1, <2>4 DEF read_len
    <3> QED BY <2>1, <2>3, <2>4, <3>1 DEF HashedInv
  <2>5. CASE ~(Len(content) < Block)
    <3>1. read_len = Block
      BY <2>5 DEF read_len
    <3>2. \E k \in 0 .. Len(content) : fpos' = k * Block
      <4>1. PICK k \in 0 .. Len(content) : fpos = k * Block
        BY <2>1, <2>5 DEF HashedInv
      <4>2. fpos' = (k + 1) * Block
        BY <1>0, <2>1, <3>1, <4>1
      <4>3. k + 1 <= fpos'
        BY <1>0, <4>2
      <4>4. k + 1 \in 0 .. Len(content)
        BY <1>0, <2>1, <3>1, <4>1, <4>3
      <4> QED BY <4>2, <4>4
    <3> QED BY <2>1, <2>3, <2>5, <3>2 DEF HashedInv
  <2> QED BY <2>4, <2>5
<1>5. CASE ReadFails \/ StorageFails
  BY <1>5 DEF ReadFails, StorageFails, HashedInv
<1>6. CASE UNCHANGED vars
  BY <1>6 DEF vars, HashedInv
<1> QED BY <1>2, <1>3, <1>4, <1>5, <1>6 DEF Next, Work

\* How many blocks a file has.
LEMMA Blocks ==
  ASSUME NEW n \in Nat
  PROVE  /\ n \div Block \in Nat
         /\ Block * (n \div Block) <= n /\ n < Block * (n \div Block) + Block
OBVIOUS

LEMMA BlocksAre ==
  ASSUME NEW n \in Nat, NEW k \in Nat, k * Block <= n, n < k * Block + Block
  PROVE  Block * (n \div Block) = k * Block
<1>1. n < (k + 1) * Block
  OBVIOUS
<1>2. n \div Block = k
  BY <1>1
<1> QED BY <1>2

\* Where no further record can be read, whole blocks have been, or a short file.
LEMMA NothingLeft ==
  ASSUME TypeOK, HashedInv, at = "read", content # <<>> => ~Readable
  PROVE  ctx = Taken(content)
<1>0. Len(content) \in Nat /\ content \in Seq(Byte) /\ fpos \in 0 .. Len(content)
  BY BytesAreSeq DEF TypeOK
<1>1. ctx = SubSeq(content, 1, fpos)
  BY DEF HashedInv
<1>2. CASE Len(content) < Block
  <2>1. fpos = Len(content)
    <3>1. CASE content = <<>>
      BY <1>0, <3>1
    <3>2. CASE content # <<>>
      <4>1. read_len = Len(content) /\ fpos + read_len > Len(content)
        BY <1>0, <1>2, <3>2 DEF read_len, Readable
      <4> QED BY <1>0, <1>2, <4>1 DEF HashedInv
    <3> QED BY <3>1, <3>2
  <2> QED BY <1>0, <1>1, <1>2, <2>1 DEF Taken
<1>3. CASE ~(Len(content) < Block)
  <2>1. content # <<>>
    BY <1>0, <1>3
  <2>2. read_len = Block /\ fpos + Block > Len(content)
    BY <1>0, <1>3, <2>1 DEF read_len, Readable
  <2>3. PICK k \in 0 .. Len(content) : fpos = k * Block
    BY <1>3 DEF HashedInv
  <2>4. fpos = Block * (Len(content) \div Block)
    <3>1. k * Block <= Len(content) /\ Len(content) < k * Block + Block /\ k \in Nat
      BY <1>0, <2>2, <2>3
    <3> QED BY <1>0, <2>3, <3>1, BlocksAre
  <2> QED BY <1>1, <1>3, <2>4 DEF Taken
<1> QED BY <1>2, <1>3

LEMMA DoneStep ==
  TypeOK /\ HashedInv /\ DoneInv /\ FilesAreJudged /\ [Next]_vars
    => DoneInv' /\ FilesAreJudged'
<1> SUFFICES ASSUME TypeOK, HashedInv, DoneInv, FilesAreJudged, [Next]_vars
             PROVE  DoneInv' /\ FilesAreJudged'
  OBVIOUS
<1> USE DEF DoneInv, FilesAreJudged, Judged
<1>1. CASE Replace \/ check_bin_hash
  BY <1>1 DEF Replace, check_bin_hash
<1>2. CASE OpenFails \/ DigestFails
  BY <1>2 DEF OpenFails, DigestFails, Answer
<1>3. CASE Open \/ ReadBlock \/ StorageFails
  BY <1>3 DEF Open, ReadBlock, StorageFails
<1>4. CASE ReadFails
  <2>1. /\ at = "read" /\ at' = "finish" /\ (content # <<>> => ~Readable)
        /\ UNCHANGED <<content, ctx, expected, answer, faulty>>
    BY <1>4 DEF ReadFails
  <2>2. Taken(content)' = Taken(content)
    BY <2>1 DEF Taken
  <2> QED BY <2>1, <2>2, NothingLeft
<1>5. CASE Compare
  <2>1. /\ at = "finish" /\ at' = "idle" /\ UNCHANGED <<faulty, content, expected>>
        /\ answer' = IF ctx = expected THEN "yes" ELSE "no"
    BY <1>5 DEF Compare, Answer
  <2>2. Taken(content)' = Taken(content)
    BY <2>1 DEF Taken
  <2>3. ASSUME ~faulty PROVE (answer' = "yes") = (expected = Taken(content))
    <3>1. ctx = Taken(content)
      BY <2>1, <2>3
    <3> QED BY <2>1, <3>1
  <2> QED BY <2>1, <2>2, <2>3
<1>6. CASE UNCHANGED vars
  BY <1>6 DEF vars
<1> QED BY <1>1, <1>2, <1>3, <1>4, <1>5, <1>6 DEF Next, Work

LEMMA HashInvariant == Spec => []HInv
<1>1. Init => HInv
  BY TypeStart, HashedStart DEF HInv
<1>2. HInv /\ [Next]_vars => HInv'
  BY TypeStep, HashedStep, DoneStep DEF HInv
<1> QED BY <1>1, <1>2, PTL DEF Spec
-----------------------------------------------------------------------------

\* A check that nothing disturbs says "yes" exactly if the whole blocks of the file, or a
\* file shorter than a block, are what was hashed, for any contents and lengths.
THEOREM FilesJudged == Spec => []FilesAreJudged
<1>1. HInv => FilesAreJudged
  BY DEF HInv
<1> QED BY <1>1, HashInvariant, PTL

\* Of files of whole blocks, and of short ones, that is all there is.
LEMMA EvenIsTaken == TypeOK /\ Even(content) => Taken(content) = content
<1> SUFFICES ASSUME TypeOK, Even(content), ~(Len(content) < Block)
             PROVE  SubSeq(content, 1, Block * (Len(content) \div Block)) = content
  BY DEF Taken
<1>1. Len(content) \in Nat /\ content \in Seq(Byte)
  BY BytesAreSeq DEF TypeOK
<1>2. PICK k \in 0 .. Len(content) : Len(content) = k * Block
  BY DEF Even
<1>3. Block * (Len(content) \div Block) = Len(content)
  <2>1. k \in Nat /\ k * Block <= Len(content) /\ Len(content) < k * Block + Block
    BY <1>1, <1>2
  <2> QED BY <1>1, <1>2, <2>1, BlocksAre
<1> QED BY <1>1, <1>3

\* Of any other it is less.
LEMMA OddIsNotTaken == TypeOK /\ ~Even(content) => Taken(content) # content
<1> SUFFICES ASSUME TypeOK, ~Even(content) PROVE Taken(content) # content
  OBVIOUS
<1> DEFINE k == Len(content) \div Block
<1>1. Len(content) \in Nat /\ content \in Seq(Byte)
  BY BytesAreSeq DEF TypeOK
<1>2. k \in Nat /\ Block * k <= Len(content) /\ k * Block = Block * k /\ k <= Block * k
  BY <1>1, Blocks
<1>3. ~(Len(content) < Block)
  BY DEF Even
<1>4. Block * k # Len(content)
  <2> SUFFICES ASSUME Block * k = Len(content) PROVE FALSE
    OBVIOUS
  <2>1. k \in 0 .. Len(content) /\ Len(content) = k * Block
    BY <1>1, <1>2
  <2> HIDE DEF k
  <2> QED BY <2>1 DEF Even
<1> HIDE DEF k
<1>5. Block * k \in 0 .. Len(content)
  BY <1>1, <1>2
<1>6. Len(SubSeq(content, 1, Block * k)) = Block * k
  BY <1>1, <1>5
<1> QED BY <1>3, <1>4, <1>6 DEF Taken, k

\* Files shorter than a block and files of whole blocks are told from all others.
THEOREM EvenFilesJudged == Spec => []EvenFilesAreJudged
<1>1. HInv => EvenFilesAreJudged
  BY EvenIsTaken DEF HInv, FilesAreJudged, EvenFilesAreJudged
<1> QED BY <1>1, HashInvariant, PTL

\* A file of any other length never passes the check against its own hash.
THEOREM OddFilesRefused == Spec => []OddFilesAreRefused
<1>1. HInv => OddFilesAreRefused
  BY OddIsNotTaken DEF HInv, TypeOK, FilesAreJudged, OddFilesAreRefused, Judged
<1> QED BY <1>1, HashInvariant, PTL

\* Types; nothing is read past the end of the file.
THEOREM HashTypeCorrect == Spec => []TypeOK
<1>1. HInv => TypeOK
  BY DEF HInv
<1> QED BY <1>1, HashInvariant, PTL

-----------------------------------------------------------------------------
(* The check comes to an end *)

\* Each step is one closer to the answer: a record has at least a byte.
LEMMA StepDescends ==
  ASSUME TypeOK, [Next]_vars, at # "idle", vars' # vars PROVE Left' < Left
<1> USE DEF Left
<1>0. /\ Len(content) \in Nat /\ fpos \in Nat /\ fpos <= Len(content)
      /\ at \in {"open", "read", "finish"}
  BY BytesAreSeq DEF TypeOK
<1>1. CASE OpenFails \/ DigestFails \/ Compare
  <2>1. at' = "idle"
    BY <1>1 DEF OpenFails, DigestFails, Compare, Answer
  <2> QED BY <1>0, <2>1
<1>2. CASE Open
  <2>1. at = "open" /\ at' = "read" /\ content' = content /\ fpos' = fpos
    BY <1>2 DEF Open
  <2> QED BY <1>0, <2>1
<1>3. CASE ReadBlock
  <2>1. /\ at = "read" /\ at' = "read" /\ content' = content /\ fpos' = fpos + read_len
        /\ content # <<>> /\ fpos + read_len <= Len(content)
    BY <1>3 DEF ReadBlock, Readable
  <2>2. read_len \in Nat /\ read_len > 0
    <3>1. Len(content) > 0
      BY <1>0, <2>1, BytesAreSeq DEF TypeOK
    <3> QED BY <1>0, <3>1 DEF read_len
  <2> QED BY <1>0, <2>1, <2>2
<1>4. CASE ReadFails \/ StorageFails
  <2>1. at = "read" /\ at' = "finish"
    BY <1>4 DEF ReadFails, StorageFails
  <2> QED BY <1>0, <2>1
<1>5. ~(Replace \/ check_bin_hash)
  BY DEF Replace, check_bin_hash
<1> QED BY <1>1, <1>2, <1>3, <1>4, <1>5 DEF Next, Work

\* get_sha256_from_file takes no step that is not one closer to its end, whatever fails,
\* for every length of a file (what is left of CheckReturns is that the task runs).
THEOREM ChecksEnd == Spec => CheckDescends
<1>1. HInv /\ [Next]_vars => [at # "idle" => Left' < Left]_vars
  BY StepDescends DEF HInv
<1> QED BY <1>1, HashInvariant, PTL DEF Spec, CheckDescends
=============================================================================
