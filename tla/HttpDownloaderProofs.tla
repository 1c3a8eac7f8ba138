------------------------ MODULE HttpDownloaderProofs ------------------------
(***************************************************************************)
(* A download that succeeds has its response in a file that is closed and  *)
(* was closed once, whatever the chunks and their number.                  *)
(***************************************************************************)
EXTENDS HttpDownloader, WellFoundedInduction, TLAPS

USE DownloadAssumption

\* A response is a sequence of chunks.
LEMMA BodiesAreSeq == Bodies \subseteq Seq(Chunks)
BY DEF Bodies

LEMMA EmptyIsBody == <<>> \in Bodies
<1>1. <<>> \in Seq(Chunks) /\ Len(<<>>) = 0
  OBVIOUS
<1>2. <<>> \in [1 .. 0 -> Chunks]
  BY <1>1
<1> QED BY <1>2 DEF Bodies

\* What has come of a response grows by the next chunk.
LEMMA ChunkExtends ==
  ASSUME NEW S, NEW s \in Seq(S), NEW n \in 0 .. Len(s) - 1
  PROVE  Append(SubSeq(s, 1, n), s[n + 1]) = SubSeq(s, 1, n + 1)
<1> DEFINE a == SubSeq(s, 1, n)  b == Append(a, s[n + 1])  c == SubSeq(s, 1, n + 1)
<1>1. a \in Seq(S) /\ Len(a) = n /\ \A i \in 1 .. n : a[i] = s[i]
  OBVIOUS
<1>2. s[n + 1] \in S
  OBVIOUS
<1>3. b \in Seq(S) /\ Len(b) = n + 1 /\ \A i \in 1 .. n + 1 : b[i] = s[i]
  BY <1>1, <1>2
<1>4. c \in Seq(S) /\ Len(c) = n + 1 /\ \A i \in 1 .. n + 1 : c[i] = s[i]
  OBVIOUS
<1> QED BY <1>3, <1>4

\* A response that has come is the response.
LEMMA AllOfIt ==
  ASSUME NEW S, NEW s \in Seq(S)
  PROVE  /\ SubSeq(s, 1, 0) = <<>> /\ SubSeq(s, 1, Len(s)) = s
         /\ <<>> \o s = s /\ s \o <<>> = s
OBVIOUS

LEMMA EmptyIsNone == ASSUME NEW S, NEW s \in Seq(S), Len(s) = 0 PROVE s = <<>>
OBVIOUS

\* A chunk that may be handed over is one, and what is left of curr_pos has room.
LEMMA ChunkIsOne ==
  ASSUME TypeOK, next < Len(body)
  PROVE  /\ body \in Seq(Chunks) /\ Chunk \in Chunks /\ Chunk \in Nat
         /\ next + 1 \in 0 .. Len(body)
<1>1. body \in Seq(Chunks) /\ next \in 0 .. Len(body)
  BY BodiesAreSeq DEF TypeOK
<1>2. next + 1 \in 1 .. Len(body)
  BY <1>1
<1>3. body[next + 1] \in Chunks
  BY <1>1, <1>2
<1>4. Chunks \subseteq Nat
  OBVIOUS
<1>5. next + 1 \in 0 .. Len(body)
  BY <1>1
<1> QED BY <1>1, <1>3, <1>4, <1>5 DEF Chunk
-----------------------------------------------------------------------------
(* Types *)

\* What there is in the file are chunks and parts of chunks.
Pieces == Seq(Nat \ {0})

LEMMA Zeros == <<>> \in Pieces /\ 0 \in 0 .. max_len /\ 0 \in 0 .. 2 /\ 0 \in 0 .. MaxHops
BY DEF Pieces

LEMMA TypeStart == Init => TypeOK
<1> SUFFICES ASSUME Init PROVE TypeOK
  OBVIOUS
<1>1. body \in Bodies /\ next \in 0 .. Len(body)
  BY EmptyIsBody DEF Init
<1> QED BY <1>1, Zeros DEF Init, TypeOK, Pieces

\* The types of what the events leave of the file.
FileTyped ==
  /\ fp' = "null" \/ fp' = "closed"
  /\ buffered' \in Pieces /\ disk' \in Pieces
  /\ closes' \in 0 .. 2 /\ full' \in BOOLEAN /\ stray' = stray

\* Closing leaves pieces, and counts.
LEMMA CloseTypes ==
  ASSUME TypeOK, NEW p \in {"null", "closed"}, CloseFile(p), closes <= 1
  PROVE  /\ FileTyped /\ fp' = p
         /\ buffered' = <<>> /\ closes' = closes + 1
         /\ buffered = <<>> => disk' = disk
<1>1. disk \in Pieces /\ buffered \in Pieces /\ closes \in 0 .. 2
  BY DEF TypeOK, Pieces
<1>2. /\ fp' = p /\ buffered' = <<>> /\ closes' = closes + 1 /\ stray' = stray
      /\ closes' \in 0 .. 2
  BY <1>1 DEF CloseFile
<1>3. CASE disk' = disk \o buffered /\ UNCHANGED full
  <2>1. disk' \in Pieces
    BY <1>1, <1>3 DEF Pieces
  <2>2. buffered = <<>> => disk' = disk
    BY <1>1, <1>3, AllOfIt DEF Pieces
  <2> QED BY <1>2, <1>3, <2>1, <2>2, Zeros DEF FileTyped, TypeOK
<1>4. CASE buffered # <<>> /\ full' = TRUE /\ UNCHANGED disk
  BY <1>1, <1>2, <1>4, Zeros DEF FileTyped
<1> QED BY <1>3, <1>4 DEF CloseFile

LEMMA UnchangedTypes ==
  ASSUME TypeOK, fp = "null", UNCHANGED fileVars
  PROVE  FileTyped /\ fp' = "null"
BY DEF FileTyped, fileVars, TypeOK, Pieces

LEMMA DisconnectTypes ==
  ASSUME TypeOK, Disconnected, closes <= 1
  PROVE  /\ FileTyped /\ fp' = "null"
         /\ IF fp = "null" THEN UNCHANGED fileVars
            ELSE buffered' = <<>> /\ closes' = closes + 1
<1>1. CASE fp = "null"
  BY <1>1, UnchangedTypes DEF Disconnected
<1>2. CASE fp # "null"
  <2>1. CloseFile("null")
    BY <1>2 DEF Disconnected
  <2> QED BY <1>2, <2>1, CloseTypes
<1> QED BY <1>1, <1>2

LEMMA FinishTypes ==
  ASSUME TypeOK, OnFinish, closes <= 1
  PROVE  /\ FileTyped /\ fp' = "null"
         /\ bits' \subseteq {"ERROR", "DATA_AVAIL", "DONE"}
         /\ IF fp = "null" THEN UNCHANGED <<bits, fileVars>>
            ELSE CloseFile("null") /\ buffered' = <<>> /\ closes' = closes + 1
<1>1. CASE fp = "null"
  BY <1>1, UnchangedTypes DEF OnFinish, TypeOK
<1>2. CASE fp # "null"
  <2>1. CloseFile("null") /\ bits' = Finished(bits)
    BY <1>2 DEF OnFinish
  <2>2. bits' \subseteq {"ERROR", "DATA_AVAIL", "DONE"}
    BY <2>1 DEF Finished, TypeOK
  <2> QED BY <1>2, <2>1, <2>2, CloseTypes
<1> QED BY <1>1, <1>2

\* What a refused chunk and a broken transfer do to the bits.
LEMMA FailedTypes == TypeOK => Failed(bits) \subseteq {"ERROR", "DATA_AVAIL", "DONE"}
BY DEF TypeOK, Failed

\* A response that is new starts at its first chunk.
LEMMA ResponseTypes ==
  ASSUME body' \in Bodies, next' = 0
  PROVE  next' \in 0 .. Len(body')
<1>1. body' \in Seq(Chunks)
  BY BodiesAreSeq
<1> QED BY <1>1

\* The file is open for the first response only.
LEMMA OnceAtMost ==
  ASSUME TypeOK, TransferInv, at = "perform"
  PROVE  closes <= 1
<1>1. hops = 0 \/ hops > 0
  BY DEF TypeOK
<1> QED BY <1>1 DEF TransferInv

LEMMA TypeStep ==
  ASSUME TypeOK, TransferInv, ClosingInv, [Next]_vars
  PROVE  TypeOK'
<1>1. CASE init
  <2>1. body' \in Bodies /\ next' = 0
    BY <1>1 DEF init, Fresh
  <2> QED BY <1>1, <2>1, ResponseTypes, Zeros DEF init, Fresh, TypeOK, Pieces
<1>2. CASE InitFails
  <2>1. body' \in Bodies /\ next' = 0
    BY <1>2 DEF InitFails, Fresh, TypeOK
  <2> QED BY <1>2, <2>1, ResponseTypes, Zeros DEF InitFails, Fresh, TypeOK, Pieces
<1>3. CASE Connect \/ ConnectFails \/ Breaks
  BY <1>3, FailedTypes DEF Connect, ConnectFails, Breaks, TypeOK, fileVars, transferVars
<1>4. CASE Refuse /\ UNCHANGED <<fp, disk, closes, full>>
            /\ buffered' \in Pieces /\ stray' \in Nat
  <2>1. next' \in 0 .. Len(body')
    BY <1>4, ChunkIsOne DEF Refuse
  <2> QED BY <1>4, <2>1, FailedTypes DEF Refuse, TypeOK, Pieces
<1>5. CASE DataRefused
  BY <1>4, <1>5 DEF DataRefused, fileVars, TypeOK, Pieces
<1>6. CASE DataCut
  <2>1. PICK n \in 0 .. (Chunk - 1) :
          /\ buffered' = IF n = 0 THEN buffered ELSE Append(buffered, n)
          /\ stray' = stray + n
    BY <1>6 DEF DataCut
  <2>2. Chunk \in Nat
    BY <1>6, ChunkIsOne DEF DataCut, Refuse
  <2>3. stray' \in Nat
    BY <2>1, <2>2 DEF TypeOK
  <2>4. buffered' \in Pieces
    <3>1. CASE n = 0
      BY <2>1, <3>1 DEF TypeOK, Pieces
    <3>2. CASE n # 0
      BY <2>1, <2>2, <3>2 DEF TypeOK, Pieces
    <3> QED BY <3>1, <3>2
  <2> QED BY <1>4, <1>6, <2>3, <2>4 DEF DataCut
<1>7. CASE DataWritten
  <2>1. next' \in 0 .. Len(body') /\ Chunk \in Chunks /\ Chunk \in Nat
    BY <1>7, ChunkIsOne DEF DataWritten
  <2>2. buffered' \in Pieces
    <3>1. Chunk \in Nat \ {0} /\ buffered \in Seq(Nat \ {0})
      BY <2>1 DEF TypeOK
    <3> HIDE DEF Chunk
    <3> QED BY <1>7, <3>1 DEF DataWritten, Pieces
  <2>3. curr_pos' \in 0 .. max_len
    <3>1. curr_pos' = curr_pos + Chunk /\ curr_pos + Chunk <= max_len
      BY <1>7 DEF DataWritten, Fits
    <3>2. curr_pos \in Nat /\ max_len \in Nat
      BY DEF TypeOK
    <3> HIDE DEF Chunk
    <3> QED BY <2>1, <3>1, <3>2
  <2>4. bits' \subseteq {"ERROR", "DATA_AVAIL", "DONE"}
    <3>1. bits' = (bits \ {"ERROR"}) \cup {"DATA_AVAIL"}
      BY <1>7 DEF DataWritten
    <3>2. bits \subseteq {"ERROR", "DATA_AVAIL", "DONE"}
      BY DEF TypeOK
    <3> QED BY <3>1, <3>2
  <2>5. UNCHANGED <<at, body, conn, hops, ret, refused, fp, disk, closes, full, stray>>
    BY <1>7 DEF DataWritten
  <2> QED BY <2>1, <2>2, <2>3, <2>4, <2>5 DEF TypeOK, Pieces
<1>8. CASE Redirect
  <2>1. closes <= 1
    BY <1>8, OnceAtMost DEF Redirect
  <2>2. FileTyped /\ bits' \subseteq {"ERROR", "DATA_AVAIL", "DONE"}
    <3>1. CASE OnFinish
      BY <2>1, <3>1, FinishTypes
    <3>2. CASE Disconnected /\ UNCHANGED bits
      BY <2>1, <3>2, DisconnectTypes DEF TypeOK
    <3> QED BY <1>8, <3>1, <3>2 DEF Redirect
  <2>3. body' \in Bodies /\ next' = 0
    BY <1>8 DEF Redirect
  <2>4. hops' \in 0 .. MaxHops
    BY <1>8 DEF Redirect, TypeOK
  <2>5. UNCHANGED <<at, curr_pos, conn, ret, refused>>
    BY <1>8 DEF Redirect
  <2> QED BY <2>2, <2>3, <2>4, <2>5, ResponseTypes DEF FileTyped, TypeOK, Pieces
<1>9. CASE Finish
  <2>1. closes <= 1 /\ OnFinish
    BY <1>9, OnceAtMost DEF Finish
  <2>2. FileTyped /\ bits' \subseteq {"ERROR", "DATA_AVAIL", "DONE"}
    BY <2>1, FinishTypes
  <2> QED BY <1>9, <2>2 DEF Finish, FileTyped, TypeOK, Pieces
<1>10. CASE BreaksAndCloses
  <2>1. closes <= 1 /\ Disconnected
    BY <1>10, OnceAtMost DEF BreaksAndCloses
  <2>2. FileTyped
    BY <2>1, DisconnectTypes
  <2> QED BY <1>10, <2>2, FailedTypes DEF BreaksAndCloses, FileTyped, TypeOK, Pieces
<1>11. CASE WaitBits
  BY <1>11 DEF WaitBits, TypeOK, fileVars, transferVars
<1>12. CASE DestroyFile
  <2>1. CASE fp = "null"
    BY <1>12, <2>1 DEF DestroyFile, TypeOK, fileVars, transferVars
  <2>2. CASE fp # "null"
    <3>1. closes <= 1 /\ CloseFile("closed")
      BY <1>12, <2>2 DEF DestroyFile, ClosingInv, TypeOK
    <3>2. FileTyped
      BY <3>1, CloseTypes
    <3> QED BY <1>12, <3>2 DEF DestroyFile, FileTyped, TypeOK, Pieces, transferVars
  <2> QED BY <2>1, <2>2
<1>13. CASE DestroyClient
  <2>1. CASE conn
    <3>1. closes <= 1 /\ Disconnected
      BY <1>13, <2>1 DEF DestroyClient, ClosingInv
    <3>2. FileTyped
      BY <3>1, DisconnectTypes
    <3> QED BY <1>13, <3>2 DEF DestroyClient, FileTyped, TypeOK, Pieces
  <2>2. CASE ~conn
    BY <1>13, <2>2 DEF DestroyClient, TypeOK
  <2> QED BY <2>1, <2>2
<1>14. CASE UNCHANGED vars
  BY <1>14 DEF vars, TypeOK
<1> QED BY <1>1, <1>2, <1>3, <1>5, <1>6, <1>7, <1>8, <1>9, <1>10, <1>11, <1>12, <1>13, <1>14
        DEF Next, Work, Client
-----------------------------------------------------------------------------
(* The transfer *)

LEMMA TransferStep ==
  ASSUME TypeOK, TransferInv, [Next]_vars
  PROVE  TransferInv'
<1> USE DEF TransferInv
<1>1. CASE init
  <2>1. /\ at' = "ready" /\ next' = 0 /\ hops' = 0 /\ ~refused' /\ fp' = "open" /\ closes' = 0
        /\ disk' = <<>> /\ ~full' /\ buffered' = <<>> /\ body' \in Seq(Chunks)
    BY <1>1, BodiesAreSeq DEF init, Fresh
  <2> QED BY <2>1, AllOfIt
<1>2. CASE Connect
  BY <1>2 DEF Connect, fileVars
<1>3. CASE DataRefused
  BY <1>3 DEF DataRefused, Refuse, Failed, fileVars
<1>4. CASE DataCut
  BY <1>4 DEF DataCut, Refuse, Failed
<1>5. CASE DataWritten
  <2>1. /\ at = "perform" /\ at' = "perform" /\ next' = next + 1 /\ body' = body
        /\ refused' = refused /\ hops' = hops /\ fp = "open" /\ fp' = fp /\ closes' = closes
        /\ disk' = disk /\ full' = full
        /\ buffered' = Append(buffered, Chunk)
    BY <1>5 DEF DataWritten
  <2>2. body \in Seq(Chunks) /\ next \in 0 .. Len(body) - 1
    BY <1>5, BodiesAreSeq DEF DataWritten, TypeOK
  <2>3. hops = 0
    BY <2>1 DEF TypeOK
  <2>4. ASSUME ~refused PROVE buffered' = SubSeq(body, 1, next + 1)
    <3>1. buffered = SubSeq(body, 1, next)
      BY <2>1, <2>3, <2>4
    <3> QED BY <2>1, <2>2, <3>1, ChunkExtends DEF Chunk
  <2> QED BY <2>1, <2>3, <2>4
<1>6. CASE Redirect
  <2>1. closes <= 1 /\ (fp = "null" => closes = 1) /\ (fp # "null" => closes = 0)
    BY <1>6 DEF Redirect, TypeOK
  <2>2. fp' = "null" /\ closes' = 1
    <3>1. OnFinish \/ Disconnected
      BY <1>6 DEF Redirect
    <3> QED BY <2>1, <3>1, FinishTypes, DisconnectTypes DEF fileVars
  <2>3. at' = "perform" /\ hops' > 0 /\ next' = 0
    BY <1>6 DEF Redirect, TypeOK
  <2> QED BY <2>2, <2>3
<1>7. CASE InitFails \/ ConnectFails \/ Finish \/ Breaks \/ BreaksAndCloses
  BY <1>7 DEF InitFails, ConnectFails, Finish, Breaks, BreaksAndCloses
<1>8. CASE WaitBits \/ DestroyFile \/ DestroyClient
  BY <1>8 DEF WaitBits, DestroyFile, DestroyClient
<1>9. CASE UNCHANGED vars
  BY <1>9 DEF vars
<1> QED BY <1>1, <1>2, <1>3, <1>4, <1>5, <1>6, <1>7, <1>8, <1>9 DEF Next, Work, Client

\* The end of the first response puts what was taken of it into the file, and the file
\* away; the end of a later one finds no file, and is a good one only if it was empty.
LEMMA FinishStores ==
  ASSUME TypeOK, TransferInv, ClosingInv, Finish
  PROVE  /\ fp' = "null" /\ closes' = 1 /\ buffered' = <<>>
         /\ "DONE" \in bits' => Good'
<1>1. /\ next = Len(body) /\ refused' = refused /\ body' = body /\ hops' = hops /\ OnFinish
      /\ at = "perform"
  BY DEF Finish
<1>2. CASE hops = 0
  <2>1. /\ fp = "open" /\ closes = 0 /\ disk = <<>> /\ ~full
        /\ ~refused => buffered = SubSeq(body, 1, next)
        /\ CloseFile("null")
    BY <1>1, <1>2 DEF OnFinish, TransferInv
  <2>2. body \in Seq(Chunks) /\ buffered \in Seq(Nat \ {0})
    BY BodiesAreSeq DEF TypeOK
  <2>3. fp' = "null" /\ closes' = 1 /\ buffered' = <<>>
    BY <2>1 DEF CloseFile
  <2>4. ASSUME ~refused, ~full' PROVE disk' = body
    <3>1. buffered = body
      BY <1>1, <2>1, <2>2, <2>4, AllOfIt
    <3>2. disk' = disk \o buffered
      BY <2>1, <2>4 DEF CloseFile
    <3> QED BY <2>1, <2>2, <3>1, <3>2, AllOfIt
  <2> QED BY <1>1, <1>2, <2>3, <2>4 DEF Good, Stored
<1>3. CASE hops > 0
  <2>1. fp = "null" /\ closes = 1 /\ ("DONE" \in bits => next = 0) /\ buffered = <<>>
    BY <1>1, <1>3 DEF TransferInv, ClosingInv
  <2>2. UNCHANGED <<bits, fileVars>>
    BY <1>1, <2>1 DEF OnFinish
  <2>3. next = 0 => body = <<>>
    <3>1. body \in Seq(Chunks)
      BY BodiesAreSeq DEF TypeOK
    <3> QED BY <1>1, <3>1, EmptyIsNone
  <2>4. fp' = fp /\ closes' = closes /\ buffered' = buffered /\ bits' = bits
    BY <2>2 DEF fileVars
  <2>5. ASSUME "DONE" \in bits' PROVE body' = <<>>
    BY <1>1, <2>1, <2>3, <2>4, <2>5
  <2>6. (hops > 0) /\ hops # 0
    BY <1>3 DEF TypeOK
  <2> QED BY <1>1, <2>1, <2>4, <2>5, <2>6 DEF Good
<1> QED BY <1>2, <1>3 DEF TypeOK
-----------------------------------------------------------------------------
(* The end *)

LEMMA ClosingStep ==
  ASSUME TypeOK, TransferInv, ClosingInv, [Next]_vars
  PROVE  ClosingInv'
<1> USE DEF ClosingInv
<1>0. ASSUME at \in {"ready", "perform"}
      PROVE  (fp = "open" => closes = 0) /\ (fp # "open" => fp = "null" /\ closes = 1)
             /\ ret # "OK"
  BY <1>0 DEF TransferInv, TypeOK
<1>1. CASE init
  BY <1>1 DEF init, Fresh
<1>2. CASE InitFails
  BY <1>2 DEF InitFails, Fresh
<1>3. CASE Connect
  BY <1>0, <1>3 DEF Connect, fileVars
<1>4. CASE ConnectFails \/ Breaks
  BY <1>0, <1>4 DEF ConnectFails, Breaks, fileVars
<1>5. CASE DataRefused \/ DataWritten
  BY <1>0, <1>5 DEF DataRefused, Refuse, DataWritten, fileVars
<1>6. CASE DataCut
  BY <1>0, <1>6 DEF DataCut, Refuse
<1>7. CASE Redirect
  <2>1. at = "perform" /\ at' = "perform" /\ ret' = ret
    BY <1>7 DEF Redirect
  <2>2. closes <= 1 /\ (OnFinish \/ Disconnected)
    BY <1>0, <1>7, <2>1 DEF Redirect
  <2>3. fp' = "null" /\ buffered' = <<>>
    BY <2>2, FinishTypes, DisconnectTypes DEF fileVars
  <2> QED BY <1>0, <2>1, <2>3
<1>8. CASE Finish
  <2>1. at' = "wait" /\ ret' = ret /\ at = "perform"
    BY <1>8 DEF Finish
  <2> QED BY <1>0, <1>8, <2>1, FinishStores
<1>9. CASE BreaksAndCloses
  <2>1. at' = "destroy" /\ ret' = "FAIL" /\ at = "perform" /\ Disconnected
    BY <1>9 DEF BreaksAndCloses
  <2>2. fp' = "null" /\ buffered' = <<>> /\ closes' <= 1
    BY <1>0, <2>1, DisconnectTypes DEF fileVars
  <2> QED BY <2>1, <2>2
<1>10. CASE WaitBits
  <2>1. /\ at = "wait" /\ at' = "destroy" /\ fp' = fp /\ closes' = closes
        /\ buffered' = buffered /\ Good' = Good /\ (ret' = "OK" => "DONE" \in bits)
    BY <1>10 DEF WaitBits, fileVars, transferVars, Good, Stored
  <2> QED BY <2>1
<1>11. CASE DestroyFile
  <2>1. /\ at = "destroy" /\ at' = "cleanup" /\ ret' = ret /\ body' = body
        /\ refused' = refused /\ hops' = hops
    BY <1>11 DEF DestroyFile, transferVars
  <2>2. CASE fp = "null"
    BY <1>11, <2>1, <2>2 DEF DestroyFile, fileVars, Good, Stored
  <2>3. CASE fp # "null"
    <3>1. fp' = "closed" /\ buffered' = <<>> /\ closes' = 1 /\ ret # "OK"
      BY <1>11, <2>1, <2>3 DEF DestroyFile, CloseFile, Good
    <3> QED BY <2>1, <3>1
  <2> QED BY <2>2, <2>3
<1>12. CASE DestroyClient
  <2>1. /\ at = "cleanup" /\ at' = "idle" /\ ret' = ret /\ body' = body /\ hops' = hops
        /\ refused' = refused /\ buffered = <<>> /\ closes <= 1
    BY <1>12 DEF DestroyClient
  <2>2. fp' = "null" /\ buffered' = <<>>
    BY <1>12, <2>1, DisconnectTypes DEF DestroyClient, fileVars
  <2>3. ASSUME ret = "OK" PROVE Good'
    <3>1. fp = "null" /\ Good
      BY <2>1, <2>3 DEF Good
    <3> QED BY <1>12, <2>1, <3>1 DEF DestroyClient, Disconnected, fileVars, Good, Stored
  <2> QED BY <2>1, <2>2, <2>3
<1>13. CASE UNCHANGED vars
  BY <1>13 DEF vars, Good, Stored
<1> QED BY <1>1, <1>2, <1>3, <1>4, <1>5, <1>6, <1>7, <1>8, <1>9, <1>10, <1>11, <1>12, <1>13
        DEF Next, Work, Client

(* The sum of a sequence.  The recursive function that Total chooses is     *)
(* given by the sequence's prefix sums, which exist and are the only ones.  *)

\* A non-empty set of naturals has a least member.
LEMMA Least ==
  ASSUME NEW S \in SUBSET Nat, S # {}
  PROVE  \E i \in S : \A j \in S : i <= j
<1>1. OpToRel(<, Nat) = {p \in Nat \X Nat : p[1] < p[2]}
  BY Zenon DEF OpToRel
<1>2. IsWellFoundedOn({p \in Nat \X Nat : p[1] < p[2]}, Nat)
  BY <1>1, NatLessThanWellFounded, Zenon
<1> DEFINE R == {p \in Nat \X Nat : p[1] < p[2]}
<1>3. PICK i \in S : \A j \in S : ~(<<j, i>> \in R)
  <2> HIDE DEF R
  <2>1. IsWellFoundedOn(R, Nat)
    BY <1>2 DEF R
  <2> QED BY <2>1, WFMin, Zenon
<1>4. ASSUME NEW j \in S PROVE i <= j
  <2>1. ASSUME j < i PROVE <<j, i>> \in R
    BY <2>1
  <2> QED BY <1>3, <2>1
<1> QED BY <1>4

\* The prefix sums of s.
IsSums(f, s) ==
  /\ f \in [0 .. Len(s) -> Nat] /\ f[0] = 0
  /\ \A n \in 1 .. Len(s) : f[n] = f[n - 1] + s[n]

LEMMA SumsOfEmpty == IsSums([n \in 0 .. 0 |-> 0], <<>>)
BY DEF IsSums

\* One more chunk continues them.
LEMMA SumsOfAppend ==
  ASSUME NEW s \in Seq(Nat), NEW f, IsSums(f, s), NEW x \in Nat
  PROVE  IsSums([n \in 0 .. Len(s) + 1 |-> IF n <= Len(s) THEN f[n] ELSE f[Len(s)] + x],
                Append(s, x))
<1> DEFINE L == Len(s)
           t == Append(s, x)
           g == [n \in 0 .. L + 1 |-> IF n <= L THEN f[n] ELSE f[L] + x]
<1>1. L \in Nat /\ Len(t) = L + 1 /\ t[L + 1] = x /\ \A n \in 1 .. L : t[n] = s[n]
  OBVIOUS
<1>2. f \in [0 .. L -> Nat] /\ f[0] = 0 /\ \A n \in 1 .. L : f[n] = f[n - 1] + s[n]
  BY DEF IsSums
<1>3. g \in [0 .. Len(t) -> Nat] /\ g[0] = 0
  <2>1. ASSUME NEW n \in 0 .. L + 1 PROVE (IF n <= L THEN f[n] ELSE f[L] + x) \in Nat
    <3>1. CASE n <= L
      <4>1. n \in 0 .. L
        BY <1>1, <3>1
      <4> QED BY <1>2, <3>1, <4>1
    <3>2. CASE ~(n <= L)
      <4>1. f[L] \in Nat
        BY <1>1, <1>2
      <4> QED BY <3>2, <4>1
    <3> QED BY <3>1, <3>2
  <2>2. g \in [0 .. L + 1 -> Nat]
    BY <2>1
  <2>3. g[0] = f[0]
    BY <1>1
  <2> HIDE DEF g
  <2> QED BY <1>1, <1>2, <2>2, <2>3
<1>4. ASSUME NEW n \in 1 .. Len(t) PROVE g[n] = g[n - 1] + t[n]
  <2>1. CASE n <= L
    <3>1. g[n] = f[n] /\ g[n - 1] = f[n - 1] /\ n \in 1 .. L
      BY <1>1, <2>1
    <3> QED BY <1>1, <1>2, <3>1
  <2>2. CASE n = L + 1
    <3>1. g[n] = f[L] + x /\ g[n - 1] = f[L]
      BY <1>1, <2>2
    <3> QED BY <1>1, <2>2, <3>1
  <2> QED BY <1>1, <2>1, <2>2
<1> QED BY <1>3, <1>4 DEF IsSums

\* Every sequence has prefix sums: the shortest one without would be another and a
\* chunk.
LEMMA SumsExist ==
  ASSUME NEW s \in Seq(Nat)
  PROVE  \E f : IsSums(f, s)
<1> DEFINE B == {n \in Nat : \E t \in Seq(Nat) : Len(t) = n /\ ~\E f : IsSums(f, t)}
<1> SUFFICES ASSUME B # {} PROVE FALSE
  <2>1. Len(s) \in Nat
    OBVIOUS
  <2> QED BY <2>1
<1>1. PICK m \in B : \A j \in B : m <= j
  <2> HIDE DEF B
  <2>1. B \in SUBSET Nat
    BY DEF B
  <2> QED BY <2>1, Least
<1>2. PICK t \in Seq(Nat) : Len(t) = m /\ ~\E f : IsSums(f, t)
  BY <1>1
<1>3. CASE m = 0
  <2>1. t = <<>>
    BY <1>2, <1>3
  <2> QED BY <1>2, <2>1, SumsOfEmpty
<1>4. CASE m # 0
  <2> DEFINE u == SubSeq(t, 1, m - 1)
  <2>1. m \in Nat /\ m - 1 \in Nat /\ t[m] \in Nat
    BY <1>1, <1>2, <1>4
  <2>2. u \in Seq(Nat) /\ Len(u) = m - 1 /\ \A i \in 1 .. m - 1 : u[i] = t[i]
    BY <1>2, <2>1
  <2>3. Append(u, t[m]) = t
    <3>1. m - 1 \in 0 .. Len(t) - 1 /\ (m - 1) + 1 = m /\ SubSeq(t, 1, m) = t
      BY <1>2, <2>1, AllOfIt
    <3> QED BY <3>1, ChunkExtends
  <2>4. m - 1 \notin B
    BY <1>1, <2>1
  <2>5. PICK f : IsSums(f, u)
    BY <2>1, <2>2, <2>4
  <2> HIDE DEF u
  <2>6. \E g : IsSums(g, Append(u, t[m]))
    BY <2>1, <2>2, <2>5, SumsOfAppend
  <2> QED BY <1>2, <2>3, <2>6
<1> QED BY <1>3, <1>4

\* Total is the last of them.
LEMMA TotalIsLast ==
  ASSUME NEW s \in Seq(Nat), NEW f, IsSums(f, s)
  PROVE  Total(s) = f[Len(s)]
<1> DEFINE L == Len(s)
           F(h) == [n \in 0 .. L |-> IF n = 0 THEN 0 ELSE h[n - 1] + s[n]]
           g == CHOOSE h : h = F(h)
<1>1. L \in Nat /\ f \in [0 .. L -> Nat] /\ f[0] = 0
      /\ \A n \in 1 .. L : f[n] = f[n - 1] + s[n]
  BY DEF IsSums
<1>2. f = F(f)
  BY <1>1
<1>3. g = F(g)
  <2> HIDE DEF F
  <2> QED BY <1>2
<1>4. Total(s) = g[L]
  BY Zenon DEF Total
<1>5. g[0] = 0 /\ \A n \in 1 .. L : g[n] = g[n - 1] + s[n]
  <2> HIDE DEF g
  <2>1. g[0] = 0
    BY <1>1, <1>3
  <2>2. ASSUME NEW n \in 1 .. L PROVE g[n] = g[n - 1] + s[n]
    <3>1. n \in 0 .. L /\ n # 0
      BY <1>1
    <3>2. F(g)[n] = g[n - 1] + s[n]
      BY <3>1
    <3> HIDE DEF F
    <3> QED BY <1>3, <3>2
  <2> QED BY <2>1, <2>2
<1> HIDE DEF g, F
<1> DEFINE D == {n \in 0 .. L : f[n] # g[n]}
<1>6. D = {}
  <2> SUFFICES ASSUME D # {} PROVE FALSE
    OBVIOUS
  <2>1. D \in SUBSET Nat
    BY <1>1
  <2>2. PICK n \in D : \A j \in D : n <= j
    <3> HIDE DEF D
    <3> QED BY <2>1, Least
  <2>3. n \in 1 .. L
    BY <1>1, <1>5, <2>2
  <2>4. f[n - 1] = g[n - 1]
    BY <1>1, <2>2, <2>3
  <2> QED BY <1>1, <1>5, <2>2, <2>3, <2>4
<1>7. L \in 0 .. L
  BY <1>1
<1> QED BY <1>4, <1>6, <1>7

LEMMA TotalOfEmpty == Total(<<>>) = 0
<1>1. <<>> \in Seq(Nat) /\ Len(<<>>) = 0
  OBVIOUS
<1> QED BY <1>1, SumsOfEmpty, TotalIsLast

LEMMA TotalIsNat == ASSUME NEW s \in Seq(Nat) PROVE Total(s) \in Nat
<1>1. PICK f : IsSums(f, s)
  BY SumsExist
<1>2. Len(s) \in 0 .. Len(s) /\ f \in [0 .. Len(s) -> Nat]
  BY <1>1 DEF IsSums
<1> QED BY <1>1, <1>2, TotalIsLast

LEMMA TotalOfAppend ==
  ASSUME NEW s \in Seq(Nat), NEW x \in Nat
  PROVE  Total(Append(s, x)) = Total(s) + x
<1>1. PICK f : IsSums(f, s)
  BY SumsExist
<1> DEFINE L == Len(s)
           g == [n \in 0 .. L + 1 |-> IF n <= L THEN f[n] ELSE f[L] + x]
<1>2. IsSums(g, Append(s, x))
  BY <1>1, SumsOfAppend
<1>3. Append(s, x) \in Seq(Nat) /\ Len(Append(s, x)) = L + 1 /\ L \in Nat
  OBVIOUS
<1>4. g[L + 1] = f[L] + x
  BY <1>3
<1> HIDE DEF g
<1>5. Total(Append(s, x)) = g[L + 1]
  BY <1>2, <1>3, TotalIsLast
<1>6. Total(s) = f[L]
  BY <1>1, TotalIsLast
<1> QED BY <1>4, <1>5, <1>6

\* The sums of two sequences, one after the other.
LEMMA TotalOfConcat ==
  ASSUME NEW s \in Seq(Nat), NEW t \in Seq(Nat)
  PROVE  Total(s \o t) = Total(s) + Total(t)
<1>1. PICK f : IsSums(f, s)
  BY SumsExist
<1>2. PICK g : IsSums(g, t)
  BY SumsExist
<1> DEFINE L == Len(s)
           M == Len(t)
           u == s \o t
           h == [n \in 0 .. L + M |-> IF n <= L THEN f[n] ELSE f[L] + g[n - L]]
<1>3. /\ L \in Nat /\ M \in Nat /\ u \in Seq(Nat) /\ Len(u) = L + M
      /\ \A n \in 1 .. L : u[n] = s[n]
      /\ \A n \in L + 1 .. L + M : u[n] = t[n - L]
      /\ \A n \in 1 .. M : t[n] \in Nat
  OBVIOUS
<1>4. f \in [0 .. L -> Nat] /\ f[0] = 0 /\ \A n \in 1 .. L : f[n] = f[n - 1] + s[n]
  BY <1>1 DEF IsSums
<1>5. g \in [0 .. M -> Nat] /\ g[0] = 0 /\ \A n \in 1 .. M : g[n] = g[n - 1] + t[n]
  BY <1>2 DEF IsSums
<1> HIDE DEF L, M, u
<1>6. h \in [0 .. L + M -> Nat] /\ h[0] = 0 /\ h[L + M] = f[L] + g[M]
  <2>1. f[L] \in Nat /\ g[M] \in Nat /\ g[0] = 0 /\ (L + M) - L = M
    BY <1>3, <1>4, <1>5
  <2>2. ASSUME NEW n \in 0 .. L + M
        PROVE  (IF n <= L THEN f[n] ELSE f[L] + g[n - L]) \in Nat
    <3>1. CASE n <= L
      BY <1>3, <1>4, <3>1
    <3>2. CASE ~(n <= L)
      <4>1. n - L \in 0 .. M
        BY <1>3, <3>2
      <4>2. g[n - L] \in Nat
        BY <1>5, <4>1
      <4> QED BY <2>1, <3>2, <4>2
    <3> QED BY <3>1, <3>2
  <2>3. h[L + M] = f[L] + g[M]
    <3>1. L + M \in 0 .. L + M /\ (L + M <= L => M = 0 /\ L + M = L)
      BY <1>3
    <3> QED BY <2>1, <3>1
  <2>4. h \in [0 .. L + M -> Nat]
    BY <2>2
  <2>5. h[0] = 0
    BY <1>3, <1>4
  <2> QED BY <2>3, <2>4, <2>5
<1>7. ASSUME NEW n \in 1 .. L + M PROVE h[n] = h[n - 1] + u[n]
  <2>1. CASE n <= L
    <3>1. h[n] = f[n] /\ h[n - 1] = f[n - 1] /\ n \in 1 .. L
      BY <1>3, <2>1
    <3> QED BY <1>3, <1>4, <3>1
  <2>2. CASE ~(n <= L)
    <3> DEFINE i == n - L
    <3>1. i \in 1 .. M /\ i - 1 \in 0 .. M /\ i \in 0 .. M /\ (n - 1) - L = i - 1
          /\ n \in L + 1 .. L + M /\ n \in 0 .. L + M /\ n - 1 \in 0 .. L + M
          /\ (n - 1 <= L => i - 1 = 0 /\ n - 1 = L)
      BY <1>3, <2>2
    <3>2. h[n] = f[L] + g[i]
      BY <2>2, <3>1
    <3>3. g[0] = 0 /\ f[L] \in Nat
      BY <1>3, <1>4, <1>5
    <3>4. h[n - 1] = f[L] + g[i - 1]
      <4>1. CASE n - 1 <= L
        BY <3>1, <3>3, <4>1
      <4>2. CASE ~(n - 1 <= L)
        BY <3>1, <4>2
      <4> QED BY <4>1, <4>2
    <3>5. u[n] = t[i] /\ t[i] \in Nat
      BY <1>3, <3>1
    <3>6. g[i] = g[i - 1] + t[i] /\ g[i - 1] \in Nat
      <4> HIDE DEF i, h
      <4>1. i \in 1 .. M /\ i - 1 \in 0 .. M
        BY <3>1
      <4>2. g[i - 1] \in Nat
        BY <1>5, <4>1
      <4>3. g[i] = g[i - 1] + t[i]
        BY <1>5, <4>1
      <4> QED BY <4>2, <4>3
    <3> HIDE DEF h, i
    <3> QED BY <3>2, <3>3, <3>4, <3>5, <3>6
  <2> QED BY <2>1, <2>2
<1> HIDE DEF h
<1>8. IsSums(h, u)
  BY <1>3, <1>6, <1>7 DEF IsSums
<1> QED BY <1>1, <1>2, <1>3, <1>6, <1>8, TotalIsLast DEF u, L, M
-----------------------------------------------------------------------------
(* What is kept *)

LEMMA WrittenIsNat == TypeOK => disk \in Seq(Nat) /\ buffered \in Seq(Nat)
<1>1. ASSUME NEW s \in Seq(Nat \ {0}) PROVE s \in Seq(Nat)
  <2>1. \A n \in 1 .. Len(s) : s[n] \in Nat
    <3>1. \A n \in 1 .. Len(s) : s[n] \in Nat \ {0}
      OBVIOUS
    <3> QED BY <3>1
  <2>2. s \in [1 .. Len(s) -> Nat] /\ Len(s) \in Nat
    BY <2>1
  <2> QED BY <2>2
<1> QED BY <1>1 DEF TypeOK

\* Closing moves what is buffered to the file, or loses it.
LEMMA ClosedSums ==
  ASSUME TypeOK, SumInv, stray' = stray, (\E p : CloseFile(p)) \/ UNCHANGED <<disk, buffered>>
  PROVE  Total(disk') + Total(buffered') <= max_len + stray'
<1>1. disk \in Seq(Nat) /\ buffered \in Seq(Nat)
  BY WrittenIsNat
<1>2. /\ Total(disk) \in Nat /\ Total(buffered) \in Nat /\ stray \in Nat /\ max_len \in Nat
      /\ Total(disk) + Total(buffered) <= max_len + stray
  BY <1>1, TotalIsNat DEF SumInv, TypeOK
<1>3. CASE disk' = disk \o buffered /\ buffered' = <<>>
  <2>1. Total(disk') = Total(disk) + Total(buffered) /\ Total(buffered') = 0
    BY <1>1, <1>3, TotalOfConcat, TotalOfEmpty
  <2> QED BY <1>2, <2>1
<1>4. CASE disk' = disk /\ buffered' = <<>>
  <2>1. Total(disk') = Total(disk) /\ Total(buffered') = 0
    BY <1>4, TotalOfEmpty
  <2> QED BY <1>2, <2>1
<1>5. CASE UNCHANGED <<disk, buffered>>
  BY <1>2, <1>5
<1> QED BY <1>3, <1>4, <1>5 DEF CloseFile

LEMMA SumStep ==
  ASSUME TypeOK, TransferInv, SumInv, [Next]_vars
  PROVE  SumInv'
<1> USE DEF SumInv
<1>1. disk \in Seq(Nat) /\ buffered \in Seq(Nat) /\ Total(disk) \in Nat
      /\ Total(buffered) \in Nat /\ stray \in Nat /\ max_len \in Nat /\ curr_pos \in 0 .. max_len
  BY TotalIsNat, WrittenIsNat DEF TypeOK
<1>2. ASSUME at = "perform", fp = "open"
      PROVE  hops = 0 /\ disk = <<>> /\ Total(disk) = 0 /\ Total(buffered) = curr_pos + stray
  BY <1>2, TotalOfEmpty DEF TransferInv, TypeOK
<1>3. CASE init
  BY <1>1, <1>3, TotalOfEmpty DEF init, Fresh
<1>4. CASE InitFails
  BY <1>1, <1>4, TotalOfEmpty DEF InitFails, Fresh
<1>5. CASE Connect \/ ConnectFails \/ Breaks \/ WaitBits
  BY <1>5 DEF Connect, ConnectFails, Breaks, WaitBits, fileVars, transferVars
<1>6. CASE DataRefused
  BY <1>6 DEF DataRefused, Refuse, fileVars
<1>7. CASE DataCut
  <2>1. PICK n \in 0 .. (Chunk - 1) :
          /\ buffered' = IF n = 0 THEN buffered ELSE Append(buffered, n)
          /\ stray' = stray + n
    BY <1>7 DEF DataCut
  <2>2. at = "perform" /\ fp = "open" /\ disk' = disk /\ curr_pos' = curr_pos
    BY <1>7 DEF DataCut, Refuse
  <2>3. Chunk \in Nat
    BY <1>7, ChunkIsOne DEF DataCut, Refuse
  <2>4. Total(buffered') = Total(buffered) + n
    <3>1. CASE n = 0
      BY <1>1, <2>1, <3>1
    <3>2. CASE n # 0
      BY <1>1, <2>1, <2>3, <3>2, TotalOfAppend
    <3> QED BY <3>1, <3>2
  <2>5. n \in Nat
    BY <2>3
  <2> QED BY <1>1, <1>2, <2>1, <2>2, <2>4, <2>5
<1>8. CASE DataWritten
  <2>1. /\ at = "perform" /\ fp = "open" /\ disk' = disk /\ stray' = stray
        /\ buffered' = Append(buffered, Chunk)
        /\ curr_pos' = curr_pos + Chunk /\ curr_pos + Chunk <= max_len
    BY <1>8 DEF DataWritten, Fits
  <2>2. Chunk \in Nat
    BY <1>8, ChunkIsOne DEF DataWritten
  <2>3. Total(buffered') = Total(buffered) + Chunk
    BY <1>1, <2>1, <2>2, TotalOfAppend
  <2> HIDE DEF Chunk
  <2> QED BY <1>1, <1>2, <2>1, <2>2, <2>3
<1>9. CASE Redirect
  <2>1. /\ hops' # 0 /\ stray' = stray
        /\ (\E p : CloseFile(p)) \/ UNCHANGED <<disk, buffered>>
    BY <1>9 DEF Redirect, OnFinish, Disconnected, CloseFile, fileVars, TypeOK
  <2> QED BY <2>1, ClosedSums
<1>10. CASE Finish \/ BreaksAndCloses \/ DestroyFile \/ DestroyClient
  <2>1. at' \notin {"ready", "perform"}
    BY <1>10 DEF Finish, BreaksAndCloses, DestroyFile, DestroyClient
  <2>2. stray' = stray /\ ((\E p : CloseFile(p)) \/ UNCHANGED <<disk, buffered>>)
    BY <1>10 DEF Finish, OnFinish, BreaksAndCloses, DestroyFile, DestroyClient, Disconnected,
                 CloseFile, fileVars
  <2> QED BY <2>1, <2>2, ClosedSums
<1>11. CASE UNCHANGED vars
  BY <1>11 DEF vars
<1> QED BY <1>3, <1>4, <1>5, <1>6, <1>7, <1>8, <1>9, <1>10, <1>11 DEF Next, Work, Client

-----------------------------------------------------------------------------
LEMMA Inductive ==
  /\ Init => DInv
  /\ DInv /\ [Next]_vars => DInv'
<1>1. Init => TransferInv /\ ClosingInv
  BY DEF Init, TransferInv, ClosingInv
<1> QED BY <1>1, TypeStart, TypeStep, TransferStep, ClosingStep DEF DInv
-----------------------------------------------------------------------------

\* Types; the position never passes max_len and no file is closed three times.
THEOREM DownloadTypeCorrect == Spec => []TypeOK
<1>1. DInv => TypeOK
  BY DEF DInv
<1> QED BY <1>1, Inductive, PTL DEF Spec

\* A download that succeeds, not redirected and without a chunk refused or lost, has put
\* the response into the file, for every length and number of chunks.
THEOREM ResponseIsStored == Spec => []OkIsOnDisk
<1>1. DInv => OkIsOnDisk
  BY DEF DInv, ClosingInv, Good, Stored, OkIsOnDisk
<1> QED BY <1>1, Inductive, PTL DEF Spec

\* A download that succeeds has closed its file once, by the finish, the disconnect or
\* the destructor.
THEOREM FileIsClosed == Spec => []GoodIsClosedOnce
<1>1. DInv => GoodIsClosedOnce
  BY DEF DInv, ClosingInv, Good, GoodIsClosedOnce
<1> QED BY <1>1, Inductive, PTL DEF Spec

\* Whatever became of the transfer, nothing that was written is left in a buffer when
\* the object is gone.
THEOREM NothingIsLeft == Spec => []NothingUnflushed
<1>1. DInv => NothingUnflushed
  BY DEF DInv, ClosingInv, Good, NothingUnflushed
<1> QED BY <1>1, Inductive, PTL DEF Spec

\* However often a download is redirected, and whichever end of which response said
\* DONE: request returns ESP_OK only if the last response had nothing to store.
THEOREM RedirectIsNoSuccess == Spec => []RedirectIsNotStored
<1>1. DInv => RedirectIsNotStored
  BY DEF DInv, ClosingInv, Good, RedirectIsNotStored
<1> QED BY <1>1, Inductive, PTL DEF Spec

\* What a download leaves behind is longer than max_len by no more than what failed
\* writes have left in the file, whatever the lengths of the chunks, their number, and
\* how often the file is closed: the position counts everything else.
THEOREM NeverTooLong == Spec => []WithinMax
<1>1. Init => SumInv
  BY TotalOfEmpty DEF Init, SumInv
<1>2. DInv /\ SumInv /\ [Next]_vars => SumInv'
  BY SumStep DEF DInv
<1>3. DInv /\ SumInv => WithinMax
  <2> SUFFICES ASSUME DInv, SumInv PROVE WithinMax
    OBVIOUS
  <2>1. /\ Total(disk) \in Nat /\ Total(buffered) \in Nat
        /\ max_len \in Nat /\ stray \in Nat
    BY TotalIsNat, WrittenIsNat DEF DInv, TypeOK
  <2> QED BY <2>1 DEF SumInv, WithinMax
<1> QED BY <1>1, <1>2, <1>3, Inductive, PTL DEF Spec
=============================================================================
