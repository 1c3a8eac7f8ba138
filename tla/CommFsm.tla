------------------------------ MODULE CommFsm ------------------------------
(***************************************************************************)
(* comm_fsm: the packets of the USB file transfer, one action per way a    *)
(* packet is answered (parse_pkt and the handlers it calls).  The host may *)
(* send any packet at any time, again, late or damaged; answers that do    *)
(* not get through leave no trace here, since no handler looks at what a   *)
(* send_ function returns.                                                 *)
(*                                                                         *)
(* Files are external.  What was written through a FILE reaches the        *)
(* storage when stdio and the file system see fit, at the latest when it   *)
(* is closed, and not at all if power is lost before.  A CRC32 is taken to *)
(* tell contents apart: file_crc holds the contents it is the CRC of.      *)
(*                                                                         *)
(* Two things are taken of the host: it announces the length and the CRC   *)
(* of one and the same contents, and a chunk's len is the number of bytes  *)
(* that came with it, which the code compares with nothing                 *)
(* (comm_fsm.cpp:279, 296).                                                *)
(***************************************************************************)
EXTENDS Naturals, Sequences

CONSTANTS
  Paths,
  Bytes,
  MaxLen,    \* bound on the length of a file
  MaxChunk,  \* the longest chunk
  MaxOpen,   \* files the file system lets be open at a time
  MaxShort   \* bound on the writes that fail in one transfer

ASSUME CommAssumption ==
  /\ MaxLen \in Nat /\ MaxChunk \in Nat /\ MaxOpen \in Nat /\ MaxShort \in Nat
  /\ "none" \notin Paths

VARIABLES
  expect_file_chunk, file_expect_len, file_curr_offset, file_crc,
  file_name,
  file_handle, \* "null" or "open"
  written,     \* what has been written through file_handle
  short,       \* writes of this transfer that failed
  opened,      \* FILEs that are open
  files,       \* the paths there are
  disk,        \* what reading a path yields
  promised,    \* <<path, contents>> of the files the host was told are stored
  reply        \* the answer to the last packet

transferVars == <<expect_file_chunk, file_expect_len, file_curr_offset, file_crc,
                  file_name, file_handle, written, short>>
storeVars == <<files, disk, promised>>
vars == <<transferVars, opened, storeVars, reply>>

SeqsTo(n) == UNION {[1 .. k -> Bytes] : k \in 0 .. n}
Contents  == SeqsTo(MaxLen)

\* PKT_ACK and the packets of information are "OK", PKT_NACK, PKT_ERROR and the
\* CHUNK_ERR_ states are "ERROR".
Reply == {"none", "OK", "ERROR", "NEXT", "DONE"}

TypeOK ==
  /\ expect_file_chunk \in BOOLEAN
  /\ file_expect_len \in 0 .. MaxLen /\ file_curr_offset \in 0 .. MaxLen
  /\ file_crc \in Contents
  /\ file_name \in Paths \cup {"none"}
  /\ file_handle \in {"null", "open"}
  /\ written \in Seq(Bytes) /\ short \in 0 .. MaxShort
  /\ opened \in 0 .. MaxOpen
  /\ files \subseteq Paths /\ disk \in [Paths -> Seq(Bytes)]
  /\ promised \subseteq Paths \X Contents
  /\ reply \in Reply

\* The members of comm_fsm after start-up, and a storage without files.
Init ==
  /\ expect_file_chunk = FALSE /\ file_expect_len = 0 /\ file_curr_offset = 0
  /\ file_crc = <<>> /\ file_name = "none" /\ file_handle = "null"
  /\ written = <<>> /\ short = 0 /\ opened = 0 /\ reply = "none"
  /\ files = {} /\ disk = [p \in Paths |-> <<>>] /\ promised = {}

-----------------------------------------------------------------------------
(* Packets that change nothing *)

Answer(r) == reply' = r /\ UNCHANGED <<transferVars, opened, storeVars>>

\* Too short, a wrong CRC, an unknown type, a chunk that is not expected, or another
\* packet than the chunk that is.
nack == Answer("ERROR")

ping == ~expect_file_chunk /\ Answer("OK")
device_info == ~expect_file_chunk /\ (Answer("OK") \/ Answer("none"))

\* handle_fetch_file_req is empty: the host hears nothing.
handle_fetch_file_req == ~expect_file_chunk /\ Answer("none")

-----------------------------------------------------------------------------
(* The files as a whole *)

\* What the store holds besides file p.
Besides(p) == {f \in promised : f[1] # p}

\* slip: other packets are served while a file is received
Any == TRUE

\* parse_pkt turns everything but chunks down while a file is received.
Free == ~expect_file_chunk

handle_delete_file(p) ==
  /\ Free
  /\ \/ reply' = "ERROR" /\ UNCHANGED storeVars
     \/ /\ p \in files /\ reply' = "OK"
        /\ files' = files \ {p} /\ promised' = Besides(p)
        /\ disk' = [disk EXCEPT ![p] = <<>>]
  /\ UNCHANGED <<transferVars, opened>>

\* get_file_crc32 does not close what it opens.
handle_get_file_info(p) ==
  /\ Free
  /\ \/ reply' = "ERROR" /\ UNCHANGED opened
     \/ /\ p \in files /\ opened < MaxOpen
        /\ opened' = opened + 1 /\ reply' \in {"OK", "ERROR"}
  /\ UNCHANGED <<transferVars, storeVars>>

\* A format that fails may have destroyed what there was.
handle_format_partition ==
  /\ Free
  /\ \/ reply' \in {"OK", "ERROR"} /\ files' = {} /\ disk' = [p \in Paths |-> <<>>]
     \/ reply' = "ERROR" /\ UNCHANGED <<files, disk>>
  /\ promised' = {} /\ UNCHANGED <<transferVars, opened>>

-----------------------------------------------------------------------------
(* Receiving a file *)

\* fopen fails, surely if the table of open files is full.  The host hears nothing.
StoreFails ==
  /\ Free
  /\ file_handle' = "null" /\ file_name' = "none" /\ reply' = "none"
  /\ UNCHANGED <<expect_file_chunk, file_expect_len, file_curr_offset, file_crc,
                 written, short, opened, storeVars>>

\* The FILE of the transfer before may still be open: its pointer is overwritten.
\* The new length may reach the storage later than fopen returns.
StoreOpens(p, c) ==
  /\ Free /\ opened < MaxOpen
  /\ opened' = opened + 1 /\ file_handle' = "open"
  /\ files' = files \cup {p} /\ promised' = Besides(p)
  /\ disk' = [disk EXCEPT ![p] = <<>>] \/ (p \in files /\ UNCHANGED disk)
  /\ file_name' = p /\ file_expect_len' = Len(c) /\ file_crc' = c
  /\ file_curr_offset' = 0 /\ written' = <<>> /\ short' = 0
  /\ expect_file_chunk' = TRUE /\ reply' = "NEXT"

handle_store_file_req == StoreFails \/ \E p \in Paths, c \in Contents : StoreOpens(p, c)

\* slip: the members are cleared, the flag is not
ClearedOnly ==
  /\ file_expect_len' = 0 /\ file_curr_offset' = 0 /\ file_crc' = <<>>
  /\ written' = <<>> /\ short' = 0
  /\ UNCHANGED expect_file_chunk

\* What was written and has not been closed is never written again.
EndTransfer ==
  /\ file_expect_len' = 0 /\ file_curr_offset' = 0 /\ file_crc' = <<>>
  /\ written' = <<>> /\ short' = 0
  /\ expect_file_chunk' = FALSE

\* A chunk of length 0.  The file stays open.
ChunkAborts ==
  /\ expect_file_chunk
  /\ EndTransfer /\ reply' = "ERROR"
  /\ UNCHANGED <<file_name, file_handle, opened, storeVars>>

\* slip: what has come already is not counted
FitsFile(data) == Len(data) <= file_expect_len

Fits(data) == Len(data) + file_curr_offset <= file_expect_len

\* slip: the chunk is refused, the transfer goes on
RefuseChunk(data) ==
  /\ expect_file_chunk /\ ~Fits(data)
  /\ reply' = "ERROR" /\ UNCHANGED <<transferVars, opened, storeVars>>

\* The file is closed, which may fail to write what is left.
ChunkTooLong(data) ==
  /\ expect_file_chunk /\ ~Fits(data)
  /\ EndTransfer /\ reply' = "ERROR"
  /\ file_handle' = "null" /\ opened' = opened - 1
  /\ disk' = [disk EXCEPT ![file_name] = written] \/ UNCHANGED disk
  /\ UNCHANGED <<file_name, files, promised>>

\* What the storage holds of the file once w has been written through its FILE.
Reached(w) ==
  \/ UNCHANGED disk
  \/ \E k \in 0 .. Len(w) : disk' = [disk EXCEPT ![file_name] = SubSeq(w, 1, k)]

\* fwrite takes a part of the chunk.  It is not taken back.
ChunkNotWritten(data) ==
  /\ expect_file_chunk /\ Fits(data) /\ short < MaxShort
  /\ \E k \in 0 .. Len(data) - 1 : written' = written \o SubSeq(data, 1, k)
  /\ short' = short + 1 /\ Reached(written') /\ reply' = "ERROR"
  /\ UNCHANGED <<expect_file_chunk, file_expect_len, file_curr_offset, file_crc,
                 file_name, file_handle, opened, files, promised>>

\* slip: the offset is that of the chunk
OffsetOfChunk(data) == file_curr_offset' = Len(data)

Advance(data) == file_curr_offset' = file_curr_offset + Len(data)

Write(data) == Reached(written \o data)

Last(data) == file_curr_offset + Len(data) = file_expect_len

ChunkWritten(data) ==
  /\ expect_file_chunk /\ Fits(data) /\ ~Last(data)
  /\ Write(data) /\ Advance(data) /\ reply' = "NEXT"
  /\ written' = written \o data
  /\ UNCHANGED <<short, expect_file_chunk, file_expect_len, file_crc, file_name, file_handle,
                 opened, files, promised>>

\* validate_file_crc32 opens the path anew, while file_handle is open.
\* slip: any contents will do
NoCrc == opened < MaxOpen /\ opened' = opened + 1

CrcMatches == opened < MaxOpen /\ opened' = opened + 1 /\ disk'[file_name] = file_crc

\* A read that fails does not end get_file_crc32's loop: nothing happens any more,
\* which needs no action.
CrcFails ==
  \/ UNCHANGED opened
  \/ opened < MaxOpen /\ opened' = opened + 1 /\ disk'[file_name] # file_crc

\* All that was announced has come, and is stored.  The file stays open.
FileDone(data) ==
  /\ expect_file_chunk /\ Fits(data) /\ Last(data)
  /\ Write(data) /\ CrcMatches
  /\ EndTransfer /\ file_name' = "none" /\ reply' = "DONE"
  /\ promised' = promised \cup {<<file_name, file_crc>>}
  /\ UNCHANGED <<file_handle, files>>

\* Chunks go on being expected; the next one will be too long.
FileRefused(data) ==
  /\ expect_file_chunk /\ Fits(data) /\ Last(data)
  /\ Write(data) /\ CrcFails /\ Advance(data) /\ reply' = "ERROR"
  /\ written' = written \o data
  /\ UNCHANGED <<short, expect_file_chunk, file_expect_len, file_crc, file_name, file_handle,
                 files, promised>>

Chunks == SeqsTo(MaxChunk) \ {<<>>}

\* A chunk and a storage that works.
TakeChunk ==
  \E data \in Chunks :
    ChunkTooLong(data) \/ ChunkWritten(data) \/ FileDone(data) \/ FileRefused(data)

handle_file_chunk ==
  ChunkAborts \/ TakeChunk \/ \E data \in Chunks : ChunkNotWritten(data)

-----------------------------------------------------------------------------

parse_pkt ==
  \/ nack \/ ping \/ device_info
  \/ handle_fetch_file_req \/ handle_store_file_req \/ handle_file_chunk
  \/ handle_format_partition
  \/ \E p \in Paths : handle_delete_file(p) \/ handle_get_file_info(p)

\* Power is lost: what has not reached the storage is gone.
Restart ==
  /\ EndTransfer /\ file_name' = "none" /\ file_handle' = "null"
  /\ opened' = 0 /\ reply' = "none"
  /\ UNCHANGED storeVars

Next == parse_pkt \/ Restart

Spec == Init /\ [][Next]_vars

\* A host that goes on sending chunks while they are expected, to a storage that
\* works; other packets and restarts may come in between.
FairSpec == Spec /\ WF_vars(TakeChunk)

-----------------------------------------------------------------------------
(* Properties *)

\* A file the host was told is stored is on the storage as announced, through every
\* later transfer that breaks off, with its FILE left open, and every restart, until
\* the host stores over it or deletes it.
PromiseKept == \A f \in promised : f[1] \in files /\ disk[f[1]] = f[2]

\* While chunks are expected there is an open file to write them to: fwrite is handed
\* a null pointer by no order of aborts, refusals and announcements.
ChunkHasFile == expect_file_chunk => file_handle = "open" /\ file_name \in files /\ opened > 0

\* The offset given to the host is the end of what was written, for as long as no
\* write has failed, and never beyond what was announced.
OffsetIsFileEnd ==
  expect_file_chunk => /\ file_curr_offset <= file_expect_len
                       /\ short = 0 => file_curr_offset = Len(written)

\* While a file is received, no packet touches another one, nor what was promised.
TransferIsAlone ==
  [][expect_file_chunk => /\ files' = files /\ promised \subseteq promised'
                          /\ \A p \in Paths \ {file_name} : disk'[p] = disk[p]]_vars

\* A host that goes on sending chunks gets out of every transfer, also out of one
\* whose CRC was wrong and out of one of length 0: some chunk is too long.
TransferEnds == expect_file_chunk ~> ~expect_file_chunk

\* The transfer as the host sees it.
T == INSTANCE FileTransfer WITH
       store <- promised,
       incoming <- IF expect_file_chunk THEN <<file_name, file_crc>> ELSE <<>>

TransferImplemented == T!Spec

-----------------------------------------------------------------------------
(* The inductive invariant *)

\* The file being received is not vouched for.
NotYetPromised == expect_file_chunk => \A f \in promised : f[1] # file_name

CInv == TypeOK /\ PromiseKept /\ ChunkHasFile /\ OffsetIsFileEnd /\ NotYetPromised
=============================================================================
