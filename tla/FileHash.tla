------------------------------ MODULE FileHash ------------------------------
(***************************************************************************)
(* fw_asset_manager's check of a file on the device against the hash that  *)
(* a command brings: check_fw_bin_hash, check_algo_bin_hash (the same but  *)
(* for the path) and get_sha256_from_file.                                 *)
(*                                                                         *)
(* A hash is stood for by what was hashed: two are equal if and only if    *)
(* their contents are.                                                     *)
(***************************************************************************)
EXTENDS Naturals, Sequences

CONSTANTS
  Byte,     \* contents of a file, one after the other
  MaxLen,   \* bound on the length of a file
  Block     \* length of blk

ASSUME HashAssumption == Block \in Nat \ {0} /\ MaxLen \in Nat

VARIABLES
  content,   \* the file: its bytes
  expected,  \* what was hashed for sha_expected
  at,        \* where the check is
  fpos,      \* how far fp has been read
  ctx,       \* what has gone into the SHA-256 context
  answer,    \* what the last check returned
  faulty     \* the file was missing, or the storage or the digest failed in it

vars == <<content, expected, at, fpos, ctx, answer, faulty>>

Bytes == UNION {[1 .. n -> Byte] : n \in 0 .. MaxLen}

TypeOK ==
  /\ content \in Bytes /\ expected \in Bytes
  /\ at \in {"idle", "open", "read", "finish"}
  /\ fpos \in 0 .. Len(content)
  /\ ctx \in Seq(Byte)
  /\ answer \in {"none", "yes", "no"}
  /\ faulty \in BOOLEAN

Init ==
  /\ content \in Bytes /\ expected = <<>>
  /\ at = "idle" /\ fpos = 0 /\ ctx = <<>>
  /\ answer = "none" /\ faulty = FALSE

-----------------------------------------------------------------------------

\* A download or the host replaces the file.
Replace ==
  /\ at = "idle" /\ content' \in Bytes
  /\ answer' = "none"
  /\ UNCHANGED <<expected, at, fpos, ctx, faulty>>

\* The callers give the 32 bytes that the check asks for.
check_bin_hash ==
  /\ at = "idle" /\ at' = "open"
  /\ expected' \in Bytes
  /\ answer' = "none" /\ faulty' = FALSE
  /\ UNCHANGED <<content, fpos, ctx>>

Answer(yes) ==
  /\ at' = "idle" /\ answer' = IF yes THEN "yes" ELSE "no"
  /\ fpos' = 0 /\ ctx' = <<>>
  /\ UNCHANGED <<content, expected>>

OpenFails == at = "open" /\ Answer(FALSE) /\ faulty' = TRUE

Open ==
  /\ at = "open" /\ at' = "read"
  /\ UNCHANGED <<content, expected, fpos, ctx, answer, faulty>>

\* slip: a whole block is always asked for
BlockAlways == Block

\* pos stays 0: what is asked for does not shrink towards the end of the file.
read_len == IF Len(content) < Block THEN Len(content) ELSE Block

\* fread is asked for one record of read_len.
Readable == fpos + read_len <= Len(content)

ReadBlock ==
  /\ at = "read" /\ content # <<>> /\ Readable
  /\ fpos' = fpos + read_len
  /\ ctx' = ctx \o SubSeq(content, fpos + 1, fpos + read_len)
  /\ UNCHANGED <<content, expected, at, answer, faulty>>

\* slip: the loop goes on for as long as pos < file_len
NoBreak ==
  /\ at = "read" /\ (content # <<>> => ~Readable)
  /\ at' = IF content = <<>> THEN "finish" ELSE at
  /\ fpos' = Len(content)
  /\ UNCHANGED <<content, expected, ctx, answer, faulty>>

\* slip: the position moves on as if the record had been read
PastTheEnd ==
  /\ at = "read" /\ (content # <<>> => ~Readable)
  /\ at' = "finish" /\ fpos' = fpos + read_len
  /\ UNCHANGED <<content, expected, ctx, answer, faulty>>

\* pos stays below file_len: the loop is left by the read that fails for lack of a
\* record, and takes what is left of the file with it.  An empty file has no turn.
ReadFails ==
  /\ at = "read" /\ (content # <<>> => ~Readable)
  /\ at' = "finish" /\ fpos' = Len(content)
  /\ UNCHANGED <<content, expected, ctx, answer, faulty>>

\* The same way out, when the storage fails.
StorageFails ==
  /\ at = "read" /\ content # <<>>
  /\ at' = "finish" /\ faulty' = TRUE
  /\ UNCHANGED <<content, expected, fpos, ctx, answer>>

\* SHA-256 of a block, or its end, may fail in the driver of the peripheral.
DigestFails ==
  /\ at = "finish" \/ (at = "read" /\ content # <<>> /\ Readable)
  /\ Answer(FALSE) /\ faulty' = TRUE

Compare == at = "finish" /\ Answer(ctx = expected) /\ UNCHANGED faulty

Work == OpenFails \/ Open \/ ReadBlock \/ ReadFails \/ StorageFails \/ DigestFails \/ Compare

Next == Replace \/ check_bin_hash \/ Work

Spec == Init /\ [][Next]_vars

\* The task that checks is not starved, and its calls of the file system return.
\* Any of them may fail, none has to.
Steps == Open \/ ReadBlock \/ ReadFails \/ Compare

FairSpec == Spec /\ WF_vars(Steps)

-----------------------------------------------------------------------------
(* Properties *)

Judged == answer # "none" /\ ~faulty

\* What a check takes of a file: its whole blocks, or all of a file shorter than one.
Taken(c) == IF Len(c) < Block THEN c ELSE SubSeq(c, 1, Block * (Len(c) \div Block))

\* The files of less than a block or of whole blocks.
Even(c) == Len(c) < Block \/ \E k \in 0 .. Len(c) : Len(c) = k * Block

\* Of these files a check in which nothing fails tells the right one from all others,
\* although the loop never advances its position and ends by a read that fails.
EvenFilesAreJudged == Judged /\ Even(content) => (answer = "yes") = (expected = content)

\* The right one of any other length it refuses.
OddFilesAreRefused == Judged /\ ~Even(content) /\ expected = content => answer = "no"

\* What it says of all files: "yes" exactly if what it takes of the file is what was
\* hashed.  A longer file with these whole blocks and a rest of less than a block is
\* taken for the right one, too.
FilesAreJudged == Judged => (answer = "yes") = (expected = Taken(content))

\* A check comes to an end: the loop's condition never turns false once it was true.
CheckReturns == at # "idle" ~> at = "idle"

\* The steps of a check still to come, at most.
Left == CASE at = "idle" -> 0 [] at = "finish" -> 1
          [] at = "read" -> 2 + (Len(content) - fpos)
          [] at = "open" -> 3 + Len(content)

\* Whatever succeeds or fails, each step of a check brings its end closer: what the
\* loop's own condition does not do, the file's position does.
CheckDescends == [][at # "idle" => Left' < Left]_vars

-----------------------------------------------------------------------------
(* What the source says of the program and the code does not keep. *)

\* "@return true if the record SHA256 is the same as the one provided"
\* (fw_asset_manager.hpp:52): the check, when nothing fails in it, says "yes" of the file
\* that was hashed and of no other.
TrueIfSame == Judged => (answer = "yes") = (expected = content)

-----------------------------------------------------------------------------
(* The inductive invariant *)

\* What has been hashed is what has been read, a whole number of records.
HashedInv ==
  /\ at \in {"idle", "open"} => fpos = 0 /\ ctx = <<>>
  /\ at \in {"idle", "open", "read"} =>
       IF Len(content) < Block THEN fpos \in {0, Len(content)}
       ELSE \E k \in 0 .. Len(content) : fpos = k * Block
  /\ at = "read" => ctx = SubSeq(content, 1, fpos)

DoneInv == at = "finish" /\ ~faulty => ctx = Taken(content)

HInv == TypeOK /\ HashedInv /\ DoneInv /\ FilesAreJudged
=============================================================================
