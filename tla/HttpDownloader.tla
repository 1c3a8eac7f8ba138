--------------------------- MODULE HttpDownloader ---------------------------
(***************************************************************************)
(* http_downloader as its callers in bootstrap_fsm use it: an object is    *)
(* made, init opens the file, request fetches it, and the object goes.     *)
(* The HTTP client is external: it calls the event handler from the        *)
(* caller's own task and does not look at what the handler returns.  It     *)
(* follows redirects by itself, and every response on the way raises the   *)
(* same events.                                                            *)
(***************************************************************************)
EXTENDS Naturals, Sequences

CONSTANTS
  Chunks,   \* what ON_DATA may bring: the length of each
  MaxBody,  \* bound on the number of chunks of a response
  MaxHops,  \* bound on the number of redirects
  max_len   \* what init was given

ASSUME DownloadAssumption ==
  /\ Chunks \subseteq Nat \ {0} /\ max_len \in Nat \ {0}
  /\ MaxBody \in Nat /\ MaxHops \in Nat

VARIABLES
  at,        \* where the caller is
  fp,        \* null, open, or pointing to a file that was closed
  bits,      \* evt_group
  curr_pos,  \* bytes taken
  body,      \* the response that is coming
  next,      \* chunks handed to the handler
  conn,      \* the connection is open
  hops,      \* redirects followed
  buffered,  \* chunks written to fp and not flushed, parts of chunks among them
  disk,      \* chunks in the file
  closes,    \* how often this file has been closed
  ret,       \* what init or request returned
  refused,   \* the handler has turned a chunk down
  full,      \* the storage has lost what was flushed
  stray      \* bytes that failed writes have left in the file

vars == <<at, fp, bits, curr_pos, body, next, conn, hops, buffered, disk, closes, ret, refused,
          full, stray>>

transferVars == <<body, next, conn, hops>>
fileVars     == <<fp, buffered, disk, closes, full, stray>>

Bodies == UNION {[1 .. n -> Chunks] : n \in 0 .. MaxBody}

TypeOK ==
  /\ at \in {"idle", "ready", "perform", "wait", "destroy", "cleanup"}
  /\ fp \in {"null", "open", "closed"}
  /\ bits \subseteq {"ERROR", "DATA_AVAIL", "DONE"}
  /\ curr_pos \in 0 .. max_len
  /\ body \in Bodies /\ next \in 0 .. Len(body) /\ conn \in BOOLEAN /\ hops \in 0 .. MaxHops
  /\ buffered \in Seq(Nat \ {0}) /\ disk \in Seq(Nat \ {0}) /\ stray \in Nat
  /\ closes \in 0 .. 2
  /\ ret \in {"none", "OK", "FAIL", "TIMEOUT"}
  /\ refused \in BOOLEAN /\ full \in BOOLEAN

Init ==
  /\ at = "idle" /\ fp = "null" /\ bits = {} /\ curr_pos = 0
  /\ body = <<>> /\ next = 0 /\ conn = FALSE /\ hops = 0
  /\ buffered = <<>> /\ disk = <<>> /\ closes = 0
  /\ ret = "none" /\ refused = FALSE /\ full = FALSE /\ stray = 0

-----------------------------------------------------------------------------
(* The object is made; init *)

Fresh ==
  /\ bits' = {} /\ curr_pos' = 0 /\ next' = 0 /\ conn' = FALSE /\ hops' = 0
  /\ refused' = FALSE /\ full' = FALSE /\ closes' = 0 /\ buffered' = <<>>

\* The file is emptied before anything has been asked for.
init ==
  /\ at = "idle" /\ at' = "ready"
  /\ Fresh /\ body' \in Bodies
  /\ fp' = "open" /\ disk' = <<>> /\ stray' = 0 /\ ret' = "none"

\* No event group, no client, or no file.
InitFails ==
  /\ at = "idle" /\ at' = "destroy"
  /\ Fresh /\ ret' = "FAIL"
  /\ UNCHANGED <<fp, body, disk, stray>>

-----------------------------------------------------------------------------
(* request: esp_http_client_perform and the events it raises *)

DoneLeft(b) == b \cup {"ERROR"}   \* slip: what was said before is left standing

\* The bits an error leaves.
Failed(b) == (b \ {"DATA_AVAIL", "DONE"}) \cup {"ERROR"}

Connect ==
  /\ at = "ready" /\ at' = "perform" /\ conn' = TRUE
  /\ UNCHANGED <<bits, curr_pos, body, next, hops, ret, refused, fileVars>>

\* HTTP_EVENT_ERROR; perform says so.
ConnectFails ==
  /\ at = "ready" /\ at' = "destroy" /\ ret' = "FAIL"
  /\ bits' = Failed(bits)
  /\ UNCHANGED <<curr_pos, transferVars, refused, fileVars>>

Chunk == body[next + 1]

\* slip: what has been written already is not counted
ChunkFits == Chunk <= max_len
Fits == curr_pos + Chunk <= max_len

\* ON_DATA turns the chunk down: the error takes back what was said before.
Refuse ==
  /\ at = "perform" /\ next < Len(body)
  /\ next' = next + 1
  /\ bits' = Failed(bits) /\ refused' = TRUE
  /\ UNCHANGED <<at, curr_pos, body, conn, hops, ret>>

\* The chunk is more than max_len allows, or there is no file any more.
DataRefused ==
  /\ Refuse
  /\ Fits => fp = "null"
  /\ UNCHANGED fileVars

\* fwrite failed: a part of the chunk may be in the file, and is not counted.
DataCut ==
  /\ Refuse
  /\ Fits /\ fp = "open"
  /\ \E n \in 0 .. (Chunk - 1) :
       /\ buffered' = IF n = 0 THEN buffered ELSE Append(buffered, n)
       /\ stray' = stray + n
  /\ UNCHANGED <<fp, disk, closes, full>>

\* slip: position and length are those of the chunk
PositionLost ==
  /\ at = "perform" /\ next < Len(body) /\ Fits /\ fp = "open"
  /\ next' = next + 1
  /\ buffered' = Append(buffered, Chunk) /\ curr_pos' = Chunk
  /\ bits' = (bits \ {"ERROR"}) \cup {"DATA_AVAIL"}
  /\ UNCHANGED <<at, body, conn, hops, ret, refused, fp, disk, closes, full, stray>>

DataWritten ==
  /\ at = "perform" /\ next < Len(body) /\ Fits /\ fp = "open"
  /\ next' = next + 1
  /\ buffered' = Append(buffered, Chunk) /\ curr_pos' = curr_pos + Chunk
  /\ bits' = (bits \ {"ERROR"}) \cup {"DATA_AVAIL"}
  /\ UNCHANGED <<at, body, conn, hops, ret, refused, fp, disk, closes, full, stray>>

\* slip: the pointer to a closed file is kept
PointerKept(pointer) ==
  /\ fp' = "closed" /\ closes' = closes + 1 /\ buffered' = <<>>
  /\ \/ disk' = disk \o buffered /\ UNCHANGED full
     \/ buffered # <<>> /\ full' = TRUE /\ UNCHANGED disk
  /\ UNCHANGED stray

\* slip: done is said, and the file left to the destructor
LeftToDestructor(pointer) == UNCHANGED fileVars

\* fflush and fclose, whose results nobody looks at.
CloseFile(pointer) ==
  /\ fp' = pointer /\ closes' = closes + 1 /\ buffered' = <<>>
  /\ \/ disk' = disk \o buffered /\ UNCHANGED full
     \/ buffered # <<>> /\ full' = TRUE /\ UNCHANGED disk
  /\ UNCHANGED stray

Finished(b) == (b \ {"ERROR"}) \cup {"DONE"}

\* ON_FINISH and HTTP_EVENT_DISCONNECTED are no-ops once the file is closed.
OnFinish ==
  IF fp = "null" THEN UNCHANGED <<bits, fileVars>>
  ELSE CloseFile("null") /\ bits' = Finished(bits)

Disconnected ==
  IF fp = "null" THEN UNCHANGED fileVars ELSE CloseFile("null")

\* A response that redirects ends as any other.  If it leads to another host, the
\* client closes the connection before that, and its ON_FINISH finds no file.
Redirect ==
  /\ at = "perform" /\ hops < MaxHops
  /\ \/ next = Len(body) /\ OnFinish
     \/ Disconnected /\ UNCHANGED bits
  /\ hops' = hops + 1 /\ next' = 0 /\ body' \in Bodies
  /\ UNCHANGED <<at, curr_pos, conn, ret, refused>>

\* After the last chunk of the last response perform returns ESP_OK.
Finish ==
  /\ at = "perform" /\ next = Len(body) /\ at' = "wait"
  /\ OnFinish
  /\ conn' \in BOOLEAN
  /\ UNCHANGED <<curr_pos, body, next, hops, ret, refused>>

\* The transfer breaks, with or without HTTP_EVENT_ERROR, and perform says so.
Breaks ==
  /\ at = "perform" /\ at' = "destroy" /\ ret' = "FAIL"
  /\ bits' \in {bits, Failed(bits)}
  /\ UNCHANGED <<curr_pos, transferVars, refused, fileVars>>

\* The client closes the connection itself before it gives up.
BreaksAndCloses ==
  /\ at = "perform" /\ at' = "destroy" /\ ret' = "FAIL"
  /\ bits' \in {bits, Failed(bits)} /\ conn' = FALSE
  /\ Disconnected
  /\ UNCHANGED <<curr_pos, body, next, hops, refused>>

\* request waits for DONE or ERROR, for so long, and takes both away.
WaitBits ==
  /\ at = "wait" /\ at' = "destroy"
  /\ ret' = IF "DONE" \in bits THEN "OK" ELSE "TIMEOUT"
  /\ bits' = bits \ {"DONE", "ERROR"}
  /\ UNCHANGED <<curr_pos, transferVars, refused, fileVars>>

-----------------------------------------------------------------------------
(* The destructor *)

\* slip: the file is taken to have been closed by the last event
FileForgotten ==
  /\ at = "destroy" /\ at' = "cleanup" /\ fp' = "null"
  /\ UNCHANGED <<bits, curr_pos, transferVars, ret, refused, buffered, disk, closes, full, stray>>

\* fp keeps pointing to the file it closes.
DestroyFile ==
  /\ at = "destroy" /\ at' = "cleanup"
  /\ IF fp = "null" THEN UNCHANGED fileVars ELSE CloseFile("closed")
  /\ UNCHANGED <<bits, curr_pos, transferVars, ret, refused>>

\* esp_http_client_close on an open connection raises the event once more.
DestroyClient ==
  /\ at = "cleanup" /\ at' = "idle"
  /\ conn' = FALSE
  /\ IF conn THEN Disconnected
     ELSE fp' = "null" /\ UNCHANGED <<buffered, disk, closes, full, stray>>
  /\ UNCHANGED <<bits, curr_pos, body, next, hops, ret, refused>>

-----------------------------------------------------------------------------

Client == Connect \/ ConnectFails \/ DataRefused \/ DataCut \/ DataWritten \/ Redirect
            \/ Finish \/ Breaks \/ BreaksAndCloses

Work == Client \/ WaitBits \/ DestroyFile \/ DestroyClient

Next == init \/ InitFails \/ Work

Spec == Init /\ [][Next]_vars

-----------------------------------------------------------------------------
(* Properties *)

\* When request has returned ESP_OK for a response that was not redirected, and
\* neither was a chunk turned down nor the storage full, the file holds the response,
\* all of it and in order, and is closed: nothing is left to be flushed when the
\* caller goes on to use it.
OkIsOnDisk ==
  ret = "OK" /\ hops = 0 /\ ~refused /\ ~full => disk = body /\ fp = "null"

\* However a download ends, the object's end leaves nothing unflushed behind it.
NothingUnflushed == at = "idle" => buffered = <<>>

\* After a download that went well the file has been closed, and once: neither the
\* destructor nor the event it raises does so again ("Make it no-op",
\* http_downloader.cpp:148).  After one that broke, both do.
GoodIsClosedOnce == at = "idle" /\ ret = "OK" => closes = 1

\* How much the chunks of s are together.
Total(s) ==
  LET sum[n \in 0 .. Len(s)] == IF n = 0 THEN 0 ELSE sum[n - 1] + s[n] IN sum[Len(s)]

\* No download leaves more than max_len behind, but for what failed writes have put
\* there: those bytes are in the file and not in the position that is compared.
WithinMax == Total(disk) <= max_len + stray

\* A redirected download is not taken for a stored one: the end of the first response
\* has closed the file and may have said so ("DONE"), but the first chunk of what it
\* led to finds no file, and that error takes the word back.  Only an empty response
\* gets through, with the redirect's own contents in the file.
RedirectIsNotStored == ret = "OK" /\ hops > 0 => body = <<>>

\* "Exceeding max length!" and "Something wrong when saving file"
\* (http_downloader.cpp:101, 116) are errors: request does not succeed after one.
RefusedIsError == ret = "OK" => ~refused

-----------------------------------------------------------------------------
(* The inductive invariant *)

\* The file holds the response, unless a chunk was turned down or lost.
Stored == ~refused /\ ~full => disk = body

Good == fp = "null" /\ closes = 1 /\ (hops = 0 => Stored) /\ (hops > 0 => body = <<>>)

\* While the first response comes, the file is open and has the chunks taken so far in
\* its buffer; when one that was redirected to comes, the file is closed.
TransferInv ==
  /\ at = "ready" => next = 0 /\ ~refused /\ hops = 0
  /\ at \in {"ready", "perform"} /\ hops = 0 =>
       /\ fp = "open" /\ closes = 0 /\ disk = <<>> /\ ~full
       /\ ~refused => buffered = SubSeq(body, 1, next)
  /\ at = "perform" /\ hops > 0 =>
       /\ fp = "null" /\ closes = 1
       /\ "DONE" \in bits => next = 0

\* Afterwards, fp says whether the file is still to be closed.
ClosingInv ==
  /\ at = "wait" => fp = "null" /\ closes = 1 /\ ("DONE" \in bits => Good)
  /\ at = "destroy" => (fp = "open" => closes = 0) /\ (fp # "open" => fp = "null" /\ closes <= 1)
  /\ at \in {"cleanup", "idle"} => fp # "open"
  /\ at = "cleanup" => closes <= 1
  /\ at = "idle" => fp = "null"
  /\ ret = "OK" => at \in {"destroy", "cleanup", "idle"} /\ Good
  /\ fp # "open" => buffered = <<>>

DInv == TypeOK /\ TransferInv /\ ClosingInv

\* Everything written is counted, or stray; the buffer and the file together stay
\* below max_len but for that.
SumInv ==
  /\ Total(disk) + Total(buffered) <= max_len + stray
  /\ at \in {"ready", "perform"} /\ hops = 0 => Total(buffered) = curr_pos + stray
=============================================================================
