----------------------------- MODULE LineReader -----------------------------
(***************************************************************************)
(* How the watcher of the log collector cuts a file that grows into lines  *)
(* (collector/watcher.go, handleWriteEvent, with the bufio.Scanner it      *)
(* reads through).  Watcher has everything else about a path; there the    *)
(* unit is a write, here it is a byte, so that a line may be written in    *)
(* several writes and be longer than the scanner's buffer.  What is        *)
(* handed over is known by its place in the file.                          *)
(***************************************************************************)
EXTENDS Naturals, Sequences

CONSTANTS
  Cap,          \* bufio.MaxScanTokenSize: the buffer's capacity (64 KB).
  MaxWrite,     \* Bound: bytes that one write appends.
  MaxLen        \* Bound: bytes of the file.

ASSUME BufferAssumption == Cap \in Nat \ {0}

VARIABLES
  content,      \* The file.
  start,        \* The offset AddPath began with.
  pending,      \* A write event is in the queue; equal events are merged.
  reading,      \* handleWriteEvent is running.
  offset,       \* fileState.offset.
  head, pos,    \* The buffer holds the bytes head + 1 .. pos of the file.
  handed,       \* The pieces the handler got, by their places.
  ends,         \* History: where a read met the end of the file.
  dropped       \* History: the bytes that were given up as too long a line.

fileVars == <<content, start>>
readerVars == <<content, start, pending, reading, offset, head, pos, handed, ends, dropped>>

Byte == {"text", "newline"}
Piece == [from : Nat \ {0}, to : Nat \ {0}]

ReaderTypeOK ==
  /\ content \in Seq(Byte) /\ start \in 0 .. Len(content)
  /\ pending \in BOOLEAN /\ reading \in BOOLEAN
  /\ offset \in start .. Len(content) /\ head \in offset .. Len(content)
  /\ pos \in head .. Len(content) /\ pos - head <= Cap
  /\ handed \in Seq(Piece)
  /\ ends \subseteq Nat /\ dropped \subseteq start + 1 .. offset

(* AddPath starts at the end of the file, which may be within a line.      *)
ReaderInit ==
  /\ content \in {<<>>, <<"text">>} /\ start = Len(content)
  /\ pending = FALSE /\ reading = FALSE
  /\ offset = start /\ head = start /\ pos = start
  /\ handed = <<>> /\ ends = {start} /\ dropped = {}

(* A program appends what its buffer holds, whole lines or not.            *)
Write ==
  /\ \E n \in 1 .. MaxWrite : \E bytes \in [1 .. n -> Byte] :
       /\ Len(content) + n <= MaxLen
       /\ content' = content \o bytes
  /\ pending' = TRUE
  /\ UNCHANGED <<start, reading, offset, head, pos, handed, ends, dropped>>
-----------------------------------------------------------------------------
(* handleWriteEvent opens the file and goes to the offset.                 *)
Begin ==
  /\ pending /\ ~reading
  /\ pending' = FALSE /\ reading' = TRUE
  /\ head' = offset /\ pos' = offset
  /\ UNCHANGED <<fileVars, offset, handed, ends, dropped>>

Text(p) == content[p] = "text"
NoNewline == \A p \in head + 1 .. pos : Text(p)

(* The scanner reads when its buffer has no newline and some room, as much *)
(* as is there and the buffer, which grows up to its capacity, can take.   *)
Read ==
  /\ reading /\ NoNewline /\ pos - head < Cap
  /\ \E n \in 1 .. Cap : /\ pos + n <= Len(content) /\ pos + n - head <= Cap
                         /\ pos' = pos + n
  /\ UNCHANGED <<fileVars, pending, reading, offset, head, handed, ends, dropped>>

(* The handler gets no empty lines.                                        *)
HandOver(from, to) ==
  handed' = IF from <= to THEN Append(handed, [from |-> from, to |-> to]) ELSE handed

(* A change could cut at the last newline of the buffer, or read one line  *)
(* only of what an event is about.                                         *)
TokenAtLast ==
  /\ reading
  /\ \E k \in head + 1 .. pos :
       /\ ~Text(k) /\ \A p \in k + 1 .. pos : Text(p)
       /\ HandOver(head + 1, k - 1) /\ head' = k
  /\ UNCHANGED <<fileVars, pending, reading, offset, pos, ends, dropped>>

TokenOnce ==
  /\ reading
  /\ \E k \in head + 1 .. pos :
       /\ ~Text(k) /\ \A p \in head + 1 .. k - 1 : Text(p)
       /\ HandOver(head + 1, k - 1) /\ head' = k /\ pos' = k /\ offset' = k
  /\ reading' = FALSE
  /\ UNCHANGED <<fileVars, pending, ends, dropped>>

(* Scan returns the bytes before the first newline of the buffer.          *)
Token ==
  /\ reading
  /\ \E k \in head + 1 .. pos :
       /\ ~Text(k) /\ \A p \in head + 1 .. k - 1 : Text(p)
       /\ HandOver(head + 1, k - 1) /\ head' = k
  /\ UNCHANGED <<fileVars, pending, reading, offset, pos, ends, dropped>>

(* The new offset is how far the file has been read, handed over or not.   *)
Done ==
  /\ reading' = FALSE /\ offset' = pos /\ head' = pos
  /\ UNCHANGED <<fileVars, pending, pos>>

(* A change could go back to the last newline after it has handed over     *)
(* what follows, or leave that to the next read, which goes on behind it.  *)
EofAgain ==
  /\ reading /\ NoNewline /\ pos - head < Cap /\ pos = Len(content)
  /\ HandOver(head + 1, pos)
  /\ ends' = ends \cup {pos}
  /\ reading' = FALSE /\ offset' = head /\ pos' = head
  /\ UNCHANGED <<fileVars, pending, head, dropped>>

EofForgets ==
  /\ reading /\ NoNewline /\ pos - head < Cap /\ pos = Len(content)
  /\ ends' = ends \cup {pos}
  /\ Done /\ UNCHANGED <<handed, dropped>>

(* At the end of the file Scan returns what is left, with or without a     *)
(* newline, and then no more.                                              *)
Eof ==
  /\ reading /\ NoNewline /\ pos - head < Cap /\ pos = Len(content)
  /\ HandOver(head + 1, pos)
  /\ ends' = ends \cup {pos}
  /\ Done /\ UNCHANGED dropped

(* A full buffer without a newline ends the scan: its bytes are given up,  *)
(* and what follows waits for the next event.                              *)
TooLong ==
  /\ reading /\ NoNewline /\ pos - head = Cap
  /\ dropped' = dropped \cup head + 1 .. pos
  /\ Done /\ UNCHANGED <<handed, ends>>

ReaderNext == Write \/ Begin \/ Read \/ Token \/ Eof \/ TooLong

(* The event loop goes on.  Nothing makes the programs write.              *)
ReaderFairness ==
  /\ WF_readerVars(Begin) /\ WF_readerVars(Read) /\ WF_readerVars(Token)
  /\ WF_readerVars(Eof) /\ WF_readerVars(TooLong)

ReaderSpec == ReaderInit /\ [][ReaderNext]_readerVars /\ ReaderFairness
-----------------------------------------------------------------------------
(* No byte is handed over twice, and the pieces come in the order of the   *)
(* file, across reads that begin wherever the last one ended.              *)
OnceInOrder ==
  \A i, j \in 1 .. Len(handed) : i < j => handed[i].to < handed[j].from

(* Every byte of a line up to the offset has been handed over, or belongs  *)
(* to as many bytes without a newline as fill the scanner's buffer.        *)
Fills(q) == \A p \in q + 1 .. q + Cap : p <= Len(content) /\ Text(p)
NothingLost ==
  \A p \in start + 1 .. offset :
    \/ ~Text(p)
    \/ \E i \in 1 .. Len(handed) : handed[i].from <= p /\ p <= handed[i].to
    \/ \E q \in start .. p - 1 : p <= q + Cap /\ Fills(q)

(* A piece is of one line, however many are read at once, and it is the    *)
(* whole of it unless a read met the end of the file within the line, or   *)
(* the line is too long: "LineHandler is invoked for every new line read   *)
(* from a watched file" (watcher.go:15) holds but for these two cases.     *)
CutOnlyAtEnds ==
  \A i \in 1 .. Len(handed) :
    LET from == handed[i].from
        to == handed[i].to
    IN  /\ \A p \in from .. to : Text(p)
        /\ from - 1 \in ends \cup dropped \/ ~Text(from - 1)
        /\ to \in ends \/ ~Text(to + 1)

(* What has been written is read, unless a line was too long for the       *)
(* buffer: then the rest of the file waits for another write.              *)
AllIsRead ==
  (offset < Len(content)) ~> (offset = Len(content) \/ dropped # {})
=============================================================================
