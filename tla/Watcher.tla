------------------------------ MODULE Watcher -------------------------------
(***************************************************************************)
(* How the watcher of the log collector (collector/watcher.go) reads one   *)
(* path: the offset, the events fsnotify reports for the path, the event   *)
(* loop that reads on a write, and the goroutine that watches the path     *)
(* again when its file was moved away or removed.                          *)
(*                                                                         *)
(* The unit of a file is the piece one write appends.  fsnotify 1.8 on     *)
(* inotify: an event equal to the last in the queue is not queued again,   *)
(* but fsnotify may have fetched the last one already; a watch belongs to  *)
(* the file, not to the path, and ends when the file is renamed, at once,  *)
(* or freed, when the last process that has it open closes it.             *)
(***************************************************************************)
EXTENDS Naturals, Sequences

CONSTANTS
  MaxPiece,     \* Bound: the pieces 1 .. MaxPiece are written.
  MaxFile,      \* Bound: how many files there are at the path, one by one.
  MaxCut,       \* Bound: how often a file is truncated.
  MaxEvents,    \* Bound: equal events in a row that are all queued.
  Attempts,     \* How often handleRotation looks for the file (10).
  Missing       \* There is no file at the path.

ASSUME BoundAssumption == {MaxPiece, MaxFile, MaxCut, MaxEvents} \subseteq Nat
ASSUME AttemptsAssumption == Attempts \in Nat \ {0}

Piece == 1 .. MaxPiece
File == [ino : 1 .. MaxFile, data : Seq(Piece)]
ASSUME MissingAssumption == Missing \notin File

VARIABLES
  file,         \* What is at the path.
  files,        \* How many files there have been.
  next,         \* The piece written next.
  cuts,         \* How often a file has been truncated.
  watch,        \* The fsnotify watch: on the path's file, an unlinked one, none.
  events,       \* The events of the watch the loop has not received yet.
  added,        \* AddPath: not called or failed, between Seek and Add, done.
  offset,       \* fileState.offset.
  loop,         \* The event loop.
  fd,           \* The file handleWriteEvent has opened, as it was then.
  from,         \* currentOffset in handleWriteEvent.
  rewatch,      \* The goroutine of handleRotation; "refused": it ended with an error.
  tries,        \* Its attempts so far.
  stop,         \* Stop() has been called.
  got,          \* History: the pieces that went to the handler.
  told,         \* History: pieces the last write event stands for.
  start,        \* History: the offset AddPath began with.
  intact,       \* History: the file is the one AddPath opened, only longer.
  regrown,      \* History: truncated since the loop last looked.
  raced         \* History: a race the code does not notice has happened.

fsVars == <<file, files, next, cuts>>
addVars == <<added, start>>
loopVars == <<loop, fd, from>>
againVars == <<rewatch, tries>>
histVars == <<intact, regrown, raced>>
vars == <<fsVars, watch, events, addVars, offset, loopVars, againVars, stop, got, told,
          histVars>>

TypeOK ==
  /\ file \in File \cup {Missing} /\ fd \in File \cup {Missing}
  /\ files \in 0 .. MaxFile /\ next \in 1 .. MaxPiece + 1 /\ cuts \in 0 .. MaxCut
  /\ watch \in {"file", "unlinked", "none"}
  /\ events \in Seq({"write", "gone"})
  /\ added \in {"no", "seeked", "done"}
  /\ offset \in 0 .. MaxPiece /\ from \in 0 .. MaxPiece /\ start \in 0 .. MaxPiece
  /\ loop \in {"idle", "reading", "exited"}
  /\ rewatch \in {"none", "wait", "found", "refused"} /\ tries \in 0 .. Attempts - 1
  /\ got \in Seq(Piece) /\ told \subseteq Piece
  /\ {stop, intact, regrown, raced} \subseteq BOOLEAN

Init ==
  /\ file = Missing /\ files = 0 /\ next = 1 /\ cuts = 0
  /\ watch = "none" /\ events = <<>>
  /\ added = "no" /\ start = 0 /\ offset = 0
  /\ loop = "idle" /\ fd = Missing /\ from = 0
  /\ rewatch = "none" /\ tries = 0 /\ stop = FALSE
  /\ got = <<>> /\ told = {}
  /\ intact = FALSE /\ regrown = FALSE /\ raced = FALSE

Merged(e) == events # <<>> /\ events[Len(events)] = e
Notify(e) ==
  \/ Merged(e) /\ UNCHANGED events
  \/ (Merged(e) => Len(events) < MaxEvents) /\ events' = Append(events, e)
-----------------------------------------------------------------------------
(* Mistakes a change of this code could make, one per property; each takes *)
(* the place of the action it is named after in a mutation run.            *)

(* The offset of the old file is kept for the new one.                     *)
FindKeepsOffset ==
  /\ rewatch = "wait" /\ ~stop /\ file # Missing
  /\ rewatch' = "found" /\ regrown' = FALSE
  /\ UNCHANGED <<fsVars, watch, events, addVars, offset, loopVars, tries, stop, got, told,
                 intact, raced>>

(* The path is watched before the offset is reset.                         *)
FindWatchesFirst ==
  /\ rewatch = "wait" /\ ~stop /\ file # Missing
  /\ rewatch' = "found" /\ watch' = "file"
  /\ UNCHANGED <<fsVars, events, addVars, offset, loopVars, tries, stop, got, told, histVars>>

(* A truncation is not noticed.                                            *)
OpenFileUnchecked ==
  /\ loop = "idle" /\ events # <<>> /\ Head(events) = "write" /\ file # Missing
  /\ events' = Tail(events)
  /\ loop' = "reading" /\ fd' = file /\ from' = offset
  /\ raced' = (raced \/ (regrown /\ offset > 0 /\ Len(file.data) >= offset))
  /\ regrown' = FALSE
  /\ UNCHANGED <<fsVars, watch, addVars, offset, againVars, stop, got, told, intact>>

(* The last attempt is not made.                                           *)
FindTooLate ==
  /\ rewatch = "wait" /\ ~stop /\ file # Missing
  /\ IF tries + 1 = Attempts
       THEN rewatch' = "none" /\ UNCHANGED <<offset, regrown>>
       ELSE rewatch' = "found" /\ offset' = 0 /\ regrown' = FALSE
  /\ UNCHANGED <<fsVars, watch, events, addVars, loopVars, tries, stop, got, told, intact, raced>>
-----------------------------------------------------------------------------
(* The programs that write and rotate the log file.                        *)
CreateFile ==
  /\ file = Missing /\ files < MaxFile
  /\ files' = files + 1 /\ file' = [ino |-> files + 1, data |-> <<>>]
  /\ UNCHANGED <<next, cuts, watch, events, addVars, offset, loopVars, againVars, stop, got,
                 told, histVars>>

WritePiece ==
  /\ file # Missing /\ next \in Piece
  /\ file' = [file EXCEPT !.data = Append(@, next)] /\ next' = next + 1
  /\ IF watch = "file"
       THEN Notify("write") /\ told' = told \cup {next}
       ELSE UNCHANGED <<events, told>>
  /\ UNCHANGED <<files, cuts, watch, addVars, offset, loopVars, againVars, stop, got, histVars>>

(* logrotate with copytruncate.                                            *)
Truncate ==
  /\ file # Missing /\ cuts < MaxCut
  /\ cuts' = cuts + 1 /\ file' = [file EXCEPT !.data = <<>>]
  /\ IF watch = "file" THEN Notify("write") ELSE UNCHANGED events
  /\ intact' = FALSE /\ regrown' = TRUE /\ raced' = (raced \/ loop = "reading")
  /\ UNCHANGED <<files, next, watch, addVars, offset, loopVars, againVars, stop, got, told>>

(* logrotate moves the file away.                                          *)
MoveAway ==
  /\ file # Missing
  /\ file' = Missing /\ intact' = FALSE
  /\ IF watch = "file"
       THEN Notify("gone") /\ watch' = "none"
       ELSE UNCHANGED <<events, watch>>
  /\ UNCHANGED <<files, next, cuts, addVars, offset, loopVars, againVars, stop, got, told,
                 regrown, raced>>

(* Or it is deleted, while its writer has it open, writes to it, and       *)
(* closes it in the end.                                                   *)
Unlink ==
  /\ file # Missing
  /\ file' = Missing /\ intact' = FALSE
  /\ watch' = IF watch = "file" THEN "unlinked" ELSE watch
  /\ UNCHANGED <<files, next, cuts, events, addVars, offset, loopVars, againVars, stop, got,
                 told, regrown, raced>>

WriteUnlinked ==
  /\ watch = "unlinked" /\ Notify("write")
  /\ UNCHANGED <<fsVars, watch, addVars, offset, loopVars, againVars, stop, got, told, histVars>>

CloseUnlinked ==
  /\ watch = "unlinked" /\ Notify("gone") /\ watch' = "none"
  /\ UNCHANGED <<fsVars, addVars, offset, loopVars, againVars, stop, got, told, histVars>>
-----------------------------------------------------------------------------
(* AddPath opens the file and takes its end as the offset.                 *)
SeekEnd ==
  /\ added = "no" /\ ~stop /\ file # Missing
  /\ added' = "seeked" /\ offset' = Len(file.data) /\ start' = Len(file.data)
  /\ intact' = TRUE
  /\ UNCHANGED <<fsVars, watch, events, loopVars, againVars, stop, got, told, regrown, raced>>

(* It adds the path to fsnotify; the file may be another one, or shorter,  *)
(* by now.  Add fails when there is no file or no watcher any more, and    *)
(* may fail for reasons of the system (permissions, inotify's limits).     *)
AddWatch ==
  /\ added = "seeked"
  /\ \/ /\ file # Missing /\ ~stop
        /\ added' = "done" /\ watch' = "file"
        /\ raced' = (raced \/ ~intact) /\ regrown' = FALSE
     \/ added' = "no" /\ UNCHANGED <<watch, regrown, raced>>
  /\ UNCHANGED <<fsVars, events, start, offset, loopVars, againVars, stop, got, told, intact>>

(* Stop cancels the context and closes the fsnotify watcher.               *)
Stop ==
  /\ ~stop
  /\ stop' = TRUE /\ watch' = "none" /\ events' = <<>>
  /\ UNCHANGED <<fsVars, addVars, offset, loopVars, againVars, got, told, histVars>>

LoopExit ==
  /\ loop = "idle" /\ stop
  /\ loop' = "exited"
  /\ UNCHANGED <<fsVars, watch, events, addVars, offset, fd, from, againVars, stop, got, told,
                 histVars>>
-----------------------------------------------------------------------------
(* handleWriteEvent opens what is at the path now and compares its size    *)
(* with the offset.                                                        *)
OpenFile ==
  /\ loop = "idle" /\ events # <<>> /\ Head(events) = "write" /\ file # Missing
  /\ events' = Tail(events)
  /\ loop' = "reading" /\ fd' = file
  /\ from' = IF Len(file.data) < offset THEN 0 ELSE offset
  /\ raced' = (raced \/ (regrown /\ offset > 0 /\ Len(file.data) >= offset))
  /\ regrown' = FALSE
  /\ UNCHANGED <<fsVars, watch, addVars, offset, againVars, stop, got, told, intact>>

(* It returns when it cannot open, stat or seek the file: nobody looks at  *)
(* the file until the next event.                                          *)
OpenFails ==
  /\ loop = "idle" /\ events # <<>> /\ Head(events) = "write"
  /\ events' = Tail(events) /\ told' = {}
  /\ UNCHANGED <<fsVars, watch, addVars, offset, loopVars, againVars, stop, got, histVars>>

(* It scans to the end of the file, which may have grown since, and stores *)
(* where that is.  Past the end of a file cut meanwhile it reads nothing.  *)
ReadRest ==
  /\ loop = "reading"
  /\ loop' = "idle" /\ fd' = Missing /\ from' = 0
  /\ LET data == IF file # Missing /\ file.ino = fd.ino THEN file.data ELSE fd.data
     IN  /\ got' = got \o SubSeq(data, from + 1, Len(data))
         /\ offset' = IF Len(data) > from THEN Len(data) ELSE from
  /\ UNCHANGED <<fsVars, watch, events, addVars, againVars, stop, told, histVars>>

(* A rename or a removal: handleRotation starts its goroutine.             *)
HandleGone ==
  /\ loop = "idle" /\ events # <<>> /\ Head(events) = "gone"
  /\ events' = Tail(events)
  /\ rewatch' = "wait" /\ tries' = 0
  /\ UNCHANGED <<fsVars, watch, addVars, offset, loopVars, stop, got, told, histVars>>
-----------------------------------------------------------------------------
(* After 500 ms there is a file at the path: the offset is reset.          *)
Find ==
  /\ rewatch = "wait" /\ ~stop /\ file # Missing
  /\ rewatch' = "found" /\ offset' = 0 /\ regrown' = FALSE
  /\ UNCHANGED <<fsVars, watch, events, addVars, loopVars, tries, stop, got, told, intact, raced>>

(* There is none: wait for another 500 ms, or give up.                     *)
Look ==
  /\ rewatch = "wait" /\ ~stop /\ file = Missing
  /\ IF tries + 1 < Attempts
       THEN tries' = tries + 1 /\ UNCHANGED rewatch
       ELSE rewatch' = "none" /\ tries' = 0
  /\ UNCHANGED <<fsVars, watch, events, addVars, offset, loopVars, stop, got, told, histVars>>

(* The path is added to fsnotify again, once: if that fails, for whatever  *)
(* reason, the goroutine ends and nobody watches the path any more.        *)
Rewatch ==
  /\ rewatch = "found" /\ tries' = 0
  /\ \/ file # Missing /\ ~stop /\ rewatch' = "none" /\ watch' = "file"
     \/ rewatch' = "refused" /\ UNCHANGED watch
  /\ UNCHANGED <<fsVars, events, addVars, offset, loopVars, stop, got, told, histVars>>

(* The select sees w.ctx.Done().                                           *)
Abandon ==
  /\ rewatch = "wait" /\ stop
  /\ rewatch' = "none" /\ tries' = 0
  /\ UNCHANGED <<fsVars, watch, events, addVars, offset, loopVars, stop, got, told, histVars>>
-----------------------------------------------------------------------------
Writers ==
  \/ CreateFile \/ WritePiece \/ Truncate
  \/ MoveAway \/ Unlink \/ WriteUnlinked \/ CloseUnlinked

Loop == OpenFile \/ OpenFails \/ ReadRest \/ HandleGone \/ LoopExit

Rotation == Find \/ Look \/ Rewatch \/ Abandon

Next == Writers \/ SeekEnd \/ AddWatch \/ Stop \/ Loop \/ Rotation

Spec == Init /\ [][Next]_vars

(* The loop and the goroutine run when they can.  Nothing makes anybody    *)
(* write, rotate, create or stop.                                          *)
FairSpec == Spec /\ WF_vars(Loop) /\ WF_vars(Rotation)
-----------------------------------------------------------------------------
(* Of a file that only grows, the handler has got every piece once and in  *)
(* order, from the end AddPath found to the offset, whatever is written    *)
(* between Stat and the end of the scan (handleWriteEvent).                *)
GrowingFileIsRead ==
  intact =>
    /\ offset <= Len(file.data)
    /\ got = SubSeq(file.data, start + 1, offset)

(* What is before the offset has been read, also of a file that replaced   *)
(* another or was cut, unless it had grown past the old offset again or    *)
(* came between AddPath's Seek and Add (handleRotation's reset).           *)
NothingSkipped ==
  watch = "file" /\ loop = "idle" /\ ~intact /\ ~raced /\ ~regrown =>
    \A k \in 1 .. offset : k <= Len(file.data) => \E j \in 1 .. Len(got) : got[j] = file.data[k]

(* The goroutine that resets the offset runs only while nobody reads and   *)
(* nothing is left to be read: a stale offset cannot overwrite its reset,  *)
(* although handleWriteEvent holds no lock from its read to its store, and *)
(* there is only one of it.                                                *)
ResetIsAlone ==
  rewatch # "none" => loop # "reading" /\ events = <<>> /\ watch = "none"

(* A piece whose write was reported is read, unless its file is gone or    *)
(* cut, or could not be opened (Start, handleWriteEvent).                  *)
ToldIsRead ==
  \A p \in Piece :
    p \in told ~> \/ \E j \in 1 .. Len(got) : got[j] = p
                  \/ file = Missing \/ p \notin {file.data[k] : k \in 1 .. Len(file.data)}
                  \/ p \notin told \/ raced \/ stop

(* A file that is back before the last attempt is watched again, unless it *)
(* goes away in between or fsnotify refuses it: that is for good, there is *)
(* no further attempt (handleRotation).                                    *)
RotationIsFollowed ==
  rewatch = "wait" /\ file # Missing ~>
    watch = "file" \/ file = Missing \/ stop \/ rewatch = "refused"
=============================================================================
