---------------------------- MODULE WatcherProofs ---------------------------
(***************************************************************************)
(* What holds of Watcher for every number of files, pieces, truncations    *)
(* and queued events and every number of attempts.                         *)
(***************************************************************************)
EXTENDS Watcher, SequenceTheorems, TLAPS

-----------------------------------------------------------------------------
Event == {"write", "gone"}

(* Sizes: every offset lies within what has been written.                  *)
FilesOK ==
  /\ file \in File \cup {Missing} /\ fd \in File \cup {Missing}
  /\ files \in 0 .. MaxFile /\ next \in 1 .. MaxPiece + 1 /\ cuts \in 0 .. MaxCut
  /\ file # Missing => Len(file.data) < next
  /\ fd # Missing => Len(fd.data) < next
PlacesOK ==
  /\ offset \in Nat /\ from \in Nat /\ start \in Nat
  /\ offset < next /\ from < next /\ start < next
  /\ loop = "reading" => fd # Missing
StatesOK ==
  /\ watch \in {"file", "unlinked", "none"} /\ events \in Seq(Event)
  /\ added \in {"no", "seeked", "done"} /\ loop \in {"idle", "reading", "exited"}
  /\ rewatch \in {"none", "wait", "found", "refused"} /\ tries \in 0 .. Attempts - 1
  /\ got \in Seq(Piece) /\ told \subseteq Piece
  /\ stop \in BOOLEAN /\ intact \in BOOLEAN /\ regrown \in BOOLEAN /\ raced \in BOOLEAN

TypeInv == FilesOK /\ PlacesOK /\ StatesOK

Bounds == /\ MaxPiece \in Nat /\ MaxFile \in Nat /\ MaxCut \in Nat /\ MaxEvents \in Nat
          /\ Attempts \in Nat \ {0}
LEMMA BoundsHold == Bounds
  BY BoundAssumption, AttemptsAssumption DEF Bounds

LEMMA TypeInvImplies == TypeInv => TypeOK
  <1>1. TypeInv => \A n \in {offset, from, start} : n \in 0 .. MaxPiece
    BY BoundsHold DEF TypeInv, FilesOK, PlacesOK, Bounds
  <1> QED BY <1>1 DEF TypeInv, FilesOK, StatesOK, TypeOK, Event

LEMMA TypeInvInit == Init => TypeInv
  <1> SUFFICES ASSUME Init PROVE TypeInv
    OBVIOUS
  <1>1. FilesOK
    BY BoundsHold DEF Init, FilesOK, Bounds
  <1>2. PlacesOK
    BY DEF Init, PlacesOK
  <1>3. /\ watch \in {"file", "unlinked", "none"} /\ events \in Seq(Event)
        /\ added \in {"no", "seeked", "done"} /\ loop \in {"idle", "reading", "exited"}
        /\ rewatch \in {"none", "wait", "found", "refused"} /\ tries \in 0 .. Attempts - 1
        /\ got \in Seq(Piece) /\ told \subseteq Piece
    BY BoundsHold DEF Init, Bounds
  <1>4. StatesOK
    BY <1>3 DEF Init, StatesOK
  <1> QED BY <1>1, <1>2, <1>4 DEF TypeInv

LEMMA NotifyType ==
  ASSUME events \in Seq(Event), NEW e \in Event, Notify(e)
  PROVE  /\ events' \in Seq(Event)
         /\ \/ events' = events /\ Len(events) \in Nat \ {0} /\ events[Len(events)] = e
            \/ events' = Append(events, e)
  BY DEF Notify, Merged

LEMMA FileData ==
  ASSUME TypeInv
  PROVE  /\ file # Missing => file \in File /\ file.data \in Seq(Piece) /\ Len(file.data) \in Nat
         /\ loop = "reading" => fd \in File /\ fd.data \in Seq(Piece) /\ Len(fd.data) \in Nat
  <1>1. \A f \in File : f.data \in Seq(Piece) /\ Len(f.data) \in Nat
    BY DEF File
  <1> QED BY <1>1 DEF TypeInv, FilesOK, PlacesOK

(* What the loop reads: the file that it has opened, as it is by then.     *)
Data == IF file # Missing /\ file.ino = fd.ino THEN file.data ELSE fd.data

LEMMA DataType ==
  ASSUME TypeInv, loop = "reading"
  PROVE  Data \in Seq(Piece) /\ Len(Data) \in Nat /\ Len(Data) < next
  BY FileData DEF Data, TypeInv, FilesOK, PlacesOK

LEMMA ReadType ==
  ASSUME TypeInv, ReadRest
  PROVE  TypeInv'
  <1>1. Data \in Seq(Piece) /\ Len(Data) \in Nat /\ Len(Data) < next
    BY DataType DEF ReadRest
  <1>2. /\ got' = got \o SubSeq(Data, from + 1, Len(Data))
        /\ offset' = IF Len(Data) > from THEN Len(Data) ELSE from
    BY DEF ReadRest, Data
  <1> HIDE DEF Data
  <1>3. from + 1 \in Nat /\ from + 1 >= 1
    BY DEF TypeInv, PlacesOK
  <1>4. SubSeq(Data, from + 1, Len(Data)) \in Seq(Piece)
    BY <1>1, <1>3, SubSeqProperties
  <1>5. got' \in Seq(Piece)
    BY <1>2, <1>4 DEF TypeInv, StatesOK
  <1>6. FilesOK'
    BY DEF ReadRest, fsVars, TypeInv, FilesOK
  <1>7. PlacesOK'
    BY <1>1, <1>2, BoundsHold
       DEF ReadRest, fsVars, addVars, TypeInv, PlacesOK, FilesOK, Bounds
  <1>8. StatesOK'
    BY <1>5 DEF ReadRest, addVars, againVars, histVars, TypeInv, StatesOK
  <1> QED BY <1>6, <1>7, <1>8 DEF TypeInv

LEMMA WritersType == ASSUME TypeInv, Writers PROVE TypeInv'
  <1> USE DEF TypeInv
  <1>0. Bounds /\ next \in Nat
    BY BoundsHold DEF FilesOK, Bounds
  <1>1. CASE CreateFile
    <2>1. [ino |-> files + 1, data |-> <<>>] \in File
      BY <1>0, <1>1 DEF CreateFile, File, FilesOK, Bounds
    <2>2. files + 1 \in 0 .. MaxFile
      BY <1>0, <1>1 DEF CreateFile, FilesOK, Bounds
    <2>3. PICK f \in File : f = file' /\ f.data = <<>>
      BY <1>1, <2>1 DEF CreateFile
    <2>4. FilesOK'
      BY <1>0, <1>1, <2>2, <2>3 DEF CreateFile, FilesOK, loopVars, Bounds
    <2>5. PlacesOK' /\ StatesOK'
      BY <1>1 DEF CreateFile, PlacesOK, StatesOK, loopVars, addVars, againVars, histVars
    <2> QED BY <2>4, <2>5
  <1>2. CASE WritePiece
    <2>1. file \in File /\ file.data \in Seq(Piece) /\ next \in Piece /\ Len(file.data) < next
      BY <1>2, FileData DEF WritePiece, FilesOK
    <2>2. PICK f \in File : f = file' /\ f.data = Append(file.data, next)
      BY <1>2, <2>1 DEF WritePiece, File
    <2>3. Len(f.data) = Len(file.data) + 1 /\ Len(file.data) \in Nat
      BY <2>1, <2>2
    <2>4. next' = next + 1 /\ next' \in 1 .. MaxPiece + 1
      BY <1>0, <1>2, <2>1 DEF WritePiece, Piece, Bounds
    <2>5. fd' = fd /\ (fd # Missing => Len(fd.data) < next')
      <3>1. fd # Missing => Len(fd.data) \in Nat
        BY DEF FilesOK, File
      <3> QED BY <1>0, <1>2, <2>4, <3>1 DEF WritePiece, FilesOK, loopVars
    <2>6. FilesOK'
      BY <1>0, <1>2, <2>1, <2>2, <2>3, <2>4, <2>5 DEF WritePiece, FilesOK
    <2>7. events' \in Seq(Event)
      BY <1>2, NotifyType DEF WritePiece, StatesOK, Event
    <2>8. told' \subseteq Piece
      BY <1>2, <2>1 DEF WritePiece, StatesOK
    <2>9. PlacesOK'
      BY <1>0, <1>2, <2>4 DEF WritePiece, PlacesOK, loopVars, addVars
    <2>10. StatesOK'
      BY <1>2, <2>7, <2>8 DEF WritePiece, StatesOK, loopVars, addVars, againVars, histVars
    <2> QED BY <2>6, <2>9, <2>10
  <1>3. CASE Truncate
    <2>1. file \in File
      BY <1>3, FileData DEF Truncate
    <2>2. PICK f \in File : f = file' /\ f.data = <<>>
      <3>1. file' = [ino |-> file.ino, data |-> <<>>]
        BY <1>3, <2>1 DEF Truncate, File
      <3>2. file' \in File /\ file'.data = <<>>
        BY <2>1, <3>1 DEF File
      <3> QED BY <3>2
    <2>3. FilesOK'
      BY <1>0, <1>3, <2>2 DEF Truncate, FilesOK, loopVars, Bounds
    <2>4. events' \in Seq(Event)
      BY <1>3, NotifyType DEF Truncate, StatesOK, Event
    <2>5. PlacesOK' /\ StatesOK'
      BY <1>3, <2>4 DEF Truncate, PlacesOK, StatesOK, loopVars, addVars, againVars
    <2> QED BY <2>3, <2>5
  <1>4. CASE MoveAway
    <2>1. events' \in Seq(Event)
      BY <1>4, NotifyType DEF MoveAway, StatesOK, Event
    <2>2. FilesOK' /\ PlacesOK' /\ StatesOK'
      BY <1>4, <2>1, ZenonT(60) DEF MoveAway, FilesOK, PlacesOK, StatesOK, loopVars, addVars, againVars
    <2> QED BY <2>2
  <1>5. CASE Unlink
    BY <1>5, ZenonT(60) DEF Unlink, FilesOK, PlacesOK, StatesOK, loopVars, addVars, againVars
  <1>6. CASE WriteUnlinked \/ CloseUnlinked
    <2>1. events' \in Seq(Event)
      BY <1>6, NotifyType DEF WriteUnlinked, CloseUnlinked, StatesOK, Event
    <2>2. /\ UNCHANGED <<fsVars, addVars, offset, loopVars, againVars, stop, got, told, histVars>>
          /\ watch' \in {"unlinked", "none"}
      BY <1>6 DEF WriteUnlinked, CloseUnlinked
    <2>3. FilesOK' /\ PlacesOK' /\ StatesOK'
      BY <2>1, <2>2 DEF FilesOK, PlacesOK, StatesOK, fsVars, loopVars, addVars, againVars, histVars
    <2> QED BY <2>3
  <1> QED BY <1>1, <1>2, <1>3, <1>4, <1>5, <1>6 DEF Writers

LEMMA OthersType ==
  ASSUME TypeInv, SeekEnd \/ AddWatch \/ Stop \/ Loop \/ Rotation
  PROVE  TypeInv'
  <1> USE DEF TypeInv
  <1>0. Bounds /\ next \in Nat /\ next >= 1
    BY BoundsHold DEF FilesOK, Bounds
  <1>1. CASE SeekEnd
    <2>1. Len(file.data) \in Nat /\ Len(file.data) < next
      BY <1>1, FileData DEF SeekEnd, FilesOK
    <2>2. FilesOK' /\ PlacesOK' /\ StatesOK'
      BY <1>1, <2>1 DEF SeekEnd, FilesOK, PlacesOK, StatesOK, fsVars, loopVars, againVars
    <2> QED BY <2>2
  <1>2. CASE AddWatch \/ Stop
    <2>1. FilesOK' /\ PlacesOK'
      BY <1>2 DEF AddWatch, Stop, FilesOK, PlacesOK, fsVars, loopVars, addVars
    <2>2. CASE AddWatch
      <3>1. /\ added' \in {"no", "seeked", "done"} /\ watch' \in {"file", "unlinked", "none"}
            /\ regrown' \in BOOLEAN
        BY <2>2 DEF AddWatch, StatesOK
      <3>2. raced' \in BOOLEAN
        BY <2>2 DEF AddWatch, StatesOK
      <3> QED BY <2>1, <2>2, <3>1, <3>2 DEF AddWatch, StatesOK, loopVars, againVars
    <2>3. CASE Stop
      <3>1. events' \in Seq(Event)
        BY <2>3 DEF Stop
      <3> QED BY <2>1, <2>3, <3>1 DEF Stop, StatesOK, loopVars, addVars, againVars, histVars
    <2> QED BY <1>2, <2>2, <2>3
  <1>3. CASE OpenFile \/ OpenFails \/ HandleGone
    <2>1. Tail(events) \in Seq(Event)
      <3>1. events # <<>> /\ events \in Seq(Event)
        BY <1>3 DEF OpenFile, OpenFails, HandleGone, StatesOK
      <3> QED BY <3>1, HeadTailProperties
    <2>2. FilesOK'
      BY <1>3 DEF OpenFile, OpenFails, HandleGone, FilesOK, fsVars, loopVars
    <2>3. PlacesOK'
      BY <1>0, <1>3 DEF OpenFile, OpenFails, HandleGone, PlacesOK, fsVars, loopVars, addVars
    <2>4. CASE OpenFile
      <3>1. raced' \in BOOLEAN /\ regrown' \in BOOLEAN
        BY <2>4 DEF OpenFile, StatesOK
      <3>2. events' \in Seq(Event) /\ loop' = "reading"
        BY <2>1, <2>4 DEF OpenFile
      <3>3. StatesOK'
        BY <2>4, <3>1, <3>2 DEF OpenFile, StatesOK, addVars, againVars
      <3> QED BY <2>2, <2>3, <3>3
    <2>5. CASE OpenFails
      <3>1. StatesOK'
        BY <2>1, <2>5 DEF OpenFails, StatesOK, loopVars, addVars, againVars, histVars
      <3> QED BY <2>2, <2>3, <3>1
    <2>6. CASE HandleGone
      <3>1. tries' \in 0 .. Attempts - 1 /\ rewatch' = "wait"
        BY <1>0, <2>6 DEF HandleGone, Bounds
      <3>2. StatesOK'
        BY <2>1, <2>6, <3>1 DEF HandleGone, StatesOK, loopVars, addVars, histVars
      <3> QED BY <2>2, <2>3, <3>2
    <2> QED BY <1>3, <2>4, <2>5, <2>6
  <1>4. CASE LoopExit
    BY <1>4 DEF LoopExit, FilesOK, PlacesOK, StatesOK, fsVars, addVars, againVars, histVars
  <1>5. CASE Rotation
    <2>1. tries' \in 0 .. Attempts - 1
      BY <1>0, <1>5 DEF Rotation, Find, Look, Rewatch, Abandon, StatesOK, Bounds
    <2>2. FilesOK' /\ PlacesOK'
      BY <1>0, <1>5 DEF Rotation, Find, Look, Rewatch, Abandon, FilesOK, PlacesOK, fsVars,
                        loopVars, addVars
    <2>3. StatesOK'
      BY <1>5, <2>1 DEF Rotation, Find, Look, Rewatch, Abandon, StatesOK, loopVars, addVars, histVars
    <2> QED BY <2>2, <2>3
  <1> QED BY <1>1, <1>2, <1>3, <1>4, <1>5, ReadType DEF Loop

LEMMA TypeInvNext == ASSUME TypeInv, [Next]_vars PROVE TypeInv'
  <1>1. CASE UNCHANGED vars
    BY <1>1 DEF vars, fsVars, addVars, loopVars, againVars, histVars,
                TypeInv, FilesOK, PlacesOK, StatesOK
  <1> QED BY <1>1, WritersType, OthersType DEF Next

LEMMA TypeInvAlways == Spec => []TypeInv
  <1>1. TypeInv /\ [Next]_vars => TypeInv'
    BY TypeInvNext
  <1> QED BY <1>1, TypeInvInit, PTL DEF Spec

(* The types: no offset lies past what has been written.                   *)
THEOREM TypeCorrect == Spec => []TypeOK
  BY TypeInvAlways, TypeInvImplies, PTL
-----------------------------------------------------------------------------
(* A removal or a rename is the last event of its watch, and the goroutine *)
(* it starts finds the queue empty, the loop idle and no watch.            *)
GoneIsLast ==
  \A k \in 1 .. Len(events) : events[k] = "gone" => k = Len(events) /\ watch = "none"
NotAdded ==
  added # "done" =>
    watch = "none" /\ events = <<>> /\ rewatch = "none" /\ loop # "reading" /\ got = <<>>
Alone == rewatch # "none" => loop # "reading" /\ events = <<>> /\ watch = "none"
FoundAtStart == rewatch = "found" => offset = 0
WatchHasFile == watch = "file" => file # Missing

AloneInv == GoneIsLast /\ NotAdded /\ Alone /\ FoundAtStart /\ WatchHasFile

LEMMA AloneInit == Init => AloneInv
  BY DEF Init, AloneInv, GoneIsLast, NotAdded, Alone, FoundAtStart, WatchHasFile

LEMMA NotifyKeeps ==
  ASSUME events \in Seq(Event), NEW e \in Event, Notify(e),
         \A k \in 1 .. Len(events) : events[k] # "gone"
  PROVE  \A k \in 1 .. Len(events') : events'[k] = "gone" => e = "gone" /\ k = Len(events')
  <1>1. CASE events' = events
    BY <1>1
  <1>2. CASE events' = Append(events, e)
    <2>1. Len(events') = Len(events) + 1 /\ Len(events) \in Nat /\ events'[Len(events')] = e
      BY <1>2
    <2>2. \A k \in 1 .. Len(events) : events'[k] = events[k]
      BY <1>2
    <2> QED BY <2>1, <2>2
  <1> QED BY <1>1, <1>2, NotifyType

LEMMA AloneWriters == ASSUME TypeInv, AloneInv, Writers PROVE AloneInv'
  <1> USE DEF AloneInv
  <1>0. events \in Seq(Event) /\ "write" \in Event /\ "gone" \in Event
    BY DEF TypeInv, StatesOK, Event
  <1>1. UNCHANGED <<addVars, offset, loopVars, againVars, stop, got>>
    BY DEF Writers, CreateFile, WritePiece, Truncate, MoveAway, Unlink, WriteUnlinked, CloseUnlinked
  <1>2. watch = "none" => watch' = "none" /\ events' = events
    BY DEF Writers, CreateFile, WritePiece, Truncate, MoveAway, Unlink, WriteUnlinked,
           CloseUnlinked
  <1>3. \/ events' = events
        \/ Notify("write")
        \/ Notify("gone") /\ watch' = "none"
    BY DEF Writers, CreateFile, WritePiece, Truncate, MoveAway, Unlink, WriteUnlinked,
           CloseUnlinked
  <1>4. GoneIsLast'
    <2>1. CASE watch = "none"
      BY <1>2, <2>1 DEF GoneIsLast
    <2>2. CASE watch # "none"
      <3>1. \A k \in 1 .. Len(events) : events[k] # "gone"
        BY <2>2 DEF GoneIsLast
      <3>2. CASE events' = events
        BY <3>1, <3>2 DEF GoneIsLast
      <3>3. CASE Notify("write")
        BY <1>0, <3>1, <3>3, NotifyKeeps DEF GoneIsLast
      <3>4. CASE Notify("gone") /\ watch' = "none"
        BY <1>0, <3>1, <3>4, NotifyKeeps DEF GoneIsLast
      <3> QED BY <1>3, <3>2, <3>3, <3>4
    <2> QED BY <2>1, <2>2
  <1>5. NotAdded' /\ Alone' /\ FoundAtStart'
    BY <1>1, <1>2 DEF NotAdded, Alone, FoundAtStart, addVars, loopVars, againVars
  <1>6. WatchHasFile'
    <2> SUFFICES ASSUME watch' = "file" PROVE file' # Missing
      BY DEF WatchHasFile
    <2>1. WritePiece \/ Truncate
      BY DEF Writers, CreateFile, MoveAway, Unlink, WriteUnlinked, CloseUnlinked, WatchHasFile
    <2>2. PICK f \in File : f = file'
      <3>1. file \in File
        BY <2>1, FileData DEF WritePiece, Truncate
      <3>2. CASE WritePiece
        <4>1. Append(file.data, next) \in Seq(Piece)
          BY <3>1, <3>2 DEF WritePiece, File
        <4> QED BY <3>1, <3>2, <4>1 DEF WritePiece, File
      <3>3. CASE Truncate
        <4>1. file' = [ino |-> file.ino, data |-> <<>>]
          BY <3>1, <3>3 DEF Truncate, File
        <4>2. file' \in File
          BY <3>1, <4>1 DEF File
        <4> QED BY <4>2
      <3> QED BY <2>1, <3>2, <3>3
    <2> QED BY <2>2, MissingAssumption
  <1> QED BY <1>4, <1>5, <1>6

LEMMA AloneLoop == ASSUME TypeInv, AloneInv, Loop PROVE AloneInv'
  <1> USE DEF AloneInv
  <1>1. CASE ReadRest \/ LoopExit
    BY <1>1 DEF ReadRest, LoopExit, GoneIsLast, NotAdded, Alone, FoundAtStart, WatchHasFile,
                fsVars, addVars, againVars
  <1>2. CASE OpenFile \/ OpenFails \/ HandleGone
    <2>1. events # <<>> /\ events \in Seq(Event) /\ events' = Tail(events)
      BY <1>2 DEF OpenFile, OpenFails, HandleGone, TypeInv, StatesOK
    <2>2. /\ Len(events) \in Nat \ {0} /\ Len(events') = Len(events) - 1
          /\ \A k \in 1 .. Len(events') : events'[k] = events[k + 1]
          /\ Head(events) = events[1]
      BY <2>1, HeadTailProperties
    <2>3. added = "done" /\ rewatch = "none"
      BY <2>1 DEF NotAdded, Alone
    <2>4. UNCHANGED <<file, watch, added, offset>>
      BY <1>2 DEF OpenFile, OpenFails, HandleGone, fsVars, addVars
    <2>5. GoneIsLast' /\ NotAdded' /\ WatchHasFile'
      <3>1. GoneIsLast'
        BY <2>2, <2>4 DEF GoneIsLast
      <3> QED BY <2>3, <2>4, <3>1 DEF NotAdded, WatchHasFile
    <2>6. CASE OpenFile \/ OpenFails
      BY <2>3, <2>5, <2>6 DEF OpenFile, OpenFails, Alone, FoundAtStart, againVars
    <2>7. CASE HandleGone
      <3>1. Len(events) = 1 /\ watch = "none"
        <4>1. 1 \in 1 .. Len(events) /\ events[1] = "gone"
          BY <2>2, <2>7 DEF HandleGone
        <4> QED BY <4>1 DEF GoneIsLast
      <3>2. events' = <<>>
        BY <2>1, <2>2, <3>1, HeadTailProperties, EmptySeq
      <3> QED BY <2>4, <2>5, <2>7, <3>1, <3>2 DEF HandleGone, Alone, FoundAtStart, loopVars
    <2> QED BY <1>2, <2>6, <2>7
  <1> QED BY <1>1, <1>2 DEF Loop

LEMMA AloneOthers ==
  ASSUME TypeInv, AloneInv, SeekEnd \/ AddWatch \/ Stop \/ Rotation
  PROVE  AloneInv'
  <1> USE DEF AloneInv, GoneIsLast, NotAdded, Alone, FoundAtStart, WatchHasFile
  <1>1. CASE SeekEnd
    BY <1>1 DEF SeekEnd, fsVars, loopVars, againVars
  <1>2. CASE AddWatch
    BY <1>2 DEF AddWatch, fsVars, loopVars, againVars
  <1>3. CASE Stop
    BY <1>3 DEF Stop, fsVars, addVars, loopVars, againVars
  <1>4. CASE Find \/ Look
    BY <1>4 DEF Find, Look, fsVars, addVars, loopVars
  <1>5. CASE Rewatch \/ Abandon
    BY <1>5 DEF Rewatch, Abandon, fsVars, addVars, loopVars
  <1> QED BY <1>1, <1>2, <1>3, <1>4, <1>5 DEF Rotation

LEMMA AloneAlways == Spec => []AloneInv
  <1>1. TypeInv /\ AloneInv /\ [Next]_vars => AloneInv'
    <2>1. ASSUME AloneInv, UNCHANGED vars PROVE AloneInv'
      BY <2>1 DEF AloneInv, GoneIsLast, NotAdded, Alone, FoundAtStart, WatchHasFile,
                  vars, fsVars, addVars, loopVars, againVars
    <2> QED BY <2>1, AloneWriters, AloneLoop, AloneOthers DEF Next
  <1> QED BY <1>1, AloneInit, TypeInvAlways, PTL DEF Spec

(* The offset is reset while nobody reads and nothing is left to be read.  *)
THEOREM ResetsAreAlone == Spec => []ResetIsAlone
  <1>1. AloneInv => ResetIsAlone
    BY DEF AloneInv, Alone, ResetIsAlone
  <1> QED BY <1>1, AloneAlways, PTL
-----------------------------------------------------------------------------
(* What a write and a truncation do to the file at the path.               *)
LEMMA FileWritten ==
  ASSUME TypeInv, WritePiece
  PROVE  /\ file \in File /\ file' # Missing /\ file'.ino = file.ino
         /\ Len(file.data) \in Nat /\ Len(file'.data) = Len(file.data) + 1
         /\ \A k \in 1 .. Len(file.data) : file'.data[k] = file.data[k]
  <1>1. file \in File /\ file.data \in Seq(Piece) /\ next \in Piece
    BY FileData DEF WritePiece
  <1>2. file' \in File
    <2>1. Append(file.data, next) \in Seq(Piece)
      BY <1>1
    <2> QED BY <1>1, <2>1 DEF WritePiece, File
  <1>3. file'.ino = file.ino /\ file'.data = Append(file.data, next)
    BY <1>1 DEF WritePiece, File
  <1> QED BY <1>1, <1>2, <1>3, MissingAssumption

(* Of a file that AddPath opened and nobody cut or moved, the handler has  *)
(* the pieces between the offset AddPath began with and the offset.        *)
SameFile ==
  intact =>
    /\ file # Missing /\ rewatch = "none" /\ watch # "unlinked"
    /\ \A k \in 1 .. Len(events) : events[k] # "gone"
    /\ loop = "reading" => fd.ino = file.ino /\ from = offset
Growing ==
  intact =>
    /\ offset <= Len(file.data) /\ start <= offset /\ Len(got) = offset - start
    /\ \A k \in 1 .. Len(got) : got[k] = file.data[start + k]

LEMMA GrowingWriters ==
  ASSUME TypeInv, SameFile, Growing, Writers
  PROVE  SameFile' /\ Growing'
  <1> SUFFICES ASSUME intact' PROVE SameFile' /\ Growing'
    BY DEF SameFile, Growing
  <1>1. intact /\ UNCHANGED <<offset, loopVars, addVars, againVars, got>>
    BY DEF Writers, CreateFile, WritePiece, Truncate, MoveAway, Unlink, WriteUnlinked,
           CloseUnlinked, histVars
  <1>2. WritePiece
    BY <1>1 DEF SameFile, Writers, CreateFile, WritePiece, Truncate, MoveAway, Unlink,
                WriteUnlinked, CloseUnlinked
  <1>3. \A k \in 1 .. Len(events') : events'[k] # "gone"
    <2>1. events' = events \/ Notify("write")
      BY <1>2 DEF WritePiece
    <2>2. events \in Seq(Event) /\ "write" \in Event
      BY DEF TypeInv, StatesOK, Event
    <2> QED BY <1>1, <2>1, <2>2, NotifyKeeps DEF SameFile
  <1>4. SameFile'
    BY <1>1, <1>2, <1>3, FileWritten DEF SameFile, WritePiece, loopVars, againVars
  <1>5. Growing'
    <2>1. offset \in Nat /\ start \in Nat
      BY DEF TypeInv, PlacesOK
    <2>2. \A k \in 1 .. Len(got) : start + k \in 1 .. Len(file.data)
      BY <1>1, <1>2, <2>1, FileWritten DEF Growing
    <2> QED BY <1>1, <1>2, <2>1, <2>2, FileWritten DEF Growing, addVars
  <1> QED BY <1>4, <1>5

LEMMA Joined ==
  ASSUME NEW s \in Seq(Piece), NEW t \in Seq(Piece)
  PROVE  /\ Len(s) \in Nat /\ Len(t) \in Nat /\ Len(s \o t) = Len(s) + Len(t)
         /\ \A k \in 1 .. Len(s) : (s \o t)[k] = s[k]
         /\ \A k \in 1 .. Len(t) : (s \o t)[Len(s) + k] = t[k]
  <1>1. /\ Len(s) \in Nat /\ Len(t) \in Nat /\ Len(s \o t) = Len(s) + Len(t)
        /\ \A i \in 1 .. Len(s) + Len(t) :
             (s \o t)[i] = IF i <= Len(s) THEN s[i] ELSE t[i - Len(s)]
    BY LenProperties, ConcatProperties
  <1>2. ASSUME NEW k \in 1 .. Len(t) PROVE (s \o t)[Len(s) + k] = t[k]
    <2>1. Len(s) + k \in 1 .. Len(s) + Len(t) /\ ~(Len(s) + k <= Len(s))
      BY <1>1
    <2>2. (Len(s) + k) - Len(s) = k
      BY <1>1
    <2> QED BY <1>1, <2>1, <2>2
  <1>3. ASSUME NEW k \in 1 .. Len(s) PROVE (s \o t)[k] = s[k]
    <2>1. k \in 1 .. Len(s) + Len(t) /\ k <= Len(s)
      BY <1>1
    <2> QED BY <1>1, <2>1
  <1> QED BY <1>1, <1>2, <1>3

LEMMA GrowingReads ==
  ASSUME TypeInv, SameFile, Growing, ReadRest
  PROVE  SameFile' /\ Growing'
  <1> SUFFICES ASSUME intact' PROVE SameFile' /\ Growing'
    BY DEF SameFile, Growing
  <1>1. intact /\ UNCHANGED <<file, watch, events, start, rewatch>>
    BY DEF ReadRest, fsVars, addVars, againVars, histVars
  <1>2. SameFile'
    BY <1>1 DEF SameFile, ReadRest
  <1>3. /\ file # Missing /\ fd.ino = file.ino /\ from = offset /\ offset <= Len(file.data)
        /\ start <= offset /\ Len(got) = offset - start
    BY <1>1 DEF SameFile, Growing, ReadRest
  <1>4. PICK rest \in Seq(Piece) :
          /\ got' = got \o rest /\ offset' = Len(file.data)
          /\ Len(rest) = Len(file.data) - offset
          /\ \A k \in 1 .. Len(rest) : rest[k] = file.data[offset + k]
    <2>1. file.data \in Seq(Piece) /\ Len(file.data) \in Nat /\ offset \in Nat
      BY <1>3, FileData DEF TypeInv, PlacesOK
    <2>2. /\ got' = got \o SubSeq(file.data, offset + 1, Len(file.data))
          /\ offset' = Len(file.data)
      BY <1>3, <2>1, SMTT(30) DEF ReadRest
    <2>3. /\ SubSeq(file.data, offset + 1, Len(file.data)) \in Seq(Piece)
          /\ Len(SubSeq(file.data, offset + 1, Len(file.data))) = Len(file.data) - offset
          /\ \A k \in 1 .. Len(file.data) - offset :
               SubSeq(file.data, offset + 1, Len(file.data))[k] = file.data[offset + k]
      BY <1>3, <2>1
    <2> QED BY <2>2, <2>3
  <1>5. Growing'
    <2>1. got \in Seq(Piece) /\ start \in Nat /\ offset \in Nat /\ Len(file.data) \in Nat
      BY <1>3, FileData DEF TypeInv, PlacesOK, StatesOK
    <2>2. /\ Len(got') = Len(got) + Len(rest)
          /\ \A k \in 1 .. Len(got) : got'[k] = got[k]
          /\ \A k \in 1 .. Len(rest) : got'[Len(got) + k] = rest[k]
      BY <1>4, <2>1, Joined
    <2>3. Len(got') = offset' - start /\ start <= offset' /\ offset' <= Len(file.data)
      BY <1>3, <1>4, <2>1, <2>2
    <2>4. ASSUME NEW k \in 1 .. Len(got') PROVE got'[k] = file.data[start + k]
      <3>1. CASE k <= Len(got)
        BY <1>1, <2>1, <2>2, <3>1 DEF Growing
      <3>2. CASE k > Len(got)
        <4>1. k - Len(got) \in 1 .. Len(rest) /\ Len(got) + (k - Len(got)) = k
          BY <1>3, <1>4, <2>1, <2>2, <3>2
        <4>2. offset + (k - Len(got)) = start + k
          BY <1>3, <2>1
        <4> QED BY <1>4, <2>2, <4>1, <4>2
      <3> QED BY <2>1, <3>1, <3>2
    <2> QED BY <1>1, <2>3, <2>4 DEF Growing
  <1> QED BY <1>2, <1>5

LEMMA GrowingOthers ==
  ASSUME TypeInv, AloneInv, SameFile, Growing,
         \/ SeekEnd \/ AddWatch \/ Stop \/ Rotation
         \/ OpenFile \/ OpenFails \/ HandleGone \/ LoopExit
  PROVE  SameFile' /\ Growing'
  <1>1. CASE SeekEnd
    <2>1. /\ file # Missing /\ Len(file.data) \in Nat /\ got = <<>> /\ events = <<>>
          /\ watch = "none" /\ rewatch = "none" /\ loop # "reading"
      BY <1>1, FileData DEF SeekEnd, AloneInv, NotAdded
    <2>2. /\ offset' = Len(file.data) /\ start' = Len(file.data)
          /\ UNCHANGED <<file, watch, events, loop, rewatch, got>>
      BY <1>1 DEF SeekEnd, fsVars, loopVars, againVars
    <2> QED BY <2>1, <2>2 DEF SameFile, Growing
  <1>2. CASE OpenFile \/ OpenFails \/ HandleGone
    <2> SUFFICES ASSUME intact' PROVE SameFile' /\ Growing'
      BY DEF SameFile, Growing
    <2>1. intact /\ UNCHANGED <<file, watch, offset, start, got>>
      BY <1>2 DEF OpenFile, OpenFails, HandleGone, fsVars, addVars, histVars
    <2>2. /\ events # <<>> /\ events \in Seq(Event) /\ events' = Tail(events)
          /\ loop = "idle"
      BY <1>2 DEF OpenFile, OpenFails, HandleGone, TypeInv, StatesOK
    <2>3. /\ Len(events) \in Nat \ {0} /\ Len(events') = Len(events) - 1
          /\ \A k \in 1 .. Len(events') : events'[k] = events[k + 1]
          /\ Head(events) = events[1]
      BY <2>2, HeadTailProperties
    <2>4. events[1] # "gone" /\ \A k \in 1 .. Len(events') : events'[k] # "gone"
      BY <2>1, <2>3 DEF SameFile
    <2>5. Growing'
      BY <2>1 DEF Growing
    <2>6. OpenFile \/ OpenFails
      BY <1>2, <2>3, <2>4 DEF HandleGone
    <2>7. CASE OpenFails
      BY <2>1, <2>2, <2>4, <2>5, <2>7 DEF OpenFails, SameFile, loopVars, againVars
    <2>8. CASE OpenFile
      <3>1. offset <= Len(file.data) /\ Len(file.data) \in Nat /\ offset \in Nat
        BY <2>1, FileData DEF Growing, SameFile, TypeInv, PlacesOK
      <3>2. fd' = file /\ from' = offset
        BY <2>8, <3>1 DEF OpenFile
      <3> QED BY <2>1, <2>4, <2>5, <2>8, <3>2 DEF OpenFile, SameFile, againVars
    <2> QED BY <2>6, <2>7, <2>8
  <1>3. CASE AddWatch
    BY <1>3 DEF AddWatch, SameFile, Growing, fsVars, loopVars, againVars
  <1>4. CASE Stop
    BY <1>4 DEF Stop, SameFile, Growing, fsVars, addVars, loopVars, againVars, histVars
  <1>5. CASE LoopExit
    BY <1>5 DEF LoopExit, SameFile, Growing, fsVars, addVars, againVars, histVars
  <1>6. CASE Rotation
    <2>1. ~intact /\ ~intact'
      BY <1>6 DEF Rotation, Find, Look, Rewatch, Abandon, SameFile, histVars
    <2> QED BY <2>1 DEF SameFile, Growing
  <1> QED BY <1>1, <1>2, <1>3, <1>4, <1>5, <1>6

LEMMA GrowingAlways == Spec => [](SameFile /\ Growing)
  <1>1. Init => SameFile /\ Growing
    BY DEF Init, SameFile, Growing
  <1>2. TypeInv /\ AloneInv /\ SameFile /\ Growing /\ [Next]_vars => (SameFile /\ Growing)'
    <2>1. ASSUME SameFile, Growing, UNCHANGED vars PROVE SameFile' /\ Growing'
      BY <2>1 DEF SameFile, Growing, vars, fsVars, addVars, loopVars, againVars, histVars
    <2> QED BY <2>1, GrowingWriters, GrowingReads, GrowingOthers DEF Next, Loop
  <1> QED BY <1>1, <1>2, AloneAlways, TypeInvAlways, PTL DEF Spec

(* Of a file that only grows every piece is read once and in order.        *)
THEOREM GrowingIsRead == Spec => []GrowingFileIsRead
  <1>1. TypeInv /\ SameFile /\ Growing => GrowingFileIsRead
    <2> SUFFICES ASSUME TypeInv, SameFile, Growing, intact
                 PROVE  offset <= Len(file.data) /\ got = SubSeq(file.data, start + 1, offset)
      BY DEF GrowingFileIsRead
    <2>1. /\ file.data \in Seq(Piece) /\ Len(file.data) \in Nat /\ got \in Seq(Piece)
          /\ offset \in Nat /\ start \in Nat
      BY FileData DEF SameFile, TypeInv, PlacesOK, StatesOK
    <2>2. /\ offset <= Len(file.data) /\ start <= offset /\ Len(got) = offset - start
          /\ \A k \in 1 .. Len(got) : got[k] = file.data[start + k]
      BY DEF Growing
    <2>3. /\ SubSeq(file.data, start + 1, offset) \in Seq(Piece)
          /\ Len(SubSeq(file.data, start + 1, offset)) = offset - start
          /\ \A k \in 1 .. offset - start :
               SubSeq(file.data, start + 1, offset)[k] = file.data[start + k]
      BY <2>1, <2>2
    <2> QED BY <2>1, <2>2, <2>3, SeqEqual
  <1> QED BY <1>1, GrowingAlways, TypeInvAlways, PTL
-----------------------------------------------------------------------------
(* What lies before the offset, or before the place a scan began, has been *)
(* read; the file a scan reads is the one at the path.                     *)
Got(p) == \E j \in 1 .. Len(got) : got[j] = p
SameInode == watch = "file" /\ loop = "reading" => fd.ino = file.ino
ReadBefore ==
  watch = "file" /\ loop = "reading" /\ ~intact /\ ~raced =>
    from <= Len(file.data) /\ \A k \in 1 .. from : Got(file.data[k])
IdleBefore ==
  watch = "file" /\ loop = "idle" /\ ~intact /\ ~raced /\ ~regrown =>
    offset <= Len(file.data) /\ \A k \in 1 .. offset : Got(file.data[k])

SkipInv == SameInode /\ ReadBefore /\ IdleBefore

LEMMA SkipWriters ==
  ASSUME TypeInv, AloneInv, SkipInv, Writers
  PROVE  SkipInv'
  <1>1. UNCHANGED <<offset, loop, fd, from, got>>
    BY DEF Writers, CreateFile, WritePiece, Truncate, MoveAway, Unlink, WriteUnlinked,
           CloseUnlinked, loopVars
  <1>2. (\A p : Got(p) => Got(p)') /\ from \in Nat /\ offset \in Nat
    BY <1>1 DEF Got, TypeInv, PlacesOK
  <1>3. CASE CreateFile \/ MoveAway \/ Unlink \/ WriteUnlinked \/ CloseUnlinked
    <2>1. watch' # "file"
      BY <1>3 DEF CreateFile, MoveAway, Unlink, WriteUnlinked, CloseUnlinked, AloneInv, WatchHasFile
    <2> QED BY <2>1 DEF SkipInv, SameInode, ReadBefore, IdleBefore
  <1>4. CASE WritePiece
    <2>1. UNCHANGED <<watch, intact, raced, regrown>>
      BY <1>4 DEF WritePiece, histVars
    <2>2. SameInode'
      BY <1>1, <1>4, <2>1, FileWritten DEF SkipInv, SameInode
    <2>3. ReadBefore'
      <3> SUFFICES ASSUME watch = "file", loop = "reading", ~intact, ~raced
                   PROVE  from <= Len(file'.data) /\ \A k \in 1 .. from : Got(file'.data[k])
        BY <1>1, <2>1 DEF ReadBefore, Got
      <3>1. from <= Len(file.data) /\ \A k \in 1 .. from : Got(file.data[k])
        BY DEF SkipInv, ReadBefore
      <3>2. /\ Len(file.data) \in Nat /\ Len(file'.data) = Len(file.data) + 1
            /\ \A k \in 1 .. Len(file.data) : file'.data[k] = file.data[k]
        BY <1>4, FileWritten
      <3> QED BY <1>2, <3>1, <3>2
    <2>4. IdleBefore'
      BY <1>1, <1>2, <1>4, <2>1, FileWritten, SMTT(30) DEF SkipInv, IdleBefore, Got
    <2> QED BY <2>2, <2>3, <2>4 DEF SkipInv
  <1>5. CASE Truncate
    <2>1. watch' = watch /\ regrown' /\ (loop = "reading" => raced')
      BY <1>5 DEF Truncate
    <2>2. file'.ino = file.ino
      <3>1. file \in File
        BY <1>5, FileData DEF Truncate
      <3> QED BY <1>5, <3>1 DEF Truncate, File
    <2>3. SameInode'
      BY <1>1, <2>1, <2>2 DEF SkipInv, SameInode
    <2>4. ReadBefore' /\ IdleBefore'
      BY <1>1, <2>1 DEF ReadBefore, IdleBefore
    <2> QED BY <2>3, <2>4 DEF SkipInv
  <1> QED BY <1>3, <1>4, <1>5 DEF Writers

LEMMA SkipReads ==
  ASSUME TypeInv, AloneInv, SkipInv, ReadRest
  PROVE  SkipInv'
  <1>1. UNCHANGED <<file, watch, intact, raced>> /\ loop' = "idle" /\ loop = "reading"
    BY DEF ReadRest, fsVars, histVars
  <1>2. SameInode' /\ ReadBefore'
    BY <1>1 DEF SameInode, ReadBefore
  <1>3. IdleBefore'
    <2> SUFFICES ASSUME watch = "file", ~intact, ~raced
                 PROVE  /\ offset' <= Len(file.data)
                        /\ \A k \in 1 .. offset' : Got(file.data[k])'
      BY <1>1 DEF IdleBefore, Got
    <2>1. /\ file # Missing /\ fd.ino = file.ino /\ from <= Len(file.data)
          /\ \A k \in 1 .. from : Got(file.data[k])
      BY <1>1 DEF SkipInv, SameInode, ReadBefore, AloneInv, WatchHasFile
    <2>2. /\ file.data \in Seq(Piece) /\ Len(file.data) \in Nat /\ from \in Nat
          /\ got \in Seq(Piece)
      BY <2>1, FileData DEF TypeInv, PlacesOK, StatesOK
    <2>3. PICK rest \in Seq(Piece) :
            /\ got' = got \o rest /\ offset' = Len(file.data)
            /\ Len(rest) = Len(file.data) - from
            /\ \A k \in 1 .. Len(rest) : rest[k] = file.data[from + k]
      <3>1. /\ got' = got \o SubSeq(file.data, from + 1, Len(file.data))
            /\ offset' = Len(file.data)
        <4>1. Data = file.data
          BY <2>1 DEF Data
        <4>2. /\ got' = got \o SubSeq(Data, from + 1, Len(Data))
              /\ offset' = IF Len(Data) > from THEN Len(Data) ELSE from
          BY DEF ReadRest, Data
        <4> QED BY <2>1, <2>2, <4>1, <4>2
      <3>2. /\ SubSeq(file.data, from + 1, Len(file.data)) \in Seq(Piece)
            /\ Len(SubSeq(file.data, from + 1, Len(file.data))) = Len(file.data) - from
            /\ \A k \in 1 .. Len(file.data) - from :
                 SubSeq(file.data, from + 1, Len(file.data))[k] = file.data[from + k]
        BY <2>1, <2>2
      <3> QED BY <3>1, <3>2
    <2>4. /\ Len(got') = Len(got) + Len(rest) /\ Len(got) \in Nat
          /\ \A k \in 1 .. Len(got) : got'[k] = got[k]
          /\ \A k \in 1 .. Len(rest) : got'[Len(got) + k] = rest[k]
      BY <2>2, <2>3, Joined
    <2>5. ASSUME NEW k \in 1 .. Len(file.data)
          PROVE  \E j \in 1 .. Len(got') : got'[j] = file.data[k]
      <3>1. CASE k <= from
        <4>1. PICK j \in 1 .. Len(got) : got[j] = file.data[k]
          BY <2>1, <2>2, <3>1 DEF Got
        <4>2. j \in 1 .. Len(got') /\ got'[j] = file.data[k]
          BY <2>1, <2>2, <2>3, <2>4, <4>1
        <4> QED BY <4>2
      <3>2. CASE k > from
        <4>1. k - from \in 1 .. Len(rest) /\ from + (k - from) = k
          BY <2>1, <2>2, <2>3, <3>2
        <4>2. got'[Len(got) + (k - from)] = file.data[k]
          BY <2>3, <2>4, <4>1
        <4>3. Len(got) + (k - from) \in 1 .. Len(got')
          BY <2>2, <2>3, <2>4, <4>1
        <4> QED BY <4>2, <4>3
      <3> QED BY <2>2, <3>1, <3>2
    <2> QED BY <1>1, <2>2, <2>3, <2>5 DEF Got
  <1> QED BY <1>2, <1>3 DEF SkipInv

LEMMA SkipLoop ==
  ASSUME TypeInv, AloneInv, SkipInv, OpenFile \/ OpenFails \/ HandleGone \/ LoopExit
  PROVE  SkipInv'
  <1>1. CASE OpenFile
    <2>1. /\ loop = "idle" /\ loop' = "reading" /\ fd' = file /\ file # Missing
          /\ UNCHANGED <<file, watch, intact, got>>
          /\ from' = IF Len(file.data) < offset THEN 0 ELSE offset
          /\ raced' = (raced \/ (regrown /\ offset > 0 /\ Len(file.data) >= offset))
      BY <1>1 DEF OpenFile, fsVars
    <2>2. Len(file.data) \in Nat /\ offset \in Nat
      BY <2>1, FileData DEF TypeInv, PlacesOK
    <2>3. SameInode' /\ IdleBefore'
      BY <2>1 DEF SameInode, IdleBefore
    <2>4. ReadBefore'
      <3> SUFFICES ASSUME watch = "file", ~intact, ~raced'
                   PROVE  /\ from' <= Len(file.data)
                          /\ \A k \in 1 .. from' : Got(file.data[k])
        BY <2>1 DEF ReadBefore, Got
      <3>1. CASE from' = 0
        BY <2>2, <3>1
      <3>2. CASE from' # 0
        <4>1. from' = offset /\ offset > 0 /\ Len(file.data) >= offset /\ ~raced /\ ~regrown
          <5>1. from' = offset /\ offset > 0 /\ Len(file.data) >= offset
            BY <2>1, <2>2, <3>2
          <5>2. ~raced /\ ~regrown
            BY <2>1, <5>1
          <5> QED BY <5>1, <5>2
        <4> QED BY <2>1, <4>1 DEF SkipInv, IdleBefore
      <3> QED BY <3>1, <3>2
    <2> QED BY <2>3, <2>4 DEF SkipInv
  <1>2. CASE OpenFails \/ HandleGone \/ LoopExit
    <2>1. /\ loop = "idle" /\ loop' # "reading"
          /\ UNCHANGED <<file, watch, intact, raced, regrown, got, offset>>
      BY <1>2 DEF OpenFails, HandleGone, LoopExit, fsVars, loopVars, histVars
    <2> QED BY <2>1 DEF SkipInv, SameInode, ReadBefore, IdleBefore, Got
  <1> QED BY <1>1, <1>2

LEMMA SkipOthers ==
  ASSUME TypeInv, AloneInv, SkipInv, SeekEnd \/ AddWatch \/ Stop \/ Rotation
  PROVE  SkipInv'
  <1>1. CASE SeekEnd \/ Stop
    <2>1. watch' # "file"
      BY <1>1 DEF SeekEnd, Stop, AloneInv, NotAdded
    <2> QED BY <2>1 DEF SkipInv, SameInode, ReadBefore, IdleBefore
  <1>2. CASE AddWatch
    <2>1. CASE watch' = "file"
      <3>1. loop' # "reading" /\ (~intact' => raced')
        BY <1>2, <2>1 DEF AddWatch, AloneInv, NotAdded, loopVars
      <3> QED BY <3>1 DEF SkipInv, SameInode, ReadBefore, IdleBefore
    <2>2. CASE watch' # "file"
      BY <2>2 DEF SkipInv, SameInode, ReadBefore, IdleBefore
    <2> QED BY <2>1, <2>2
  <1>3. CASE Find \/ Look \/ Abandon
    <2>1. watch' # "file"
      BY <1>3 DEF Find, Look, Abandon, AloneInv, Alone
    <2> QED BY <2>1 DEF SkipInv, SameInode, ReadBefore, IdleBefore
  <1>4. CASE Rewatch
    <2>1. /\ offset = 0 /\ offset' = 0 /\ loop' # "reading" /\ file' = file
          /\ watch' = "file" => file # Missing
      BY <1>4 DEF Rewatch, AloneInv, Alone, FoundAtStart, WatchHasFile, loopVars, fsVars
    <2>2. watch' = "file" => Len(file.data) \in Nat
      BY <2>1, FileData
    <2>3. SameInode' /\ ReadBefore'
      BY <2>1 DEF SameInode, ReadBefore
    <2>4. IdleBefore'
      BY <2>1, <2>2 DEF IdleBefore
    <2> QED BY <2>3, <2>4 DEF SkipInv
  <1> QED BY <1>1, <1>2, <1>3, <1>4 DEF Rotation

LEMMA SkipAlways == Spec => []SkipInv
  <1>1. Init => SkipInv
    BY DEF Init, SkipInv, SameInode, ReadBefore, IdleBefore
  <1>2. TypeInv /\ AloneInv /\ SkipInv /\ [Next]_vars => SkipInv'
    <2>1. ASSUME SkipInv, UNCHANGED vars PROVE SkipInv'
      BY <2>1 DEF SkipInv, SameInode, ReadBefore, IdleBefore, Got,
                  vars, fsVars, addVars, loopVars, againVars, histVars
    <2> QED BY <2>1, SkipWriters, SkipReads, SkipLoop, SkipOthers DEF Next, Loop
  <1> QED BY <1>1, <1>2, AloneAlways, TypeInvAlways, PTL DEF Spec

(* What is before the offset has been read, also after a rotation or a     *)
(* truncation, unless the file had grown past the old offset again.        *)
THEOREM NothingIsSkipped == Spec => []NothingSkipped
  <1>1. SkipInv => NothingSkipped
    BY DEF SkipInv, IdleBefore, NothingSkipped, Got
  <1> QED BY <1>1, SkipAlways, PTL
=============================================================================
