--------------------------- MODULE CollectorProofs --------------------------
(***************************************************************************)
(* What holds of the log collector: of its pipeline (Collector), for every *)
(* number of paths, sources, lines and restarts and every capacity of the  *)
(* channel and of the batch, and of how it cuts a file into lines          *)
(* (LineReader).                                                           *)
(***************************************************************************)
EXTENDS Collector, LineReader, Integers, SequenceTheorems, TLAPS

-----------------------------------------------------------------------------
(* The lines of a sequence of entries, as the channel and the batch change *)
(* it.                                                                     *)
LEMMA LinesEmpty == Lines(<<>>) = {}
  BY DEF Lines

LEMMA LinesAreLines ==
  ASSUME NEW q \in Seq(Entry)
  PROVE  Lines(q) \subseteq Line
  <1>1. ASSUME NEW i \in 1 .. Len(q) PROVE q[i].line \in Line
    <2>1. q[i] \in Entry
      OBVIOUS
    <2> QED BY <2>1 DEF Entry
  <1> QED BY <1>1 DEF Lines

LEMMA LinesAppend ==
  ASSUME NEW q \in Seq(Entry), NEW e \in Entry
  PROVE  /\ Append(q, e) \in Seq(Entry)
         /\ Len(Append(q, e)) = Len(q) + 1
         /\ Lines(Append(q, e)) = Lines(q) \cup {e.line}
  <1>1. Lines(Append(q, e)) \subseteq Lines(q) \cup {e.line}
    BY DEF Lines
  <1>2. Lines(q) \cup {e.line} \subseteq Lines(Append(q, e))
    <2>1. ASSUME NEW i \in 1 .. Len(q) PROVE q[i].line \in Lines(Append(q, e))
      <3>1. Append(q, e)[i] = q[i] /\ i \in 1 .. Len(Append(q, e))
        OBVIOUS
      <3> QED BY <3>1 DEF Lines
    <2>2. e.line \in Lines(Append(q, e))
      <3>1. Append(q, e)[Len(q) + 1] = e /\ Len(q) + 1 \in 1 .. Len(Append(q, e))
        OBVIOUS
      <3> QED BY <3>1 DEF Lines
    <2> QED BY <2>1, <2>2 DEF Lines
  <1> QED BY <1>1, <1>2

LEMMA LinesTail ==
  ASSUME NEW q \in Seq(Entry), q # <<>>
  PROVE  /\ Head(q) \in Entry
         /\ Tail(q) \in Seq(Entry)
         /\ Len(Tail(q)) = Len(q) - 1
         /\ Lines(q) = {Head(q).line} \cup Lines(Tail(q))
  <1>1. Head(q) = q[1] /\ Len(q) >= 1 /\ 1 \in 1 .. Len(q)
    OBVIOUS
  <1>2. \A i \in 1 .. Len(Tail(q)) : Tail(q)[i] = q[i + 1] /\ i + 1 \in 1 .. Len(q)
    OBVIOUS
  <1>3. Lines(Tail(q)) \subseteq Lines(q) /\ Head(q).line \in Lines(q)
    BY <1>1, <1>2 DEF Lines
  <1>4. ASSUME NEW i \in 1 .. Len(q), i # 1 PROVE q[i].line \in Lines(Tail(q))
    <2>1. Len(Tail(q)) = Len(q) - 1 /\ i - 1 \in 1 .. Len(Tail(q))
      BY <1>1, <1>4
    <2>2. Tail(q)[i - 1] = q[(i - 1) + 1]
      BY <2>1, <1>2
    <2>3. Tail(q)[i - 1] = q[i]
      BY <2>1, <2>2
    <2> QED BY <2>1, <2>3 DEF Lines
  <1>5. Lines(q) \subseteq {Head(q).line} \cup Lines(Tail(q))
    BY <1>1, <1>4 DEF Lines
  <1> QED BY <1>1, <1>3, <1>5
-----------------------------------------------------------------------------
(* A batch that is waiting for more entries has room for one: a full one   *)
(* is flushed at once.                                                     *)
Room == inserter \in {"select", "drain"} => Len(batch) < MaxBatch

TypeInv == TypeOK /\ Room

LEMMA TypeInvInit == Init => TypeInv
  <1> SUFFICES ASSUME Init PROVE TypeInv
    OBVIOUS
  <1>1. watched \in [Paths -> SourceId \cup {NoSource}]
    BY DEF Init
  <1>2. entryCh \in Seq(Entry) /\ Len(entryCh) = 0 /\ batch \in Seq(Entry) /\ Len(batch) = 0
    BY DEF Init
  <1>3. nextSource \in 1 .. MaxSource + 1 /\ nextLine \in 1 .. MaxLine + 1 /\ boots \in 0 .. MaxBoot
    BY BoundAssumption DEF Init
  <1>4. /\ sources = {} /\ raw = {} /\ nextRow = 1 /\ main = "down" /\ known = {}
        /\ reloader = "exited" /\ toLoad = {} /\ eventLoop = "exited"
        /\ closed = FALSE /\ cancelled = FALSE
        /\ inserter = "exited" /\ resume = "select" /\ stored = {} /\ lost = {}
    BY DEF Init
  <1>5. Len(entryCh) <= ChanCap /\ Len(batch) <= MaxBatch
    BY <1>2, CapAssumption
  <1> QED BY ONLY <1>1, <1>2, <1>3, <1>4, <1>5 DEF TypeInv, TypeOK, Room

LEMMA TypeInvNext == TypeInv /\ [Next]_vars => TypeInv'
<1> SUFFICES ASSUME TypeInv, [Next]_vars PROVE TypeInv'
  OBVIOUS
<1> USE CapAssumption, BoundAssumption DEF TypeInv
<1>1. ASSUME NEW p \in Paths, NEW e \in BOOLEAN, CreateSource(p, e) PROVE TypeInv'
  BY <1>1 DEF TypeOK, Room, CreateSource, mainVars, loadVars, readVars, chVars, insVars,
              histVars, SourceId, Source
<1>2. ASSUME NEW s \in sources, DeleteSource(s) PROVE TypeInv'
  BY <1>2 DEF TypeOK, Room, DeleteSource, mainVars, loadVars, readVars, chVars, insVars,
              histVars
<1>3. CASE Boot
  <2>1. watched' \in [Paths -> SourceId \cup {NoSource}]
    BY <1>3 DEF Boot
  <2>2. entryCh' \in Seq(Entry) /\ Len(entryCh') = 0 /\ batch' \in Seq(Entry) /\ Len(batch') = 0
    BY <1>3 DEF Boot
  <2>3. toLoad' \subseteq Source /\ boots' \in 0 .. MaxBoot
    BY <1>3 DEF Boot, Enabled, TypeOK
  <2>4. /\ main' = "loading" /\ known' = {} /\ reloader' = "loading" /\ eventLoop' = "spawned"
        /\ closed' = FALSE /\ cancelled' = FALSE /\ inserter' = "select" /\ resume' = "select"
        /\ UNCHANGED <<sources, nextSource, raw, nextRow, nextLine, stored, lost>>
    BY <1>3 DEF Boot, dbVars, histVars
  <2>5. Len(entryCh') <= ChanCap /\ Len(batch') < MaxBatch /\ Len(batch') <= MaxBatch
    BY <2>2
  <2> QED BY <2>1, <2>2, <2>3, <2>4, <2>5 DEF TypeOK, Room
<1>4. CASE Signal
  BY <1>4 DEF TypeOK, Room, Signal, dbVars, loadVars, readVars, chVars, insVars, histVars,
              ShuttingDown
<1>5. CASE Main
  <2>1. main' \in {"serving"} \cup ShuttingDown /\ closed' \in BOOLEAN /\ cancelled' \in BOOLEAN
    BY <1>5 DEF TypeOK, Main, Serve, StopWatcher, WatcherStopped, CloseChannel,
                CancelBatch, Stopped, chVars, ShuttingDown
  <2>2. UNCHANGED <<dbVars, boots, loadVars, readVars, entryCh, insVars, histVars>>
    BY <1>5 DEF Main, Serve, StopWatcher, WatcherStopped, CloseChannel, CancelBatch,
                Stopped, chVars
  <2> QED BY <2>1, <2>2 DEF TypeOK, Room, dbVars, loadVars, readVars, insVars, histVars
<1>6. CASE Crash
  <2>1. Lines(batch) \subseteq Line /\ Lines(entryCh) \subseteq Line
    BY LinesAreLines DEF TypeOK
  <2>2. entryCh' \in Seq(Entry) /\ Len(entryCh') = 0 /\ batch' \in Seq(Entry) /\ Len(batch') = 0
    BY <1>6 DEF Crash
  <2> QED BY <1>6, <2>1, <2>2 DEF TypeOK, Room, Crash, GiveUp, dbVars
<1>7. CASE LoadQuery \/ LoadEnd \/ ReloadExit
  BY <1>7, ZenonT(60) DEF TypeOK, Room, LoadQuery, LoadEnd, ReloadExit, Enabled, dbVars, mainVars,
              readVars, chVars, insVars, histVars
<1>8. ASSUME NEW s \in toLoad, LoadRow(s) \/ LoadRowFails(s) PROVE TypeInv'
  BY <1>8, SMTT(30) DEF TypeOK, Room, LoadRow, LoadRowFails, dbVars, mainVars, readVars, chVars,
              insVars, histVars, Source, NoSource
<1>9. CASE LoopStart \/ LoopExit
  BY <1>9, ZenonT(60) DEF TypeOK, Room, LoopStart, LoopExit, dbVars, mainVars, loadVars, chVars,
              insVars, histVars
<1>10. ASSUME NEW p \in Paths, HandleLine(p) PROVE TypeInv'
  <2>1. [sid |-> watched[p], line |-> nextLine] \in Entry
    BY <1>10 DEF TypeOK, HandleLine, Entry, NoSource
  <2>2. /\ Append(entryCh, [sid |-> watched[p], line |-> nextLine]) \in Seq(Entry)
        /\ Len(Append(entryCh, [sid |-> watched[p], line |-> nextLine])) = Len(entryCh) + 1
    BY <2>1, LinesAppend DEF TypeOK
  <2>3. entryCh' \in Seq(Entry) /\ Len(entryCh') <= ChanCap
    <3>1. CASE Len(entryCh) < ChanCap
      <4>1. entryCh' = Append(entryCh, [sid |-> watched[p], line |-> nextLine])
        BY <1>10, <3>1 DEF HandleLine
      <4> QED BY <2>2, <3>1, <4>1 DEF TypeOK
    <3>2. CASE ~(Len(entryCh) < ChanCap)
      <4>1. entryCh' = entryCh
        BY <1>10, <3>2 DEF HandleLine
      <4> QED BY <4>1 DEF TypeOK
    <3> QED BY <3>1, <3>2
  <2>4. nextLine \in Line /\ nextLine' \in 1 .. MaxLine + 1
    BY <1>10 DEF TypeOK, HandleLine, Line
  <2>5. lost' \subseteq Line
    BY <1>10, <2>4 DEF TypeOK, HandleLine, GiveUp
  <2> QED BY <1>10, <2>3, <2>4, <2>5 DEF TypeOK, Room, HandleLine, dbVars, mainVars, loadVars,
                                   insVars
<1>11. CASE Receive
  <2>1. /\ Head(entryCh) \in Entry
        /\ entryCh' \in Seq(Entry) /\ Len(entryCh') <= ChanCap
    BY <1>11, LinesTail DEF TypeOK, Receive
  <2>2. batch' = Append(batch, Head(entryCh))
    BY <1>11 DEF Receive, Flush
  <2>3. batch' \in Seq(Entry) /\ Len(batch') = Len(batch) + 1
    BY <2>1, <2>2, LinesAppend DEF TypeOK
  <2>4. /\ Len(batch) + 1 <= MaxBatch
        /\ inserter' \in {"select", "drain"} => Len(batch') < MaxBatch
        /\ inserter' \in {"select", "drain", "flush"} /\ resume' \in {"select", "drain", "exited"}
    BY <1>11, <2>2, <2>3 DEF TypeOK, Room, Receive, Flush
  <2> QED BY <1>11, <2>1, <2>3, <2>4 DEF TypeOK, Room, Receive, dbVars, mainVars,
                                         loadVars, readVars, histVars
<1>12. CASE ChannelClosed \/ Tick \/ ContextDone \/ ExecStart
  BY <1>12 DEF TypeOK, Room, ChannelClosed, Tick, ContextDone, ExecStart, Flush, dbVars,
               mainVars, loadVars, readVars, chVars, histVars
<1>13. CASE InsertBatch
  <2>1. \A i \in 1 .. Len(batch) : batch[i] \in Entry
    BY DEF TypeOK
  <2>2. raw' \subseteq [id : Nat, sid : SourceId, line : Line] /\ nextRow' \in Nat
    BY <1>13, <2>1 DEF TypeOK, InsertBatch, Entry
  <2>3. stored' \subseteq Line
    BY <1>13, <2>1 DEF TypeOK, InsertBatch, Lines, Entry
  <2>4. batch' \in Seq(Entry) /\ Len(batch') = 0
    BY <1>13 DEF InsertBatch
  <2> QED BY <1>13, <2>2, <2>3, <2>4 DEF TypeOK, Room, InsertBatch, mainVars, loadVars,
                                         readVars, chVars
<1>14. CASE InsertFails
  <2>1. lost' \subseteq Line
    BY <1>14, LinesAreLines DEF TypeOK, InsertFails, GiveUp
  <2>2. batch' \in Seq(Entry) /\ Len(batch') = 0
    BY <1>14 DEF InsertFails
  <2> QED BY <1>14, <2>1, <2>2 DEF TypeOK, Room, InsertFails, dbVars, mainVars, loadVars,
                                   readVars, chVars
<1>15. CASE UNCHANGED vars
  BY <1>15 DEF TypeOK, Room, vars, dbVars, mainVars, loadVars, readVars, chVars, insVars,
               histVars
<1> QED
  BY <1>1, <1>2, <1>3, <1>4, <1>5, <1>6, <1>7, <1>8, <1>9, <1>10, <1>11, <1>12, <1>13,
     <1>14, <1>15 DEF Next, Users, Loader, EventLoop, Inserter

(* Every variable keeps its type; in particular the channel and the batch  *)
(* never hold more than their capacities (main.go: entryCh, maxBatchSize). *)
THEOREM TypeCorrect == Spec => []TypeOK
<1>1. TypeInv => TypeOK
  BY DEF TypeInv
<1> QED BY <1>1, TypeInvInit, TypeInvNext, PTL DEF Spec
-----------------------------------------------------------------------------
(* The order of the shutdown.  The event loop runs neither before main is  *)
(* done loading nor after w.Stop() has returned; entryCh is closed after   *)
(* that; and the inserter returns only when it has seen the closed channel *)
(* empty, which nobody can fill again.                                     *)
Loop ==
  /\ main \in {"loading", "close channel", "cancel batch", "wait batch", "stopped", "down"}
       => eventLoop # "running"
  /\ closed => main \in {"cancel batch", "wait batch", "stopped", "down"}

Drain ==
  /\ inserter = "exited" => batch = <<>> /\ entryCh = <<>> /\ (main = "down" \/ closed)
  /\ inserter \in {"flush", "exec"} /\ resume = "exited" => closed /\ entryCh = <<>>
  /\ main \in {"stopped", "down"} => inserter = "exited"

ShutdownInv == Loop /\ Drain

LEMMA ShutdownInit == Init => ShutdownInv
  BY DEF Init, ShutdownInv, Loop, Drain

LEMMA ShutdownNext == ShutdownInv /\ [Next]_vars => ShutdownInv'
<1> SUFFICES ASSUME ShutdownInv, [Next]_vars PROVE ShutdownInv'
  OBVIOUS
<1> USE DEF ShutdownInv, Loop, Drain
<1>1. CASE Users
  <2>1. UNCHANGED <<main, eventLoop, closed, entryCh, inserter, resume, batch>>
    BY <1>1 DEF Users, CreateSource, DeleteSource, mainVars, readVars, chVars, insVars
  <2> QED BY <2>1
<1>2. CASE Boot
  BY <1>2 DEF Boot
<1>3. CASE Signal
  BY <1>3 DEF Signal, readVars, chVars, insVars
<1>4. CASE Main
  <2>1. CASE Serve
    BY <2>1 DEF Serve, readVars, chVars, insVars
  <2>2. CASE StopWatcher
    BY <2>2 DEF StopWatcher, readVars, chVars, insVars
  <2>3. CASE WatcherStopped
    BY <2>3 DEF WatcherStopped, readVars, chVars, insVars
  <2>4. CASE CloseChannel
    BY <2>4 DEF CloseChannel, readVars, insVars
  <2>5. CASE CancelBatch
    BY <2>5 DEF CancelBatch, readVars, insVars
  <2>6. CASE Stopped
    BY <2>6 DEF Stopped, readVars, chVars, insVars
  <2> QED BY <1>4, <2>1, <2>2, <2>3, <2>4, <2>5, <2>6 DEF Main
<1>5. CASE Crash
  BY <1>5 DEF Crash
<1>6. CASE Loader
  <2>1. UNCHANGED <<main, eventLoop, closed, entryCh, inserter, resume, batch>>
    BY <1>6 DEF Loader, LoadQuery, LoadEnd, ReloadExit, LoadRow, LoadRowFails, mainVars,
                readVars, chVars, insVars
  <2> QED BY <2>1
<1>7. CASE LoopStart \/ LoopExit
  <2>1. UNCHANGED <<main, closed, entryCh, inserter, resume, batch>>
    BY <1>7 DEF LoopStart, LoopExit, mainVars, chVars, insVars
  <2>2. eventLoop' = "exited" \/ main \in {"serving", "stop reload"}
    BY <1>7 DEF LoopStart, LoopExit
  <2> QED BY <2>1, <2>2
<1>8. ASSUME NEW p \in Paths, HandleLine(p) PROVE ShutdownInv'
  <2>1. ~closed /\ inserter # "exited" /\ main # "down"
    BY <1>8 DEF HandleLine
  <2>2. UNCHANGED <<main, eventLoop, closed, inserter, resume, batch>>
    BY <1>8 DEF HandleLine, mainVars, insVars
  <2> QED BY <2>1, <2>2
<1>9. CASE Receive
  BY <1>9 DEF Receive, Flush, mainVars, readVars
<1>10. CASE ChannelClosed \/ Tick \/ ContextDone \/ ExecStart
  <2>1. UNCHANGED <<main, eventLoop, closed, entryCh, batch>> /\ inserter # "exited"
    BY <1>10 DEF ChannelClosed, Tick, ContextDone, ExecStart, Flush, mainVars, readVars,
                 chVars
  <2>2. CASE ChannelClosed
    BY <2>1, <2>2 DEF ChannelClosed, Flush
  <2>3. CASE Tick
    BY <2>1, <2>3 DEF Tick, Flush
  <2>4. CASE ContextDone
    BY <2>1, <2>4 DEF ContextDone
  <2>5. CASE ExecStart
    BY <2>1, <2>5 DEF ExecStart
  <2> QED BY <1>10, <2>2, <2>3, <2>4, <2>5
<1>11. CASE InsertBatch \/ InsertFails
  <2>1. /\ UNCHANGED <<main, eventLoop, closed, entryCh>>
        /\ inserter \in {"flush", "exec"} /\ inserter' = resume /\ resume' = resume
        /\ batch' = <<>>
    BY <1>11 DEF InsertBatch, InsertFails, mainVars, readVars, chVars
  <2> QED BY <2>1
<1>12. CASE UNCHANGED vars
  BY <1>12 DEF vars, mainVars, readVars, chVars, insVars
<1> QED
  BY <1>1, <1>2, <1>3, <1>4, <1>5, <1>6, <1>7, <1>8, <1>9, <1>10, <1>11, <1>12
     DEF Next, EventLoop, Inserter

(* No send on a closed channel, however the event loop, main and a crash   *)
(* interleave (main.go: w.Stop() before close(entryCh)).                   *)
THEOREM SendsOnOpenChannel == Spec => []NoSendOnClosedChannel
<1>1. ShutdownInv => NoSendOnClosedChannel
  BY DEF ShutdownInv, Loop, NoSendOnClosedChannel
<1> QED BY <1>1, ShutdownInit, ShutdownNext, PTL DEF Spec

(* A clean exit leaves no entry in memory (main.go: batchWg.Wait(), the    *)
(* drain of runBatchInserter).                                             *)
THEOREM ExitDrains == Spec => []DrainedAtExit
<1>1. ShutdownInv => DrainedAtExit
  BY LinesEmpty DEF ShutdownInv, Drain, DrainedAtExit, Pending
<1> QED BY <1>1, ShutdownInit, ShutdownNext, PTL DEF Spec
-----------------------------------------------------------------------------
(* The order of the lines: raw_logs, then the batch, then the channel, then*)
(* what is still to be read; and every line read is in exactly one of four *)
(* states.                                                                 *)
Ordered(q) == \A i, j \in 1 .. Len(q) : i < j => q[i].line < q[j].line

LEMMA OrderedAppend ==
  ASSUME NEW q \in Seq(Entry), NEW e \in Entry, Ordered(q),
         \A l \in Lines(q) : l < e.line
  PROVE  Ordered(Append(q, e))
  <1> DEFINE a == Append(q, e)
  <1>1. /\ Len(a) = Len(q) + 1 /\ a[Len(q) + 1] = e
        /\ \A i \in 1 .. Len(q) : a[i] = q[i]
    OBVIOUS
  <1>2. \A i \in 1 .. Len(q) : q[i].line < e.line
    BY DEF Lines
  <1>3. ASSUME NEW i \in 1 .. Len(a), NEW j \in 1 .. Len(a), i < j PROVE a[i].line < a[j].line
    <2>1. i \in 1 .. Len(q) /\ (j \in 1 .. Len(q) \/ j = Len(q) + 1)
      BY <1>1, <1>3
    <2> HIDE DEF a
    <2>2. CASE j \in 1 .. Len(q)
      BY <2>1, <2>2, <1>1, <1>3 DEF Ordered
    <2>3. CASE j = Len(q) + 1
      BY <2>1, <2>3, <1>1, <1>2
    <2> QED BY <2>1, <2>2, <2>3
  <1> QED BY <1>3 DEF Ordered

LEMMA OrderedTail ==
  ASSUME NEW q \in Seq(Entry), q # <<>>, Ordered(q)
  PROVE  /\ Ordered(Tail(q))
         /\ \A l \in Lines(Tail(q)) : Head(q).line < l
  <1> DEFINE t == Tail(q)
  <1>1. /\ Len(t) = Len(q) - 1 /\ Len(q) \in Nat \ {0} /\ Head(q) = q[1]
        /\ \A i \in 1 .. Len(t) : t[i] = q[i + 1]
    OBVIOUS
  <1> HIDE DEF t
  <1>2. ASSUME NEW i \in 1 .. Len(t), NEW j \in 1 .. Len(t), i < j PROVE t[i].line < t[j].line
    <2>1. i + 1 \in 1 .. Len(q) /\ j + 1 \in 1 .. Len(q) /\ i + 1 < j + 1
      BY <1>1, <1>2
    <2> QED BY <1>1, <2>1 DEF Ordered
  <1>3. ASSUME NEW i \in 1 .. Len(t) PROVE Head(q).line < t[i].line
    <2>1. 1 \in 1 .. Len(q) /\ i + 1 \in 1 .. Len(q) /\ 1 < i + 1
      BY <1>1
    <2> QED BY <1>1, <2>1 DEF Ordered
  <1>4. Ordered(t)
    BY <1>2 DEF Ordered
  <1>5. \A l \in Lines(t) : Head(q).line < l
    BY <1>3 DEF Lines
  <1> QED BY <1>4, <1>5 DEF t

Order ==
  /\ Ordered(batch) /\ Ordered(entryCh)
  /\ \A b \in Lines(batch), c \in Lines(entryCh) : b < c
  /\ \A l \in Pending : l < nextLine
  /\ \A r \in raw : /\ r.id <= nextRow /\ r.line < nextLine
                    /\ \A l \in Pending : r.line < l
  /\ \A r1, r2 \in raw : r1.id < r2.id => r1.line < r2.line

Accounts ==
  /\ stored \cap lost = {}
  /\ Pending \cap (stored \cup lost) = {}
  /\ Pending \cup stored \cup lost = {l \in Line : l < nextLine}

OrderInv == Order /\ Accounts

LEMMA OrderInit == Init => OrderInv
  <1> SUFFICES ASSUME Init PROVE OrderInv
    OBVIOUS
  <1>1. /\ Lines(batch) = {} /\ Lines(entryCh) = {} /\ Pending = {}
        /\ Ordered(batch) /\ Ordered(entryCh)
    BY LinesEmpty DEF Init, Pending, Ordered
  <1>2. raw = {} /\ stored = {} /\ lost = {} /\ {l \in Line : l < nextLine} = {}
    BY DEF Init, Line
  <1> QED BY <1>1, <1>2 DEF OrderInv, Order, Accounts

(* A step that leaves the memory and raw_logs alone, or takes rows away.   *)
LEMMA OrderKept ==
  ASSUME OrderInv, raw' \subseteq raw,
         UNCHANGED <<nextRow, nextLine, entryCh, batch, stored, lost>>
  PROVE  OrderInv'
  <1>1. Pending' = Pending /\ Lines(batch)' = Lines(batch) /\ Lines(entryCh)' = Lines(entryCh)
    BY DEF Pending, Lines
  <1>2. Ordered(batch)' = Ordered(batch) /\ Ordered(entryCh)' = Ordered(entryCh)
    BY DEF Ordered
  <1>3. Order'
    BY <1>1, <1>2 DEF OrderInv, Order
  <1>4. Accounts'
    BY <1>1 DEF OrderInv, Accounts
  <1> QED BY <1>3, <1>4 DEF OrderInv

(* A step that settles the whole batch, as rows or as lost lines.          *)
LEMMA OrderSettled ==
  ASSUME TypeInv, OrderInv, batch' = <<>>, UNCHANGED <<nextLine, entryCh>>,
         stored' \cup lost' = stored \cup lost \cup Lines(batch),
         stored' \cap lost' = {}
  PROVE  /\ Accounts'
         /\ Pending' = Lines(entryCh)
         /\ Lines(batch)' = {}
         /\ Ordered(batch)' /\ Ordered(entryCh)'
  <1>1. Lines(batch)' = {} /\ Ordered(batch)'
    BY LinesEmpty DEF Ordered
  <1>2. Lines(entryCh)' = Lines(entryCh) /\ Ordered(entryCh)'
    BY DEF OrderInv, Order, Ordered
  <1>3. Pending' = Lines(entryCh)
    BY <1>1, <1>2 DEF Pending
  <1>4. Lines(batch) \cap Lines(entryCh) = {}
    <2>1. Lines(batch) \subseteq Line /\ Lines(entryCh) \subseteq Line
      BY LinesAreLines DEF TypeInv, TypeOK
    <2> QED BY <2>1, BoundAssumption DEF OrderInv, Order, Line
  <1>5. Accounts'
    <2>1. Pending = Lines(batch) \cup Lines(entryCh)
      BY DEF Pending
    <2> QED BY <2>1, <1>3, <1>4 DEF OrderInv, Accounts
  <1> QED BY <1>1, <1>2, <1>3, <1>5

LEMMA OrderNext == TypeInv /\ ShutdownInv /\ OrderInv /\ [Next]_vars => OrderInv'
<1> SUFFICES ASSUME TypeInv, ShutdownInv, OrderInv, [Next]_vars PROVE OrderInv'
  OBVIOUS
<1>1. CASE Users
  <2>1. raw' \subseteq raw
    BY <1>1 DEF Users, CreateSource, DeleteSource
  <2>2. UNCHANGED <<nextRow, nextLine, entryCh, batch, stored, lost>>
    BY <1>1 DEF Users, CreateSource, DeleteSource, readVars, chVars, insVars, histVars
  <2> QED BY <2>1, <2>2, OrderKept
<1>2. CASE Boot \/ Crash
  <2>1. /\ entryCh' = <<>> /\ batch' = <<>>
        /\ UNCHANGED <<raw, nextRow, nextLine, stored>>
    BY <1>2 DEF Boot, Crash, dbVars, histVars
  <2>2. /\ Lines(batch)' = {} /\ Lines(entryCh)' = {} /\ Pending' = {}
        /\ Ordered(batch)' /\ Ordered(entryCh)'
    BY <2>1, LinesEmpty DEF Pending, Ordered
  <2>3. Order'
    BY <2>1, <2>2 DEF OrderInv, Order
  <2>4. lost' = lost \cup Pending
    <3>1. CASE Boot
      <4>1. batch = <<>> /\ entryCh = <<>> /\ lost' = lost
        BY <3>1 DEF Boot, ShutdownInv, Drain, histVars
      <4> QED BY <4>1, LinesEmpty DEF Pending
    <3>2. CASE Crash
      BY <3>2 DEF Crash, GiveUp, Pending
    <3> QED BY <1>2, <3>1, <3>2
  <2>5. Accounts'
    BY <2>1, <2>2, <2>4 DEF OrderInv, Accounts
  <2> QED BY <2>3, <2>5 DEF OrderInv
<1>3. CASE Signal \/ Main
  <2>1. UNCHANGED <<raw, nextRow, nextLine, entryCh, batch, stored, lost>>
    BY <1>3 DEF Signal, Main, Serve, StopWatcher, WatcherStopped, CloseChannel,
                CancelBatch, Stopped, dbVars, readVars, chVars, insVars, histVars
  <2> QED BY <2>1, OrderKept
<1>4. CASE Loader \/ LoopStart \/ LoopExit
  <2>1. UNCHANGED <<raw, nextRow, nextLine, entryCh, batch, stored, lost>>
    BY <1>4 DEF Loader, LoadQuery, LoadEnd, ReloadExit, LoadRow, LoadRowFails, LoopStart,
                LoopExit, dbVars, readVars, chVars, insVars, histVars
  <2> QED BY <2>1, OrderKept
<1>5. ASSUME NEW p \in Paths, HandleLine(p) PROVE OrderInv'
  <2> DEFINE e == [sid |-> watched[p], line |-> nextLine]
  <2>1. e \in Entry /\ e.line = nextLine /\ nextLine \in Line /\ nextLine' = nextLine + 1
    BY <1>5 DEF TypeInv, TypeOK, HandleLine, Entry, NoSource
  <2>2. UNCHANGED <<raw, nextRow, batch, stored>>
    BY <1>5 DEF HandleLine, dbVars, insVars
  <2>3. {l \in Line : l < nextLine'} = {l \in Line : l < nextLine} \cup {nextLine}
    BY <2>1, BoundAssumption DEF Line
  <2>4. entryCh \in Seq(Entry) /\ batch \in Seq(Entry) /\ nextLine \in Nat
    BY <2>1, BoundAssumption DEF TypeInv, TypeOK, Line
  <2>5. Lines(batch)' = Lines(batch) /\ Ordered(batch)'
    BY <2>2 DEF OrderInv, Order, Lines, Ordered
  <2>6. Lines(batch) \subseteq Line /\ Lines(entryCh) \subseteq Line /\ Pending \subseteq Line
    BY <2>4, LinesAreLines DEF Pending
  <2>7. \A r \in raw : r.line \in Nat
    BY BoundAssumption DEF TypeInv, TypeOK, Line
  <2> HIDE DEF e
  <2>8. CASE entryCh' = Append(entryCh, e) /\ lost' = lost
    <3>1. Ordered(entryCh)'
      BY <2>1, <2>4, <2>8, OrderedAppend DEF OrderInv, Order, Pending
    <3>2. Lines(entryCh)' = Lines(entryCh) \cup {nextLine}
      BY <2>1, <2>4, <2>8, LinesAppend DEF Lines
    <3>3. Pending' = Pending \cup {nextLine}
      BY <2>5, <3>2 DEF Pending
    <3>4. Order'
      BY <2>1, <2>2, <2>4, <2>5, <2>6, <2>7, <3>1, <3>2, <3>3, BoundAssumption
         DEF OrderInv, Order, Pending, Line
    <3>5. nextLine \notin stored \cup lost \cup Pending
      BY <2>4 DEF OrderInv, Accounts
    <3>6. Accounts'
      BY <2>2, <2>3, <2>8, <3>3, <3>5 DEF OrderInv, Accounts
    <3> QED BY <3>4, <3>6 DEF OrderInv
  <2>9. CASE entryCh' = entryCh /\ lost' = lost \cup {nextLine}
    <3>1. Lines(entryCh)' = Lines(entryCh) /\ Ordered(entryCh)'
      BY <2>9 DEF OrderInv, Order, Lines, Ordered
    <3>2. Pending' = Pending
      BY <2>5, <3>1 DEF Pending
    <3>3. Order'
      BY <2>1, <2>2, <2>4, <2>5, <2>6, <2>7, <3>1, <3>2, BoundAssumption
         DEF OrderInv, Order, Line
    <3>4. nextLine \notin stored \cup Pending
      BY <2>4 DEF OrderInv, Accounts
    <3>5. Accounts'
      BY <2>2, <2>3, <2>9, <3>2, <3>4 DEF OrderInv, Accounts
    <3> QED BY <3>3, <3>5 DEF OrderInv
  <2> QED BY <1>5, <2>8, <2>9 DEF HandleLine, GiveUp, e
<1>6. CASE Receive
  <2>1. entryCh \in Seq(Entry) /\ batch \in Seq(Entry) /\ entryCh # <<>>
    BY <1>6 DEF TypeInv, TypeOK, Receive
  <2>2. /\ batch' = Append(batch, Head(entryCh)) /\ entryCh' = Tail(entryCh)
        /\ UNCHANGED <<raw, nextRow, nextLine, stored, lost>>
    BY <1>6 DEF Receive, Flush, dbVars, readVars, histVars
  <2>3. /\ Head(entryCh) \in Entry
        /\ Lines(entryCh) = {Head(entryCh).line} \cup Lines(Tail(entryCh))
        /\ Lines(Append(batch, Head(entryCh))) = Lines(batch) \cup {Head(entryCh).line}
    BY <2>1, LinesTail, LinesAppend
  <2>4. /\ Lines(batch)' = Lines(batch) \cup {Head(entryCh).line}
        /\ Lines(entryCh)' = Lines(Tail(entryCh))
    BY <2>2, <2>3 DEF Lines
  <2>5. Pending' = Pending
    BY <2>3, <2>4 DEF Pending
  <2>6. Ordered(Append(batch, Head(entryCh)))
    BY <2>1, <2>3, OrderedAppend DEF OrderInv, Order
  <2>7. Ordered(Tail(entryCh)) /\ \A l \in Lines(Tail(entryCh)) : Head(entryCh).line < l
    BY <2>1, OrderedTail DEF OrderInv, Order
  <2>8. Ordered(batch)' /\ Ordered(entryCh)'
    BY <2>2, <2>6, <2>7 DEF Ordered
  <2>9. \A b \in Lines(batch)', c \in Lines(entryCh)' : b < c
    BY <2>3, <2>4, <2>7 DEF OrderInv, Order
  <2>10. Order'
    BY <2>2, <2>5, <2>8, <2>9 DEF OrderInv, Order
  <2>11. Accounts'
    BY <2>2, <2>5 DEF OrderInv, Accounts
  <2> QED BY <2>10, <2>11 DEF OrderInv
<1>7. CASE ChannelClosed \/ Tick \/ ContextDone \/ ExecStart
  <2>1. UNCHANGED <<raw, nextRow, nextLine, entryCh, batch, stored, lost>>
    BY <1>7 DEF ChannelClosed, Tick, ContextDone, ExecStart, Flush, dbVars, readVars,
                chVars, histVars
  <2> QED BY <2>1, OrderKept
<1>8. CASE InsertBatch
  <2> DEFINE new == {[id |-> nextRow + i, sid |-> batch[i].sid, line |-> batch[i].line] :
                       i \in 1 .. Len(batch)}
  <2>1. /\ raw' = raw \cup new /\ nextRow' = nextRow + Len(batch) /\ batch' = <<>>
        /\ stored' = stored \cup Lines(batch) /\ UNCHANGED <<nextLine, entryCh, lost>>
    BY <1>8 DEF InsertBatch, readVars, chVars
  <2>2. /\ Accounts' /\ Pending' = Lines(entryCh)
        /\ Lines(batch)' = {} /\ Ordered(batch)' /\ Ordered(entryCh)'
    <3>1. Lines(batch) \cap lost = {}
      BY DEF OrderInv, Accounts, Pending
    <3>2. stored' \cap lost' = {} /\ stored' \cup lost' = stored \cup lost \cup Lines(batch)
      BY <2>1, <3>1 DEF OrderInv, Accounts
    <3> QED BY <2>1, <3>2, OrderSettled
  <2>3. /\ Len(batch) \in Nat /\ nextRow \in Nat
        /\ \A r \in raw : r.id \in Nat
    BY DEF TypeInv, TypeOK
  <2>4. ASSUME NEW r \in new
        PROVE  /\ r.line \in Lines(batch)
               /\ \E i \in 1 .. Len(batch) : r.id = nextRow + i /\ r.line = batch[i].line
    BY DEF Lines
  <2>5. ASSUME NEW r \in new
        PROVE  r.id <= nextRow' /\ r.line < nextLine /\ \A l \in Lines(entryCh) : r.line < l
    BY <2>1, <2>3, <2>4 DEF OrderInv, Order, Pending
  <2>6. ASSUME NEW r \in raw
        PROVE  r.id <= nextRow' /\ r.line < nextLine /\ \A l \in Lines(entryCh) : r.line < l
    BY <2>1, <2>3 DEF OrderInv, Order, Pending
  <2>7. ASSUME NEW r1 \in raw', NEW r2 \in raw', r1.id < r2.id PROVE r1.line < r2.line
    <3>1. CASE r1 \in raw /\ r2 \in raw
      BY <2>7, <3>1 DEF OrderInv, Order
    <3>2. CASE r1 \in raw /\ r2 \in new
      BY <2>4, <3>2 DEF OrderInv, Order, Pending
    <3>3. CASE r1 \in new /\ r2 \in raw
      <4>1. r2.id <= nextRow /\ nextRow < r1.id
        BY <2>3, <2>4, <3>3 DEF OrderInv, Order
      <4> QED BY <2>3, <2>4, <2>7, <3>3, <4>1
    <3>4. CASE r1 \in new /\ r2 \in new
      <4>1. PICK i \in 1 .. Len(batch) : r1.id = nextRow + i /\ r1.line = batch[i].line
        BY <2>4, <3>4
      <4>2. PICK j \in 1 .. Len(batch) : r2.id = nextRow + j /\ r2.line = batch[j].line
        BY <2>4, <3>4
      <4>3. i < j
        BY <2>3, <2>7, <4>1, <4>2
      <4> QED BY <4>1, <4>2, <4>3 DEF OrderInv, Order, Ordered
    <3> QED BY <2>1, <3>1, <3>2, <3>3, <3>4
  <2> HIDE DEF new
  <2>8. ASSUME NEW r \in raw'
        PROVE  r.id <= nextRow' /\ r.line < nextLine' /\ \A l \in Pending' : r.line < l
    BY <2>1, <2>2, <2>5, <2>6
  <2>9. \A l \in Pending' : l < nextLine'
    BY <2>1, <2>2 DEF OrderInv, Order, Pending
  <2>10. Order'
    BY <2>2, <2>7, <2>8, <2>9 DEF Order
  <2> QED BY <2>2, <2>10 DEF OrderInv
<1>9. CASE InsertFails
  <2>1. /\ UNCHANGED <<raw, nextRow, nextLine, entryCh, stored>> /\ batch' = <<>>
        /\ lost' = lost \cup Lines(batch)
    BY <1>9 DEF InsertFails, GiveUp, dbVars, readVars, chVars
  <2>2. /\ Accounts' /\ Pending' = Lines(entryCh)
        /\ Lines(batch)' = {} /\ Ordered(batch)' /\ Ordered(entryCh)'
    <3>1. Lines(batch) \cap stored = {}
      BY DEF OrderInv, Accounts, Pending
    <3>2. stored' \cap lost' = {} /\ stored' \cup lost' = stored \cup lost \cup Lines(batch)
      BY <2>1, <3>1 DEF OrderInv, Accounts
    <3> QED BY <2>1, <3>2, OrderSettled
  <2>3. Order'
    BY <2>1, <2>2 DEF OrderInv, Order, Pending
  <2> QED BY <2>2, <2>3 DEF OrderInv
<1>10. CASE UNCHANGED vars
  <2>1. UNCHANGED <<raw, nextRow, nextLine, entryCh, batch, stored, lost>>
    BY <1>10 DEF vars, dbVars, readVars, chVars, insVars, histVars
  <2> QED BY <2>1, OrderKept
<1> QED
  BY <1>1, <1>2, <1>3, <1>4, <1>5, <1>6, <1>7, <1>8, <1>9, <1>10
     DEF Next, EventLoop, Inserter

(* At most one row per line and in the order of the lines, whatever fails, *)
(* crashes or is deleted (main.go: runBatchInserter, insertBatch).         *)
THEOREM RowsAreOrdered == Spec => []RowsInLineOrder
<1>1. OrderInv => RowsInLineOrder
  BY DEF OrderInv, Order, RowsInLineOrder
<1> QED BY <1>1, TypeInvInit, TypeInvNext, ShutdownInit, ShutdownNext, OrderInit, OrderNext,
           PTL DEF Spec
-----------------------------------------------------------------------------
(* The collector implements LineFate.                                      *)
fates == [l \in Line |-> FateOf(l)]

(* Accounts says that FateOf's cases exclude each other.                   *)
LEMMA FateCases ==
  ASSUME Accounts, NEW l \in Line
  PROVE  /\ fates[l] = "stored"  <=> l \in stored
         /\ fates[l] = "lost"    <=> l \in lost
         /\ fates[l] = "pending" <=> l \in Pending
         /\ fates[l] = "unread"  <=> ~(l < nextLine)
  <1>1. fates[l] = FateOf(l)
    BY DEF fates
  <1>2. CASE l \in stored
    BY <1>1, <1>2 DEF FateOf, Accounts
  <1>3. CASE l \in lost
    BY <1>1, <1>3 DEF FateOf, Accounts
  <1>4. CASE l \in Pending
    BY <1>1, <1>4 DEF FateOf, Accounts
  <1>5. CASE l \notin stored \cup lost \cup Pending
    BY <1>1, <1>5 DEF FateOf, Accounts
  <1> QED BY <1>2, <1>3, <1>4, <1>5

LEMMA FateCasesNext ==
  ASSUME Accounts', NEW l \in Line
  PROVE  /\ fates'[l] = "stored"  <=> l \in stored'
         /\ fates'[l] = "lost"    <=> l \in lost'
         /\ fates'[l] = "pending" <=> l \in Pending'
         /\ fates'[l] = "unread"  <=> ~(l < nextLine')
  <1>1. fates'[l] = FateOf(l)'
    BY DEF fates
  <1>2. CASE l \in stored'
    BY <1>1, <1>2 DEF FateOf, Accounts
  <1>3. CASE l \in lost'
    BY <1>1, <1>3 DEF FateOf, Accounts
  <1>4. CASE l \in Pending'
    BY <1>1, <1>4 DEF FateOf, Accounts
  <1>5. CASE l \notin stored' \cup lost' \cup Pending'
    BY <1>1, <1>5 DEF FateOf, Accounts
  <1> QED BY <1>2, <1>3, <1>4, <1>5

LEMMA FateStutters ==
  ASSUME UNCHANGED <<entryCh, batch, stored, lost>>
  PROVE  fates' = fates
  <1>1. Pending' = Pending
    BY DEF Pending, Lines
  <1> QED BY <1>1 DEF fates, FateOf

(* S, the oldest of the pending lines, leaves the memory.                  *)
LEMMA FateSettles ==
  ASSUME TypeInv, Accounts, Accounts', nextLine' = nextLine,
         NEW S \in SUBSET Pending, Pending' = Pending \ S,
         NEW m \in S, \A k \in Pending : k \in S <=> k <= m,
         NEW f \in {"stored", "lost"},
         stored' = IF f = "stored" THEN stored \cup S ELSE stored,
         lost' = IF f = "lost" THEN lost \cup S ELSE lost
  PROVE  Promise!Settle(m, f) /\ m \in Line
  <1>1. Pending \subseteq Line
    BY DEF Accounts
  <1>2. fates[m] = "pending"
    BY <1>1, FateCases
  <1>3. ASSUME NEW k \in Line
        PROVE  fates'[k] = IF k <= m /\ fates[k] = "pending" THEN f ELSE fates[k]
    <2>1. /\ fates'[k] = "stored"  <=> k \in stored'
          /\ fates'[k] = "lost"    <=> k \in lost'
          /\ fates'[k] = "pending" <=> k \in Pending'
          /\ fates'[k] = "unread"  <=> ~(k < nextLine')
      BY FateCasesNext
    <2>2. CASE k \in S
      BY <2>1, <2>2, <1>1, FateCases
    <2>3. CASE k \notin S
      <3>1. ~(k <= m /\ fates[k] = "pending")
        BY <2>3, FateCases
      <3>2. fates'[k] \in {"stored", "lost", "pending", "unread"}
        BY DEF fates, FateOf
      <3> QED BY <2>1, <2>3, <3>1, <3>2, FateCases
    <2> QED BY <2>2, <2>3
  <1>4. fates' = [k \in Line |-> IF k <= m /\ fates[k] = "pending" THEN f ELSE fates[k]]
    BY <1>3 DEF fates
  <1> QED BY <1>1, <1>2, <1>4 DEF Promise!Settle, Promise!Line, Line, fates

(* A batch that is being inserted is not empty, so the last of its lines   *)
(* is the one up to which the pending lines are settled.                   *)
LEMMA LastOfBatch ==
  ASSUME TypeInv, OrderInv, batch # <<>>
  PROVE  \E m \in Lines(batch) : \A k \in Pending : k \in Lines(batch) <=> k <= m
  <1>1. batch \in Seq(Entry) /\ entryCh \in Seq(Entry) /\ Len(batch) \in 1 .. Len(batch)
    BY DEF TypeInv, TypeOK
  <1> DEFINE m == batch[Len(batch)].line
  <1>2. m \in Lines(batch)
    BY <1>1 DEF Lines
  <1>3. Lines(batch) \subseteq Nat /\ Lines(entryCh) \subseteq Nat
    BY <1>1, LinesAreLines, BoundAssumption DEF Line
  <1>4. ASSUME NEW i \in 1 .. Len(batch) PROVE batch[i].line <= m
    <2>1. i < Len(batch) \/ i = Len(batch)
      BY <1>1
    <2>2. batch[i].line \in Nat /\ m \in Nat
      BY <1>1, <1>2, <1>3 DEF Lines
    <2> QED BY <1>1, <2>1, <2>2 DEF OrderInv, Order, Ordered
  <1>5. \A k \in Lines(batch) : k <= m
    BY <1>4 DEF Lines
  <1>6. \A k \in Lines(entryCh) : ~(k <= m)
    BY <1>2, <1>3 DEF OrderInv, Order
  <1> HIDE DEF m
  <1> QED BY <1>2, <1>5, <1>6 DEF Pending

(* The newest pending line, up to which a crash settles everything.        *)
LEMMA LastPending ==
  ASSUME TypeInv, OrderInv, Pending # {}
  PROVE  \E m \in Pending : \A k \in Pending : k <= m
  <1>1. entryCh \in Seq(Entry) /\ Lines(batch) \subseteq Nat /\ Lines(entryCh) \subseteq Nat
    BY LinesAreLines, BoundAssumption DEF TypeInv, TypeOK, Line
  <1>2. CASE entryCh = <<>>
    <2>1. Pending = Lines(batch) /\ batch # <<>>
      BY <1>2, LinesEmpty DEF Pending
    <2> QED BY <2>1, LastOfBatch
  <1>3. CASE entryCh # <<>>
    <2> DEFINE m == entryCh[Len(entryCh)].line
    <2>1. Len(entryCh) \in 1 .. Len(entryCh) /\ m \in Lines(entryCh)
      BY <1>1, <1>3 DEF Lines
    <2>2. ASSUME NEW i \in 1 .. Len(entryCh) PROVE entryCh[i].line <= m
      <3>1. i < Len(entryCh) \/ i = Len(entryCh)
        BY <2>1
      <3>2. entryCh[i].line \in Nat /\ m \in Nat
        BY <1>1, <2>1 DEF Lines
      <3> QED BY <2>1, <3>1, <3>2 DEF OrderInv, Order, Ordered
    <2>3. \A k \in Lines(entryCh) : k <= m
      BY <2>2 DEF Lines
    <2>4. \A k \in Lines(batch) : k <= m
      BY <1>1, <2>1 DEF OrderInv, Order
    <2> HIDE DEF m
    <2> QED BY <2>1, <2>3, <2>4 DEF Pending
  <1> QED BY <1>2, <1>3

(* flush and insertBatch hold something to insert.                         *)
Busy == inserter \in {"flush", "exec"} => batch # <<>>

LEMMA BusyInit == Init => Busy
  BY DEF Init, Busy

LEMMA BusyNext == Busy /\ TypeInv /\ [Next]_vars => Busy'
<1> SUFFICES ASSUME Busy, TypeInv, [Next]_vars PROVE Busy'
  OBVIOUS
<1>1. CASE Receive
  <2>1. batch' = Append(batch, Head(entryCh)) /\ batch \in Seq(Entry)
    BY <1>1 DEF Receive, Flush, TypeInv, TypeOK
  <2>2. Head(entryCh) \in Entry
    BY <1>1, LinesTail DEF Receive, TypeInv, TypeOK
  <2> QED BY <2>1, <2>2 DEF Busy
<1>2. CASE ChannelClosed \/ Tick
  BY <1>2 DEF ChannelClosed, Tick, Flush, Busy
<1>3. CASE ContextDone \/ ExecStart
  BY <1>3 DEF ContextDone, ExecStart, Busy
<1>4. CASE InsertBatch \/ InsertFails
  BY <1>4 DEF InsertBatch, InsertFails, Busy, TypeInv, TypeOK
<1>5. CASE Boot \/ Crash
  BY <1>5 DEF Boot, Crash, Busy
<1>6. CASE Users \/ Signal \/ Main \/ Loader \/ EventLoop \/ UNCHANGED vars
  <2>1. UNCHANGED insVars
    BY <1>6 DEF Users, CreateSource, DeleteSource, Signal, Main, Serve, StopWatcher,
                WatcherStopped, CloseChannel, CancelBatch, Stopped, Loader, LoadQuery,
                LoadEnd, ReloadExit, LoadRow, LoadRowFails, EventLoop, LoopStart, LoopExit,
                HandleLine, vars
  <2> QED BY <2>1 DEF Busy, insVars
<1> QED BY <1>1, <1>2, <1>3, <1>4, <1>5, <1>6 DEF Next, Inserter

LEMMA FateInit == Init => Promise!Init
  <1> SUFFICES ASSUME Init PROVE Promise!Init
    OBVIOUS
  <1>1. stored = {} /\ lost = {} /\ Pending = {}
    BY LinesEmpty DEF Init, Pending
  <1> QED BY <1>1 DEF Promise!Init, Promise!Line, Line, FateOf

CollectorInv == TypeInv /\ ShutdownInv /\ OrderInv /\ Busy

LEMMA FateNext ==
  CollectorInv /\ OrderInv' /\ [Next]_vars => [Promise!Next]_fates
<1> SUFFICES ASSUME CollectorInv, OrderInv', [Next]_vars PROVE [Promise!Next]_fates
  OBVIOUS
<1> USE DEF CollectorInv
<1>1. CASE Users \/ Signal \/ Main \/ Loader \/ LoopStart \/ LoopExit \/ ChannelClosed
           \/ Tick \/ ContextDone \/ ExecStart \/ UNCHANGED vars
  <2>1. UNCHANGED <<entryCh, batch, stored, lost>>
    BY <1>1 DEF Users, CreateSource, DeleteSource, Signal, Main, Serve, StopWatcher,
                WatcherStopped, CloseChannel, CancelBatch, Stopped, Loader, LoadQuery,
                LoadEnd, ReloadExit, LoadRow, LoadRowFails, LoopStart, LoopExit,
                ChannelClosed, Tick, ContextDone, ExecStart, Flush, vars, chVars, insVars,
                histVars
  <2> QED BY <2>1, FateStutters
<1>2. CASE Boot
  <2>1. UNCHANGED <<entryCh, batch, stored, lost>>
    BY <1>2 DEF Boot, ShutdownInv, Drain, histVars
  <2> QED BY <2>1, FateStutters
<1>3. CASE Receive
  <2>1. Pending' = Pending /\ UNCHANGED <<stored, lost>>
    <3>1. entryCh \in Seq(Entry) /\ batch \in Seq(Entry) /\ entryCh # <<>>
      BY <1>3 DEF TypeInv, TypeOK, Receive
    <3>2. /\ batch' = Append(batch, Head(entryCh)) /\ entryCh' = Tail(entryCh)
          /\ UNCHANGED <<stored, lost>>
      BY <1>3 DEF Receive, Flush, histVars
    <3>3. /\ Head(entryCh) \in Entry
          /\ Lines(entryCh) = {Head(entryCh).line} \cup Lines(Tail(entryCh))
          /\ Lines(Append(batch, Head(entryCh))) = Lines(batch) \cup {Head(entryCh).line}
      BY <3>1, LinesTail, LinesAppend
    <3>4. /\ Lines(batch)' = Lines(batch) \cup {Head(entryCh).line}
          /\ Lines(entryCh)' = Lines(Tail(entryCh))
      BY <3>2, <3>3 DEF Lines
    <3> QED BY <3>2, <3>3, <3>4 DEF Pending
  <2> QED BY <2>1 DEF fates, FateOf
<1>4. ASSUME NEW p \in Paths, HandleLine(p) PROVE [Promise!Next]_fates
  <2>1. /\ nextLine \in Line /\ nextLine' = nextLine + 1 /\ stored' = stored
        /\ batch' = batch /\ nextLine \in Nat
    BY <1>4, BoundAssumption DEF HandleLine, insVars, Line
  <2>2. Pending' \cup lost' = Pending \cup lost \cup {nextLine} /\ Pending \subseteq Pending'
        /\ lost \subseteq lost'
    <3>1. entryCh \in Seq(Entry) /\ [sid |-> watched[p], line |-> nextLine] \in Entry
      BY <1>4 DEF TypeInv, TypeOK, HandleLine, Entry, NoSource
    <3>2. CASE Len(entryCh) < ChanCap
      <4>1. entryCh' = Append(entryCh, [sid |-> watched[p], line |-> nextLine]) /\ lost' = lost
        BY <1>4, <3>2 DEF HandleLine
      <4>2. Lines(entryCh') = Lines(entryCh) \cup {nextLine}
        BY <3>1, <4>1, LinesAppend
      <4> QED BY <2>1, <4>1, <4>2 DEF Pending
    <3>3. CASE ~(Len(entryCh) < ChanCap)
      <4>1. entryCh' = entryCh /\ lost' = lost \cup {nextLine}
        BY <1>4, <3>3 DEF HandleLine, GiveUp
      <4> QED BY <2>1, <4>1 DEF Pending, Lines
    <3> QED BY <3>2, <3>3
  <2>3. fates[nextLine] = "unread" /\ \A k \in Line : k < nextLine => fates[k] # "unread"
    BY <2>1, FateCases DEF OrderInv
  <2>4. fates'[nextLine] \in {"pending", "lost"}
    <3>1. nextLine \in Pending' \cup lost'
      BY <2>2
    <3> QED BY <2>1, <3>1, FateCasesNext DEF OrderInv
  <2>5. ASSUME NEW k \in Line, k # nextLine PROVE fates'[k] = fates[k]
    <3>1. /\ k \in Pending' <=> k \in Pending
          /\ k \in lost' <=> k \in lost
          /\ k \in stored' <=> k \in stored
      BY <2>1, <2>2, <2>5 DEF OrderInv, Accounts
    <3> QED BY <3>1 DEF fates, FateOf
  <2>6. fates' = [fates EXCEPT ![nextLine] = fates'[nextLine]]
    BY <2>5 DEF fates
  <2>7. Promise!Read(nextLine)
    BY <2>1, <2>3, <2>4, <2>6 DEF Promise!Read, Promise!IsNext, Promise!Line, Line, fates
  <2> QED BY <2>1, <2>7 DEF Promise!Next, Promise!Line, Line
<1>5. CASE InsertBatch \/ InsertFails
  <2>1. batch # <<>> /\ batch' = <<>> /\ UNCHANGED <<nextLine, entryCh>>
    BY <1>5 DEF InsertBatch, InsertFails, Busy, readVars, chVars
  <2>2. PICK m \in Lines(batch) : \A k \in Pending : k \in Lines(batch) <=> k <= m
    BY <2>1, LastOfBatch
  <2>3. Lines(batch) \in SUBSET Pending /\ Pending' = Pending \ Lines(batch)
    <3>1. Lines(entryCh) \subseteq Nat /\ Lines(batch) \subseteq Nat
      BY LinesAreLines, BoundAssumption DEF TypeInv, TypeOK, Line
    <3>2. Lines(batch) \cap Lines(entryCh) = {}
      BY <3>1 DEF OrderInv, Order
    <3>3. Lines(batch') = {} /\ Lines(entryCh') = Lines(entryCh)
      BY <2>1, LinesEmpty
    <3> QED BY <3>2, <3>3 DEF Pending
  <2>4. CASE stored' = stored \cup Lines(batch) /\ lost' = lost
    <3>1. Promise!Settle(m, "stored") /\ m \in Line
      BY <2>1, <2>2, <2>3, <2>4, FateSettles DEF OrderInv
    <3> QED BY <3>1 DEF Promise!Next, Promise!Line, Line
  <2>5. CASE stored' = stored /\ lost' = lost \cup Lines(batch)
    <3>1. Promise!Settle(m, "lost") /\ m \in Line
      BY <2>1, <2>2, <2>3, <2>5, FateSettles DEF OrderInv
    <3> QED BY <3>1 DEF Promise!Next, Promise!Line, Line
  <2> QED BY <1>5, <2>4, <2>5 DEF InsertBatch, InsertFails, GiveUp
<1>6. CASE Crash
  <2>1. /\ batch' = <<>> /\ entryCh' = <<>> /\ lost' = lost \cup Pending
        /\ UNCHANGED <<nextLine, stored>>
    BY <1>6 DEF Crash, GiveUp, Pending
  <2>2. Pending' = {}
    BY <2>1, LinesEmpty DEF Pending
  <2>3. CASE Pending = {}
    BY <2>1, <2>2, <2>3 DEF fates, FateOf
  <2>4. CASE Pending # {}
    <3>1. PICK m \in Pending : \A k \in Pending : k <= m
      BY <2>4, LastPending
    <3>2. Promise!Settle(m, "lost") /\ m \in Line
      BY <2>1, <2>2, <3>1, FateSettles DEF OrderInv
    <3> QED BY <3>2 DEF Promise!Next, Promise!Line, Line
  <2> QED BY <2>3, <2>4
<1> QED
  BY <1>1, <1>2, <1>3, <1>4, <1>5, <1>6 DEF Next, EventLoop, Inserter

(* The collector keeps the promise of LineFate: a line is settled once, in *)
(* the order of reading, and the lines of a batch together.                *)
THEOREM CollectorKeepsPromise == Spec => KeepsPromise
<1>1. Init => CollectorInv
  BY TypeInvInit, ShutdownInit, OrderInit, BusyInit DEF CollectorInv
<1>2. CollectorInv /\ [Next]_vars => CollectorInv'
  BY TypeInvNext, ShutdownNext, OrderNext, BusyNext DEF CollectorInv
<1>3. CollectorInv /\ CollectorInv' /\ [Next]_vars => [Promise!Next]_fates
  BY FateNext DEF CollectorInv
<1>4. Init => Promise!Init
  BY FateInit
<1> QED
  BY <1>1, <1>2, <1>3, <1>4, PTL DEF Spec, KeepsPromise, Promise!Spec, fates
-----------------------------------------------------------------------------
(* What the watcher hands over of a file that grows (LineReader), for      *)
(* every size of the scanner's buffer and every way to write the file.     *)

(* Between two events the buffer is empty and the offset is where it ends. *)
IdleIsEmpty == ~reading => head = offset

(* The offset is where a scan ended: at the end of the file or after a     *)
(* line that was too long.  The buffer begins there or after a newline.    *)
BeginsAtCut ==
  /\ offset \in ends \cup dropped
  /\ head \in ends \cup dropped \/ (head \in 1 .. Len(content) /\ ~Text(head))

(* The pieces lie before the buffer.                                       *)
PiecesBehind ==
  \A i \in 1 .. Len(handed) :
    /\ start < handed[i].from /\ handed[i].from <= handed[i].to
    /\ handed[i].to <= head

(* CutOnlyAtEnds, with newlines that are in the file already.              *)
CutsStay ==
  \A i \in 1 .. Len(handed) :
    LET from == handed[i].from
        to == handed[i].to
    IN  /\ \A p \in from .. to : Text(p)
        /\ from - 1 \in ends \cup dropped \/ (from - 1 \in 1 .. head /\ ~Text(from - 1))
        /\ to \in ends \/ (to + 1 \in 1 .. head /\ ~Text(to + 1))

(* NothingLost, up to the buffer.                                          *)
IsHanded(p) == \E i \in 1 .. Len(handed) : handed[i].from <= p /\ p <= handed[i].to
IsTooLong(p) == \E q \in start .. p - 1 : p <= q + Cap /\ Fills(q)
Kept == \A p \in start + 1 .. head : ~Text(p) \/ IsHanded(p) \/ IsTooLong(p)

ReaderInv ==
  /\ ReaderTypeOK /\ IdleIsEmpty /\ BeginsAtCut /\ PiecesBehind
  /\ OnceInOrder /\ CutsStay /\ Kept
-----------------------------------------------------------------------------
(* The invariant gives what the runs check.                                *)
LEMMA Consequences ==
  ASSUME ReaderInv
  PROVE  NothingLost /\ CutOnlyAtEnds
<1>1. NothingLost
  <2> SUFFICES ASSUME NEW p \in start + 1 .. offset
               PROVE  ~Text(p) \/ IsHanded(p) \/ IsTooLong(p)
    BY DEF NothingLost, IsHanded, IsTooLong
  <2> p \in start + 1 .. head
    BY DEF ReaderInv, ReaderTypeOK
  <2> QED
    BY DEF ReaderInv, Kept
<1>2. CutOnlyAtEnds
  BY DEF ReaderInv, CutsStay, CutOnlyAtEnds
<1> QED
  BY <1>1, <1>2

LEMMA PieceBounds ==
  ASSUME ReaderTypeOK, NEW i \in 1 .. Len(handed)
  PROVE  handed[i].from \in Nat /\ handed[i].to \in Nat
<1>1. handed[i] \in Piece
  BY ElementOfSeq DEF ReaderTypeOK
<1> QED
  BY <1>1 DEF Piece

(* The first offset is the end of the file.                                *)
LEMMA ReaderInvInit == ASSUME ReaderInit PROVE ReaderInv
<1> USE BufferAssumption DEF ReaderInit
<1>1. content \in Seq(Byte) /\ Len(content) \in Nat
  <2>1. "text" \in Byte
    BY DEF Byte
  <2>2. <<>> \in Seq(Byte) /\ <<"text">> \in Seq(Byte)
    BY <2>1
  <2> QED
    BY <2>2
<1>2. ReaderTypeOK
  <2>1. pending \in BOOLEAN /\ reading \in BOOLEAN
    OBVIOUS
  <2> QED
    BY <1>1, <2>1 DEF ReaderTypeOK
<1>3. Len(handed) = 0
  OBVIOUS
<1> QED
  BY <1>1, <1>2, <1>3
     DEF ReaderInv, IdleIsEmpty, BeginsAtCut, PiecesBehind, OnceInOrder, CutsStay, Kept

(* Writing changes no byte that is there.                                  *)
LEMMA WriteAppends ==
  ASSUME ReaderTypeOK, Write
  PROVE  /\ content' \in Seq(Byte) /\ Len(content) <= Len(content')
         /\ \A p \in 1 .. Len(content) : content'[p] = content[p]
<1>1. PICK n \in 1 .. MaxWrite : \E bytes \in [1 .. n -> Byte] : content' = content \o bytes
  BY DEF Write
<1>2. PICK bytes \in [1 .. n -> Byte] : content' = content \o bytes
  BY <1>1
<1>3. bytes \in Seq(Byte)
  BY SeqDef
<1> QED
  BY <1>2, <1>3 DEF ReaderTypeOK

LEMMA WriteKeeps == ASSUME ReaderInv, Write PROVE ReaderInv'
<1>1. /\ content' \in Seq(Byte) /\ Len(content) \in Nat /\ Len(content') \in Nat
      /\ Len(content) <= Len(content')
      /\ \A p \in 1 .. Len(content) : content'[p] = content[p]
  BY WriteAppends DEF ReaderInv, ReaderTypeOK
<1>2. UNCHANGED <<start, reading, offset, head, pos, handed, ends, dropped>>
  BY DEF Write
<1>3. ReaderTypeOK
  BY DEF ReaderInv
<1>4. \A p \in 1 .. Len(content) : Text(p)' <=> Text(p)
  BY <1>1 DEF Text
<1>5. ReaderTypeOK'
  BY <1>1, <1>2, <1>3 DEF ReaderTypeOK, Write
<1>6. (IdleIsEmpty /\ PiecesBehind /\ OnceInOrder)'
  BY <1>2 DEF ReaderInv, IdleIsEmpty, PiecesBehind, OnceInOrder
<1>7. BeginsAtCut'
  BY <1>1, <1>2, <1>4 DEF ReaderInv, BeginsAtCut
<1>8. CutsStay'
  <2> SUFFICES ASSUME NEW i \in 1 .. Len(handed)
               PROVE  /\ \A p \in handed[i].from .. handed[i].to : Text(p)'
                      /\ \/ handed[i].from - 1 \in ends \cup dropped
                         \/ handed[i].from - 1 \in 1 .. head /\ ~Text(handed[i].from - 1)'
                      /\ \/ handed[i].to \in ends
                         \/ handed[i].to + 1 \in 1 .. head /\ ~Text(handed[i].to + 1)'
    BY <1>2 DEF CutsStay, Text
  <2>1. /\ handed[i].from \in Nat /\ handed[i].to \in Nat
        /\ start < handed[i].from /\ handed[i].to <= head
    BY <1>3, PieceBounds DEF ReaderInv, PiecesBehind
  <2>2. \A p \in 1 .. head : Text(p)' <=> Text(p)
    BY <1>3, <1>4 DEF ReaderTypeOK
  <2>3. \A p \in handed[i].from .. handed[i].to : p \in 1 .. head
    BY <2>1, <1>3 DEF ReaderTypeOK
  <2>4. /\ \A p \in handed[i].from .. handed[i].to : Text(p)
        /\ \/ handed[i].from - 1 \in ends \cup dropped
           \/ handed[i].from - 1 \in 1 .. head /\ ~Text(handed[i].from - 1)
        /\ \/ handed[i].to \in ends
           \/ handed[i].to + 1 \in 1 .. head /\ ~Text(handed[i].to + 1)
    BY DEF ReaderInv, CutsStay
  <2> QED
    BY <2>2, <2>3, <2>4, <1>2
<1>9. Kept'
  <2> SUFFICES ASSUME NEW p \in start + 1 .. head
               PROVE  ~Text(p)' \/ IsHanded(p)' \/ IsTooLong(p)'
    BY <1>2 DEF Kept
  <2>1. p \in 1 .. Len(content)
    BY <1>3 DEF ReaderTypeOK
  <2>2. IsHanded(p)' <=> IsHanded(p)
    BY <1>2 DEF IsHanded
  <2>3. ASSUME IsTooLong(p) PROVE IsTooLong(p)'
    <3>1. PICK q \in start .. p - 1 : p <= q + Cap /\ Fills(q)
      BY <2>3 DEF IsTooLong
    <3>2. q \in Nat
      BY <1>3, <2>1 DEF ReaderTypeOK
    <3>3. Fills(q)'
      BY <3>1, <3>2, <1>1, <1>4, BufferAssumption DEF Fills
    <3> QED
      BY <3>1, <3>3, <1>2 DEF IsTooLong
  <2> QED
    BY <2>1, <2>2, <2>3, <1>4 DEF ReaderInv, Kept
<1> QED
  BY <1>5, <1>6, <1>7, <1>8, <1>9 DEF ReaderInv
-----------------------------------------------------------------------------
LEMMA BeginKeeps == ASSUME ReaderInv, Begin PROVE ReaderInv'
<1>1. UNCHANGED <<content, start, offset, handed, ends, dropped>> /\ head' = offset /\ pos' = offset
  BY DEF Begin, fileVars
<1>2. head = offset
  BY DEF Begin, ReaderInv, IdleIsEmpty
<1>3. ReaderTypeOK'
  <2>1. (pending \in BOOLEAN /\ reading \in BOOLEAN)'
    BY <1>1 DEF Begin
  <2> QED
    BY <2>1, <1>1, BufferAssumption DEF Begin, ReaderInv, ReaderTypeOK
<1>4. (PiecesBehind /\ OnceInOrder)'
  BY <1>1, <1>2 DEF ReaderInv, PiecesBehind, OnceInOrder
<1>5. (IdleIsEmpty /\ BeginsAtCut)'
  BY <1>1, <1>2 DEF ReaderInv, IdleIsEmpty, BeginsAtCut, Text
<1>6. CutsStay'
  BY <1>1, <1>2 DEF ReaderInv, CutsStay, Text
<1>7. Kept'
  BY <1>1, <1>2 DEF ReaderInv, Kept, IsHanded, IsTooLong, Fills, Text
<1> QED
  BY <1>3, <1>4, <1>5, <1>6, <1>7 DEF ReaderInv

LEMMA ReadKeeps == ASSUME ReaderInv, Read PROVE ReaderInv'
<1>1. UNCHANGED <<content, start, pending, reading, offset, head, handed, ends, dropped>>
  BY DEF Read, fileVars
<1>2. ReaderTypeOK'
  <2>1. PICK n \in 1 .. Cap : pos + n <= Len(content) /\ pos + n - head <= Cap /\ pos' = pos + n
    BY DEF Read
  <2> QED
    BY <1>1, <2>1, BufferAssumption DEF ReaderInv, ReaderTypeOK
<1>3. (PiecesBehind /\ OnceInOrder /\ IdleIsEmpty)'
  BY <1>1 DEF ReaderInv, PiecesBehind, OnceInOrder, IdleIsEmpty
<1>4. (BeginsAtCut /\ CutsStay)'
  BY <1>1 DEF ReaderInv, BeginsAtCut, CutsStay, Text
<1>5. Kept'
  BY <1>1 DEF ReaderInv, Kept, IsHanded, IsTooLong, Fills, Text
<1> QED
  BY <1>2, <1>3, <1>4, <1>5 DEF ReaderInv
-----------------------------------------------------------------------------
(* What HandOver does to the pieces: it adds one behind the others, or     *)
(* nothing when the line is empty.                                         *)
LEMMA HandOverAdds ==
  ASSUME ReaderTypeOK, NEW to \in Nat, HandOver(head + 1, to)
  PROVE  /\ handed' \in Seq(Piece)
         /\ Len(handed) \in Nat /\ Len(handed') \in Nat
         /\ \A i \in 1 .. Len(handed) : i \in 1 .. Len(handed') /\ handed'[i] = handed[i]
         /\ \A i \in 1 .. Len(handed') :
              \/ i \in 1 .. Len(handed)
              \/ /\ i = Len(handed) + 1 /\ head + 1 <= to
                 /\ handed'[i].from = head + 1 /\ handed'[i].to = to
         /\ head + 1 <= to =>
              \E i \in 1 .. Len(handed') : handed'[i].from = head + 1 /\ handed'[i].to = to
<1> DEFINE new == [from |-> head + 1, to |-> to]
<1>1. handed \in Seq(Piece) /\ head \in Nat /\ Len(handed) \in Nat
  BY DEF ReaderTypeOK
<1>2. CASE head + 1 <= to
  <2>1. new \in Piece
    BY <1>1, <1>2 DEF Piece
  <2>2. handed' = Append(handed, new)
    BY <1>2 DEF HandOver
  <2>3. /\ handed' \in Seq(Piece) /\ Len(handed') = Len(handed) + 1
        /\ \A i \in 1 .. Len(handed) : handed'[i] = handed[i]
        /\ handed'[Len(handed) + 1] = new
    BY <1>1, <2>1, <2>2
  <2> QED
    BY <1>1, <1>2, <2>3
<1>3. CASE ~(head + 1 <= to)
  BY <1>1, <1>3 DEF HandOver
<1> QED
  BY <1>2, <1>3

(* A scan that goes on behind a piece keeps the order.                     *)
LEMMA OrderKeeps ==
  ASSUME ReaderInv, NEW to \in Nat, HandOver(head + 1, to), UNCHANGED start,
         head' \in Nat, head <= head', to <= head'
  PROVE  PiecesBehind' /\ OnceInOrder'
<1>1. ReaderTypeOK /\ PiecesBehind /\ OnceInOrder
  BY DEF ReaderInv
<1>2. /\ handed \in Seq(Piece) /\ head \in Nat /\ start \in Nat /\ start <= head
      /\ \A i \in 1 .. Len(handed) : handed[i].from \in Nat /\ handed[i].to \in Nat
  BY <1>1, PieceBounds DEF ReaderTypeOK
<1>3. PiecesBehind'
  BY <1>1, <1>2, HandOverAdds DEF PiecesBehind
<1>4. OnceInOrder'
  <2> SUFFICES ASSUME NEW i \in 1 .. Len(handed'), NEW j \in 1 .. Len(handed'), i < j
               PROVE  handed'[i].to < handed'[j].from
    BY DEF OnceInOrder
  <2>1. CASE j \in 1 .. Len(handed)
    <3>1. i \in 1 .. Len(handed)
      BY <2>1, <1>1, HandOverAdds
    <3> QED
      BY <2>1, <3>1, <1>1, HandOverAdds DEF OnceInOrder
  <2>2. CASE j = Len(handed) + 1 /\ handed'[j].from = head + 1
    <3>1. i \in 1 .. Len(handed)
      BY <2>2, <1>1, HandOverAdds
    <3>2. handed'[i] = handed[i] /\ handed[i].to <= head
      BY <3>1, <1>1, HandOverAdds DEF PiecesBehind
    <3> QED
      BY <2>2, <3>1, <3>2, <1>2
  <2> QED
    BY <2>1, <2>2, <1>1, HandOverAdds
<1> QED
  BY <1>3, <1>4
-----------------------------------------------------------------------------
LEMMA TokenKeeps == ASSUME ReaderInv, Token PROVE ReaderInv'
<1>1. UNCHANGED <<content, start, pending, reading, offset, pos, ends, dropped>> /\ reading
  BY DEF Token, fileVars
<1>2. PICK k \in head + 1 .. pos :
        /\ ~Text(k) /\ \A p \in head + 1 .. k - 1 : Text(p)
        /\ HandOver(head + 1, k - 1) /\ head' = k
  BY DEF Token
<1>3. ReaderTypeOK /\ head \in Nat /\ k \in Nat /\ k - 1 \in Nat /\ k <= Len(content) /\ start \in Nat
      /\ Len(content) \in Nat /\ offset \in Nat /\ pos \in Nat /\ start <= head /\ head < k
  BY <1>2 DEF ReaderInv, ReaderTypeOK
<1>4. ReaderTypeOK'
  BY <1>1, <1>2, <1>3, HandOverAdds, BufferAssumption DEF ReaderTypeOK
<1>5. PiecesBehind' /\ OnceInOrder'
  BY <1>1, <1>2, <1>3, OrderKeeps
<1>6. IdleIsEmpty' /\ BeginsAtCut'
  BY <1>1, <1>2, <1>3 DEF ReaderInv, IdleIsEmpty, BeginsAtCut, Text
<1>7. CutsStay'
  <2> SUFFICES ASSUME NEW i \in 1 .. Len(handed')
               PROVE  /\ \A p \in handed'[i].from .. handed'[i].to : Text(p)
                      /\ \/ handed'[i].from - 1 \in ends \cup dropped
                         \/ handed'[i].from - 1 \in 1 .. k /\ ~Text(handed'[i].from - 1)
                      /\ \/ handed'[i].to \in ends
                         \/ handed'[i].to + 1 \in 1 .. k /\ ~Text(handed'[i].to + 1)
    BY <1>1, <1>2 DEF CutsStay, Text
  <2>1. CASE i \in 1 .. Len(handed)
    <3>1. handed'[i] = handed[i]
      BY <2>1, <1>2, <1>3, HandOverAdds
    <3>2. /\ \A p \in handed[i].from .. handed[i].to : Text(p)
          /\ \/ handed[i].from - 1 \in ends \cup dropped
             \/ handed[i].from - 1 \in 1 .. head /\ ~Text(handed[i].from - 1)
          /\ \/ handed[i].to \in ends
             \/ handed[i].to + 1 \in 1 .. head /\ ~Text(handed[i].to + 1)
      BY <2>1 DEF ReaderInv, CutsStay
    <3>3. \A x \in 1 .. head : x \in 1 .. k
      BY <1>3
    <3> QED
      BY <3>1, <3>2, <3>3
  <2>2. CASE handed'[i].from = head + 1 /\ handed'[i].to = k - 1
    <3>1. handed'[i].from - 1 = head /\ handed'[i].to + 1 = k /\ k \in 1 .. k
      BY <2>2, <1>3
    <3>2. head \in ends \cup dropped \/ (head \in 1 .. k /\ ~Text(head))
      BY <1>3 DEF ReaderInv, BeginsAtCut
    <3> QED
      BY <2>2, <3>1, <3>2, <1>2
  <2> QED
    BY <2>1, <2>2, <1>2, <1>3, HandOverAdds
<1>8. Kept'
  <2> SUFFICES ASSUME NEW p \in start + 1 .. k
               PROVE  ~Text(p) \/ IsHanded(p)' \/ IsTooLong(p)'
    BY <1>1, <1>2 DEF Kept, Text
  <2>1. CASE p <= head
    <3>1. p \in start + 1 .. head
      BY <2>1, <1>3
    <3>2. IsHanded(p) => IsHanded(p)'
      BY <1>2, <1>3, HandOverAdds DEF IsHanded
    <3>3. IsTooLong(p) => IsTooLong(p)'
      BY <1>1 DEF IsTooLong, Fills, Text
    <3> QED
      BY <3>1, <3>2, <3>3 DEF ReaderInv, Kept
  <2>2. CASE p \in head + 1 .. k - 1
    <3>1. head + 1 <= k - 1
      BY <2>2, <1>3
    <3>2. PICK i \in 1 .. Len(handed') : handed'[i].from = head + 1 /\ handed'[i].to = k - 1
      BY <3>1, <1>2, <1>3, HandOverAdds
    <3> QED
      BY <2>2, <3>2, <1>3 DEF IsHanded
  <2>3. CASE p = k
    BY <2>3, <1>2
  <2> QED
    BY <2>1, <2>2, <2>3, <1>3
<1> QED
  BY <1>4, <1>5, <1>6, <1>7, <1>8 DEF ReaderInv
-----------------------------------------------------------------------------
(* The last piece of a scan ends where the file ends.                      *)
LEMMA EofKeeps == ASSUME ReaderInv, Eof PROVE ReaderInv'
<1>1. /\ UNCHANGED <<content, start, pending, pos, dropped>> /\ NoNewline /\ pos = Len(content)
      /\ reading' = FALSE /\ offset' = pos /\ head' = pos /\ ends' = ends \cup {pos}
      /\ HandOver(head + 1, pos)
  BY DEF Eof, Done, fileVars
<1>2. /\ ReaderTypeOK /\ head \in Nat /\ pos \in Nat /\ start \in Nat /\ offset \in Nat
      /\ start <= head /\ head <= pos
  BY DEF ReaderInv, ReaderTypeOK
<1>3. ReaderTypeOK'
  <2>1. (pending \in BOOLEAN /\ reading \in BOOLEAN)'
    BY <1>1, <1>2 DEF ReaderTypeOK
  <2>2. handed' \in Seq(Piece)
    BY <1>1, <1>2, HandOverAdds
  <2>3. ends' \subseteq Nat
    BY <1>1, <1>2 DEF ReaderTypeOK
  <2>4. dropped' \subseteq start + 1 .. offset'
    <3>1. dropped' = dropped /\ offset' = pos /\ offset <= pos
      BY <1>1, <1>2 DEF ReaderTypeOK
    <3>2. dropped \subseteq start + 1 .. offset
      BY <1>2 DEF ReaderTypeOK
    <3> QED
      BY <3>1, <3>2, <1>2
  <2> QED
    BY <2>1, <2>2, <2>3, <2>4, <1>1, <1>2, BufferAssumption DEF ReaderTypeOK
<1>4. PiecesBehind' /\ OnceInOrder'
  BY <1>1, <1>2, OrderKeeps
<1>5. IdleIsEmpty' /\ BeginsAtCut'
  BY <1>1, <1>2 DEF ReaderInv, IdleIsEmpty, BeginsAtCut
<1>6. CutsStay'
  <2> SUFFICES ASSUME NEW i \in 1 .. Len(handed')
               PROVE  /\ \A p \in handed'[i].from .. handed'[i].to : Text(p)
                      /\ \/ handed'[i].from - 1 \in ends' \cup dropped
                         \/ handed'[i].from - 1 \in 1 .. pos /\ ~Text(handed'[i].from - 1)
                      /\ \/ handed'[i].to \in ends'
                         \/ handed'[i].to + 1 \in 1 .. pos /\ ~Text(handed'[i].to + 1)
    BY <1>1 DEF CutsStay, Text
  <2>1. CASE i \in 1 .. Len(handed)
    <3>1. handed'[i] = handed[i]
      BY <2>1, <1>1, <1>2, HandOverAdds
    <3>2. /\ \A p \in handed[i].from .. handed[i].to : Text(p)
          /\ \/ handed[i].from - 1 \in ends \cup dropped
             \/ handed[i].from - 1 \in 1 .. head /\ ~Text(handed[i].from - 1)
          /\ \/ handed[i].to \in ends
             \/ handed[i].to + 1 \in 1 .. head /\ ~Text(handed[i].to + 1)
      BY <2>1 DEF ReaderInv, CutsStay
    <3>3. \A x \in 1 .. head : x \in 1 .. pos
      BY <1>2
    <3> QED
      BY <3>1, <3>2, <3>3, <1>1
  <2>2. CASE handed'[i].from = head + 1 /\ handed'[i].to = pos
    <3>1. handed'[i].from - 1 = head
      BY <2>2, <1>2
    <3>2. head \in ends \cup dropped \/ (head \in 1 .. pos /\ ~Text(head))
      BY <1>1, <1>2 DEF ReaderInv, BeginsAtCut
    <3> QED
      BY <2>2, <3>1, <3>2, <1>1 DEF NoNewline
  <2> QED
    BY <2>1, <2>2, <1>1, <1>2, HandOverAdds
<1>7. Kept'
  <2> SUFFICES ASSUME NEW p \in start + 1 .. pos
               PROVE  ~Text(p) \/ IsHanded(p)' \/ IsTooLong(p)'
    BY <1>1 DEF Kept, Text
  <2>1. CASE p <= head
    <3>1. p \in start + 1 .. head
      BY <2>1, <1>2
    <3>2. IsHanded(p) => IsHanded(p)'
      BY <1>1, <1>2, HandOverAdds DEF IsHanded
    <3>3. IsTooLong(p) => IsTooLong(p)'
      BY <1>1 DEF IsTooLong, Fills, Text
    <3> QED
      BY <3>1, <3>2, <3>3 DEF ReaderInv, Kept
  <2>2. CASE p \in head + 1 .. pos
    <3>1. head + 1 <= pos
      BY <2>2, <1>2
    <3>2. PICK i \in 1 .. Len(handed') : handed'[i].from = head + 1 /\ handed'[i].to = pos
      BY <3>1, <1>1, <1>2, HandOverAdds
    <3> QED
      BY <2>2, <3>2, <1>2 DEF IsHanded
  <2> QED
    BY <2>1, <2>2, <1>2
<1> QED
  BY <1>3, <1>4, <1>5, <1>6, <1>7 DEF ReaderInv

(* The bytes that are given up fill the buffer.                            *)
LEMMA TooLongKeeps == ASSUME ReaderInv, TooLong PROVE ReaderInv'
<1>1. /\ UNCHANGED <<content, start, pending, pos, handed, ends>> /\ NoNewline
      /\ pos - head = Cap /\ reading' = FALSE /\ offset' = pos /\ head' = pos
      /\ dropped' = dropped \cup head + 1 .. pos
  BY DEF TooLong, Done, fileVars
<1>2. /\ ReaderTypeOK /\ head \in Nat /\ pos \in Nat /\ start \in Nat /\ offset \in Nat
      /\ Len(content) \in Nat /\ start <= head /\ offset <= head /\ head < pos
      /\ pos = head + Cap /\ pos <= Len(content)
  BY <1>1, BufferAssumption DEF ReaderInv, ReaderTypeOK
<1>3. ReaderTypeOK'
  <2>1. (pending \in BOOLEAN /\ reading \in BOOLEAN)'
    BY <1>1, <1>2 DEF ReaderTypeOK
  <2> QED
    BY <2>1, <1>1, <1>2, BufferAssumption DEF ReaderTypeOK
<1>4. IdleIsEmpty' /\ BeginsAtCut'
  BY <1>1, <1>2 DEF IdleIsEmpty, BeginsAtCut
<1>5. PiecesBehind' /\ OnceInOrder'
  <2>1. \A i \in 1 .. Len(handed) : handed[i].to \in Nat
    BY <1>2, PieceBounds
  <2> QED
    BY <1>1, <1>2, <2>1 DEF ReaderInv, PiecesBehind, OnceInOrder
<1>6. CutsStay'
  <2>1. \A x \in 1 .. head : x \in 1 .. pos
    BY <1>2
  <2> QED
    BY <1>1, <2>1 DEF ReaderInv, CutsStay, Text
<1>7. Kept'
  <2> SUFFICES ASSUME NEW p \in start + 1 .. pos
               PROVE  ~Text(p) \/ IsHanded(p)' \/ IsTooLong(p)'
    BY <1>1 DEF Kept, Text
  <2>1. CASE p <= head
    <3>1. p \in start + 1 .. head
      BY <2>1, <1>2
    <3> QED
      BY <3>1, <1>1 DEF ReaderInv, Kept, IsHanded, IsTooLong, Fills, Text
  <2>2. CASE p \in head + 1 .. pos
    <3>1. head \in start .. p - 1 /\ p <= head + Cap
      BY <2>2, <1>2
    <3>2. Fills(head)
      BY <1>1, <1>2 DEF Fills, NoNewline
    <3>3. IsTooLong(p)
      BY <3>1, <3>2 DEF IsTooLong
    <3> QED
      BY <3>3, <1>1 DEF IsTooLong, Fills, Text
  <2> QED
    BY <2>1, <2>2, <1>2
<1> QED
  BY <1>3, <1>4, <1>5, <1>6, <1>7 DEF ReaderInv
-----------------------------------------------------------------------------
LEMMA ReaderInvNext == ASSUME ReaderInv, [ReaderNext]_readerVars PROVE ReaderInv'
<1>1. CASE UNCHANGED readerVars
  BY <1>1 DEF readerVars, ReaderInv, ReaderTypeOK, IdleIsEmpty, BeginsAtCut, PiecesBehind,
              OnceInOrder,
              CutsStay, Kept, IsHanded, IsTooLong, Fills, Text
<1> QED
  BY <1>1, WriteKeeps, BeginKeeps, ReadKeeps, TokenKeeps, EofKeeps, TooLongKeeps DEF ReaderNext

(* Reads and writes in any order keep the invariant.                       *)
THEOREM ReaderInductive == ReaderSpec => []ReaderInv
<1>1. ReaderInit => ReaderInv
  BY ReaderInvInit
<1>2. ReaderInv /\ [ReaderNext]_readerVars => ReaderInv'
  BY ReaderInvNext
<1> QED
  BY <1>1, <1>2, PTL DEF ReaderSpec

(* Offset, buffer and pieces stay within the file, and the buffer within   *)
(* its capacity.                                                           *)
THEOREM ReaderTypeCorrect == ReaderSpec => []ReaderTypeOK
<1>1. ReaderInv => ReaderTypeOK
  BY DEF ReaderInv
<1> QED
  BY <1>1, ReaderInductive, PTL

(* No byte is handed over twice, and the pieces come in the file's order.  *)
THEOREM ReadsOnce == ReaderSpec => []OnceInOrder
<1>1. ReaderInv => OnceInOrder
  BY DEF ReaderInv
<1> QED
  BY <1>1, ReaderInductive, PTL

(* What handleWriteEvent leaves behind its offset has been handed over, or *)
(* is part of a line that filled the scanner's buffer.                     *)
THEOREM LosesNothing == ReaderSpec => []NothingLost
<1>1. ReaderInv => NothingLost
  BY Consequences
<1> QED
  BY <1>1, ReaderInductive, PTL

(* A piece is a whole line but for an end of the file met within it, or a  *)
(* line that filled the scanner's buffer.                                  *)
THEOREM CutsAtEnds == ReaderSpec => []CutOnlyAtEnds
<1>1. ReaderInv => CutOnlyAtEnds
  BY Consequences
<1> QED
  BY <1>1, ReaderInductive, PTL
=============================================================================
