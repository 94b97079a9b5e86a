----------------------------- MODULE Collector ------------------------------
(***************************************************************************)
(* The log-collector process (services/log-collector/main.go) between the  *)
(* watcher that reads lines and the table raw_logs they end up in.         *)
(*                                                                         *)
(* Five goroutines share its state: main (boot and shutdown), the hot      *)
(* reloader (loadSources), the watcher's event loop (Start), which calls   *)
(* the line handler, and the batch inserter.  Users create and delete      *)
(* rows of log_sources through the SIEM API at any time, PostgreSQL may    *)
(* refuse or fail any statement, and the process may crash.                *)
(*                                                                         *)
(* How the watcher finds the lines of a file is the subject of another     *)
(* module; here the next line of a watched path is a number.               *)
(***************************************************************************)
EXTENDS Naturals, Sequences, FiniteSets

CONSTANTS
  Paths,        \* The file paths a log source may name.
  ChanCap,      \* Capacity of entryCh (1000 in the code).
  MaxBatch,     \* maxBatchSize (50 in the code).
  MaxSource,    \* Bound: log_sources hands out the ids 1 .. MaxSource.
  MaxLine,      \* Bound: the watcher reads the lines 1 .. MaxLine.
  MaxBoot       \* Bound: how often the process is started.

ASSUME CapAssumption == ChanCap \in Nat \ {0} /\ MaxBatch \in Nat \ {0}
ASSUME BoundAssumption == MaxSource \in Nat /\ MaxLine \in Nat /\ MaxBoot \in Nat

SourceId == 1 .. MaxSource
Line == 1 .. MaxLine
Entry == [sid : SourceId, line : Line]
Source == [id : SourceId, path : Paths, enabled : BOOLEAN]

(* The one id no source has.                                               *)
NoSource == 0

VARIABLES
  sources,      \* log_sources: the rows that exist now.
  nextSource,   \* The id the next log_sources row gets.
  raw,          \* raw_logs: the rows that exist now.
  nextRow,      \* The id the next raw_logs row gets.
  main,         \* Where main() is.
  boots,        \* How often the process has been started.
  known,        \* knownSources: ids loadSources does not look at again.
  watched,      \* Watcher.files: the source id each path is read for.
  reloader,     \* The hot-reload goroutine, or main while it loads sources.
  toLoad,       \* The rows of loadSources' query not yet handled.
  eventLoop,    \* The goroutine of Watcher.Start.
  nextLine,     \* The line the watcher reads next.
  entryCh,      \* The buffered channel of entries.
  closed,       \* entryCh has been closed.
  cancelled,    \* batchCancel() has been called.
  inserter,     \* Where runBatchInserter is.
  resume,       \* Where runBatchInserter goes after a flush.
  batch,        \* The entries runBatchInserter holds.
  stored,       \* History: lines a committed INSERT has made rows of.
  lost          \* History: lines that were given up.

dbVars == <<sources, nextSource, raw, nextRow>>
mainVars == <<main, boots>>
loadVars == <<known, watched, reloader, toLoad>>
readVars == <<eventLoop, nextLine>>
chVars == <<entryCh, closed, cancelled>>
insVars == <<inserter, resume, batch>>
histVars == <<stored, lost>>
vars == <<dbVars, mainVars, loadVars, readVars, chVars, insVars, histVars>>

Lines(q) == {q[i].line : i \in 1 .. Len(q)}
GiveUp(ls) == lost' = lost \cup ls

(* The states main() goes through after the signal has arrived.            *)
ShuttingDown == {"stop reload", "stop watcher", "close channel", "cancel batch",
                 "wait batch", "stopped"}

TypeOK ==
  /\ sources \subseteq Source
  /\ nextSource \in 1 .. MaxSource + 1
  /\ raw \subseteq [id : Nat, sid : SourceId, line : Line]
  /\ nextRow \in Nat
  /\ main \in {"loading", "serving", "down"} \cup ShuttingDown
  /\ boots \in 0 .. MaxBoot
  /\ known \subseteq SourceId
  /\ watched \in [Paths -> SourceId \cup {NoSource}]
  /\ reloader \in {"idle", "loading", "exited"}
  /\ toLoad \subseteq Source
  /\ eventLoop \in {"spawned", "running", "exited"}
  /\ nextLine \in 1 .. MaxLine + 1
  /\ entryCh \in Seq(Entry) /\ Len(entryCh) <= ChanCap
  /\ closed \in BOOLEAN /\ cancelled \in BOOLEAN
  /\ inserter \in {"select", "drain", "flush", "exec", "exited"}
  /\ resume \in {"select", "drain", "exited"}
  /\ batch \in Seq(Entry) /\ Len(batch) <= MaxBatch
  /\ stored \subseteq Line
  /\ lost \subseteq Line
-----------------------------------------------------------------------------
Init ==
  /\ sources = {} /\ nextSource = 1 /\ raw = {} /\ nextRow = 1
  /\ main = "down" /\ boots = 0
  /\ known = {} /\ watched = [p \in Paths |-> NoSource]
  /\ reloader = "exited" /\ toLoad = {}
  /\ eventLoop = "exited" /\ nextLine = 1
  /\ entryCh = <<>> /\ closed = FALSE /\ cancelled = FALSE
  /\ inserter = "exited" /\ resume = "select" /\ batch = <<>>
  /\ stored = {} /\ lost = {}
-----------------------------------------------------------------------------
(* flush() with the entries b, called from a place that goes on at r: it   *)
(* returns at once when there is nothing to insert.                        *)
Flush(b, r) ==
  /\ batch' = b
  /\ inserter' = IF b = <<>> THEN r ELSE "flush"
  /\ resume' = r
-----------------------------------------------------------------------------
(* Mistakes a change of this code could make, one per property; each takes *)
(* the place of the action it is named after in a mutation run.            *)

(* A failed batch goes back into the channel, to be tried again.           *)
InsertFailsRequeued ==
  /\ inserter = "exec"
  /\ entryCh' = entryCh \o batch
  /\ inserter' = resume /\ batch' = <<>>
  /\ UNCHANGED <<dbVars, mainVars, loadVars, readVars, closed, cancelled, resume,
                 histVars>>

(* A full channel makes room by dropping its oldest entry.                 *)
HandleLineEvicts(p) ==
  /\ eventLoop = "running" /\ watched[p] # NoSource /\ nextLine \in Line
  /\ nextLine' = nextLine + 1
  /\ LET e == [sid |-> watched[p], line |-> nextLine]
     IN  IF Len(entryCh) < ChanCap
           THEN entryCh' = Append(entryCh, e) /\ UNCHANGED lost
           ELSE /\ entryCh' = Append(Tail(entryCh), e)
                /\ GiveUp({Head(entryCh).line})
  /\ UNCHANGED <<dbVars, mainVars, loadVars, eventLoop, closed, cancelled, insVars,
                 stored>>

(* w.Stop() does not wait for the event loop.                              *)
WatcherNotAwaited ==
  /\ main = "stop watcher"
  /\ main' = "close channel"
  /\ UNCHANGED <<dbVars, boots, loadVars, readVars, chVars, insVars, histVars>>

(* There is no flush interval: only a full batch is flushed.               *)
TickNever ==
  /\ inserter = "select" /\ Len(batch) >= MaxBatch
  /\ Flush(batch, "select")
  /\ UNCHANGED <<dbVars, mainVars, loadVars, readVars, chVars, histVars>>

(* main cancels the batch context but never closes the channel.            *)
ChannelLeftOpen ==
  /\ main = "close channel"
  /\ main' = "cancel batch"
  /\ UNCHANGED <<dbVars, boots, loadVars, readVars, chVars, insVars, histVars>>
-----------------------------------------------------------------------------
(* The SIEM API.  file_path is UNIQUE; deleting a source takes its rows of *)
(* raw_logs with it (ON DELETE CASCADE).                                   *)
CreateSource(p, e) ==
  /\ nextSource \in SourceId
  /\ \A s \in sources : s.path # p
  /\ sources' = sources \cup {[id |-> nextSource, path |-> p, enabled |-> e]}
  /\ nextSource' = nextSource + 1
  /\ UNCHANGED <<raw, nextRow, mainVars, loadVars, readVars, chVars,
                 insVars, histVars>>

DeleteSource(s) ==
  /\ sources' = sources \ {s}
  /\ raw' = {r \in raw : r.sid # s.id}
  /\ UNCHANGED <<nextSource, nextRow, mainVars, loadVars, readVars, chVars,
                 insVars, histVars>>
-----------------------------------------------------------------------------
Enabled == {s \in sources : s.enabled}

(* main: a fresh process knows no source and watches nothing.  It starts   *)
(* with the query of the initial loadSources, which may fail.  The other   *)
(* goroutines are created when that is over; until then they have nothing  *)
(* to work on.                                                             *)
Boot ==
  /\ main \in {"down", "stopped"} /\ boots < MaxBoot
  /\ main' = "loading" /\ boots' = boots + 1
  /\ known' = {} /\ watched' = [p \in Paths |-> NoSource]
  /\ reloader' = "loading" /\ toLoad' \in {Enabled, {}}
  /\ eventLoop' = "spawned"
  /\ entryCh' = <<>> /\ closed' = FALSE /\ cancelled' = FALSE
  /\ inserter' = "select" /\ resume' = "select" /\ batch' = <<>>
  /\ UNCHANGED <<dbVars, nextLine, histVars>>

(* The initial loadSources has returned, with or without an error: start   *)
(* the goroutines and wait for a signal.                                   *)
Serve ==
  /\ main = "loading" /\ reloader = "idle"
  /\ main' = "serving"
  /\ UNCHANGED <<dbVars, boots, loadVars, readVars, chVars, insVars, histVars>>

(* SIGTERM or SIGINT: reloadCancel().                                      *)
Signal ==
  /\ main = "serving"
  /\ main' = "stop reload"
  /\ UNCHANGED <<dbVars, boots, loadVars, readVars, chVars, insVars, histVars>>

(* reloadWg.Wait() has returned; w.Stop() cancels the watcher's context.   *)
StopWatcher ==
  /\ main = "stop reload" /\ reloader = "exited"
  /\ main' = "stop watcher"
  /\ UNCHANGED <<dbVars, boots, loadVars, readVars, chVars, insVars, histVars>>

(* w.wg.Wait() in w.Stop() returns: it waits for an event loop that has    *)
(* run wg.Add(1), which Start does itself, in its own goroutine.           *)
WatcherStopped ==
  /\ main = "stop watcher" /\ eventLoop # "running"
  /\ main' = "close channel"
  /\ UNCHANGED <<dbVars, boots, loadVars, readVars, chVars, insVars, histVars>>

CloseChannel ==
  /\ main = "close channel"
  /\ main' = "cancel batch"
  /\ closed' = TRUE
  /\ UNCHANGED <<dbVars, boots, loadVars, readVars, entryCh, cancelled,
                 insVars, histVars>>

CancelBatch ==
  /\ main = "cancel batch"
  /\ main' = "wait batch"
  /\ cancelled' = TRUE
  /\ UNCHANGED <<dbVars, boots, loadVars, readVars, entryCh, closed,
                 insVars, histVars>>

(* batchWg.Wait() returns and main() ends.                                 *)
Stopped ==
  /\ main = "wait batch" /\ inserter = "exited"
  /\ main' = "stopped"
  /\ UNCHANGED <<dbVars, boots, loadVars, readVars, chVars, insVars, histVars>>

(* The process dies: what it held in memory is gone.                       *)
Crash ==
  /\ main \notin {"down", "stopped"}
  /\ main' = "down"
  /\ GiveUp(Lines(batch) \cup Lines(entryCh))
  /\ reloader' = "exited" /\ eventLoop' = "exited" /\ inserter' = "exited"
  /\ entryCh' = <<>> /\ batch' = <<>>
  /\ UNCHANGED <<dbVars, boots, known, watched, toLoad, nextLine, closed,
                 cancelled, resume, stored>>

Main == Serve \/ StopWatcher \/ WatcherStopped \/ CloseChannel \/ CancelBatch \/ Stopped
-----------------------------------------------------------------------------
(* loadSources.  A tick of the reload interval runs its query; the rows    *)
(* come in no particular order.                                            *)
LoadQuery ==
  /\ main \in {"serving", "stop reload"} /\ reloader = "idle"
  /\ reloader' = "loading" /\ toLoad' = Enabled
  /\ UNCHANGED <<dbVars, mainVars, known, watched, readVars, chVars,
                 insVars, histVars>>

(* AddPath returns nil, so that the id becomes known, when it has begun to *)
(* watch the path and also when the path is being watched already.         *)
LoadRow(s) ==
  /\ reloader = "loading" /\ s \in toLoad
  /\ toLoad' = toLoad \ {s}
  /\ IF s.id \in known
       THEN UNCHANGED <<known, watched>>
       ELSE /\ known' = known \cup {s.id}
            /\ watched' = [watched EXCEPT ![s.path] = IF @ = NoSource THEN s.id ELSE @]
  /\ UNCHANGED <<dbVars, mainVars, reloader, readVars, chVars, insVars,
                 histVars>>

(* AddPath fails: the file does not exist yet, or cannot be watched.       *)
LoadRowFails(s) ==
  /\ reloader = "loading" /\ s \in toLoad
  /\ s.id \notin known /\ watched[s.path] = NoSource
  /\ toLoad' = toLoad \ {s}
  /\ UNCHANGED <<dbVars, mainVars, known, watched, reloader, readVars,
                 chVars, insVars, histVars>>

(* The result set ends, early if the connection breaks.                    *)
LoadEnd ==
  /\ reloader = "loading"
  /\ reloader' = "idle" /\ toLoad' = {}
  /\ UNCHANGED <<dbVars, mainVars, known, watched, readVars, chVars,
                 insVars, histVars>>

(* The select of the hot-reload goroutine sees reloadCtx.Done().           *)
ReloadExit ==
  /\ main = "stop reload" /\ reloader = "idle"
  /\ reloader' = "exited"
  /\ UNCHANGED <<dbVars, mainVars, known, watched, toLoad, readVars, chVars,
                 insVars, histVars>>
-----------------------------------------------------------------------------
(* Watcher.Start begins.  Once w.Stop() has closed the fsnotify watcher    *)
(* its Events channel is closed and the loop ends at once.                 *)
LoopStart ==
  /\ main # "loading" /\ eventLoop = "spawned"
  /\ eventLoop' = IF main \in {"serving", "stop reload"} THEN "running" ELSE "exited"
  /\ UNCHANGED <<dbVars, mainVars, loadVars, nextLine, chVars, insVars,
                 histVars>>

(* The event loop reads a line of a watched path and calls the handler,    *)
(* whose select drops the line when the channel is full.                   *)
HandleLine(p) ==
  /\ eventLoop = "running"
  /\ watched[p] # NoSource
  /\ nextLine \in Line
  /\ nextLine' = nextLine + 1
  /\ IF Len(entryCh) < ChanCap
       THEN /\ entryCh' = Append(entryCh, [sid |-> watched[p], line |-> nextLine])
            /\ UNCHANGED lost
       ELSE /\ GiveUp({nextLine})
            /\ UNCHANGED entryCh
  /\ UNCHANGED <<dbVars, mainVars, loadVars, eventLoop, closed, cancelled,
                 insVars, stored>>

(* The loop's select sees w.ctx.Done() or the closed Events channel.       *)
LoopExit ==
  /\ main = "stop watcher" /\ eventLoop = "running"
  /\ eventLoop' = "exited"
  /\ UNCHANGED <<dbVars, mainVars, loadVars, nextLine, chVars, insVars,
                 histVars>>
-----------------------------------------------------------------------------
(* An entry arrives, in the select or in the drain loop.                   *)
Receive ==
  /\ inserter \in {"select", "drain"}
  /\ entryCh # <<>>
  /\ entryCh' = Tail(entryCh)
  /\ LET b == Append(batch, Head(entryCh))
     IN  IF Len(b) >= MaxBatch
           THEN Flush(b, inserter)
           ELSE batch' = b /\ UNCHANGED <<inserter, resume>>
  /\ UNCHANGED <<dbVars, mainVars, loadVars, readVars, closed, cancelled,
                 histVars>>

(* The channel is closed and empty: flush what remains and return.         *)
ChannelClosed ==
  /\ inserter \in {"select", "drain"}
  /\ closed /\ entryCh = <<>>
  /\ Flush(batch, "exited")
  /\ UNCHANGED <<dbVars, mainVars, loadVars, readVars, chVars, histVars>>

(* The flush interval has passed.                                          *)
Tick ==
  /\ inserter = "select" /\ batch # <<>>
  /\ Flush(batch, "select")
  /\ UNCHANGED <<dbVars, mainVars, loadVars, readVars, chVars, histVars>>

(* The select sees ctx.Done(): drain the channel.                          *)
ContextDone ==
  /\ inserter = "select" /\ cancelled
  /\ inserter' = "drain"
  /\ UNCHANGED <<dbVars, mainVars, loadVars, readVars, chVars, resume,
                 batch, histVars>>

(* insertBatch: ExecContext returns the context's error without asking the *)
(* database when the context is done before it starts.                     *)
ExecStart ==
  /\ inserter = "flush" /\ ~cancelled
  /\ inserter' = "exec"
  /\ UNCHANGED <<dbVars, mainVars, loadVars, readVars, chVars, resume,
                 batch, histVars>>

(* The INSERT commits: one row per entry, in the order of the batch.       *)
InsertBatch ==
  /\ inserter = "exec"
  /\ \A i \in 1 .. Len(batch) : \E s \in sources : s.id = batch[i].sid
  /\ raw' = raw \cup {[id |-> nextRow + i, sid |-> batch[i].sid, line |-> batch[i].line] :
                       i \in 1 .. Len(batch)}
  /\ nextRow' = nextRow + Len(batch)
  /\ stored' = stored \cup Lines(batch)
  /\ inserter' = resume /\ batch' = <<>>
  /\ UNCHANGED <<sources, nextSource, mainVars, loadVars, readVars, chVars,
                 resume, lost>>

(* insertBatch returns an error: flush logs it and forgets the batch.  The *)
(* context may be done before the statement is sent; after that anything   *)
(* can fail it: the context, the 5 s timeout, the connection, a value the  *)
(* database refuses, or one entry whose source has been deleted, which     *)
(* violates the foreign key and fails the rows of all the others.          *)
InsertFails ==
  /\ \/ inserter = "flush" /\ cancelled
     \/ inserter = "exec"
  /\ GiveUp(Lines(batch))
  /\ inserter' = resume /\ batch' = <<>>
  /\ UNCHANGED <<dbVars, mainVars, loadVars, readVars, chVars, resume, stored>>

Inserter ==
  \/ Receive \/ ChannelClosed \/ Tick \/ ContextDone
  \/ ExecStart \/ InsertBatch \/ InsertFails
-----------------------------------------------------------------------------
Users ==
  \/ \E p \in Paths, e \in BOOLEAN : CreateSource(p, e)
  \/ \E s \in sources : DeleteSource(s)

Loader ==
  \/ LoadQuery \/ LoadEnd \/ ReloadExit
  \/ \E s \in toLoad : LoadRow(s) \/ LoadRowFails(s)

EventLoop == LoopStart \/ LoopExit \/ \E p \in Paths : HandleLine(p)

Next == Users \/ Boot \/ Signal \/ Crash \/ Main \/ Loader \/ EventLoop \/ Inserter

Spec == Init /\ [][Next]_vars

(* Goroutines that can run do run.  The 5 s timeout bounds an INSERT.  The *)
(* reloader's select chooses at random between a tick and Done(), so it    *)
(* cannot see only ticks forever.  Nothing makes a signal, a crash, a user *)
(* or a new line happen.                                                   *)
Fairness ==
  /\ WF_vars(Main) /\ WF_vars(Inserter)
  /\ WF_vars(LoopStart) /\ WF_vars(LoopExit)
  /\ WF_vars(LoadEnd) /\ SF_vars(ReloadExit)

FairSpec == Spec /\ Fairness
-----------------------------------------------------------------------------
(* The lines the process holds in memory.                                  *)
Pending == Lines(batch) \cup Lines(entryCh)

(* No line is stored twice and none overtakes an earlier one, whatever is  *)
(* dropped, fails, crashes or is deleted: row ids grow with line numbers,  *)
(* in raw_logs, then in the batch, then in the channel.                    *)
RowsInLineOrder ==
  /\ \A r1, r2 \in raw : r1.id < r2.id => r1.line < r2.line
  /\ \A r \in raw, l \in Pending : r.line < l

(* A send on a closed channel panics: when main has closed entryCh, the    *)
(* event loop, which calls the handler, runs no more (main.go, shutdown).  *)
NoSendOnClosedChannel == closed => eventLoop # "running"

(* A clean exit leaves nothing behind in the channel or in the batch: an   *)
(* INSERT was attempted for every entry (runBatchInserter's drain).        *)
DrainedAtExit == main = "stopped" => Pending = {}

(* The collector keeps the promise of LineFate.                            *)
FateOf(l) ==
  CASE l \in stored    -> "stored"
    [] l \in lost      -> "lost"
    [] l \in Pending   -> "pending"
    [] OTHER           -> "unread"

Promise == INSTANCE LineFate WITH fate <- [l \in Line |-> FateOf(l)]

KeepsPromise == Promise!Spec

(* Every accepted line is settled: the interval flush, the full batch or   *)
(* the drain gets to it (runBatchInserter).                                *)
PendingIsSettled == \A l \in Line : l \in Pending ~> l \notin Pending

(* A signal leads to the end of the process: no goroutine of the shutdown  *)
(* waits for another one forever (main.go, graceful shutdown).             *)
ShutdownCompletes == main = "stop reload" ~> main \in {"stopped", "down"}

(* "Close the entry channel so the batch inserter drains and exits"        *)
(* (main.go:153), "flush remaining and exit" (main.go:252): a batch is     *)
(* given up only after the database has been asked to store it.            *)
NothingLostUnsent ==
  [][inserter = "flush" /\ main' # "down" => UNCHANGED lost]_vars

(* loadSources "adds any new ones to the watcher" and "knownSources tracks *)
(* IDs already added" (main.go:163): a known source is one whose file is   *)
(* read for it.                                                            *)
KnownIsWatched ==
  \A s \in sources : main = "serving" /\ s.id \in known => watched[s.path] = s.id
=============================================================================
