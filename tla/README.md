# Verification of the SIEM and chat application

TLA+ models of this repository's programs, checked with TLC on small instances
and proved with TLAPS for every value of their constants. Source paths below
are relative to the repository; `PROJECT.json` names the lines each definition
stands for.

## The system

Log files are tailed by the **log collector**, which writes lines to the table
`raw_logs`. The **log parser** turns them into rows of `events`. The **SIEM
API** serves events, alerts, rules and log sources over REST and pushes new
events and alerts to browsers through its **WebSocket hub**. Alerts are written
by a rule engine that is not in this repository. Beside this pipeline the
**chat backend** stores chats, and asks an LLM for the answers it streams to
the **frontend**. All programs meet only in PostgreSQL.

| Component | State | Operations | Hard behaviour |
|---|---|---|---|
| collector pipeline, `services/log-collector/main.go` | `knownSources`, `entryCh` (1000), the batch (50) | hot reload, line handler, flush on size, tick or end, shutdown | five goroutines, shutdown order, full channel, all-or-nothing batch, crash |
| file watcher, `services/log-collector/collector/watcher.go` | `files`: source and offset per path | `AddPath`, `Start`, `Stop`, `handleWriteEvent`, `handleRotation` | rotation goroutines racing with reads, truncation, partial lines |
| log parser, `services/log-parser/main.go` | none but the database's | poll, and one transaction per row | restart, failing statements, sources deleted meanwhile, a window that fills with rows that always fail |
| parser plugins, `services/log-parser/parser` | none | detect, parse, map levels | detection order |
| WebSocket hub, `services/api/handlers/websocket.go` | `clients`, `broadcast` (256), two cursors | register, unregister, poll, push | one goroutine that sends to itself, slow peers, rows that cannot be scanned |
| SIEM REST API, `services/api/handlers` | tables of `database/init/002_siem_schema.sql` | CRUD of sources and rules, alert status, lists by page, overview | deletions that cascade or set NULL, a commit before a failing Scan, answers put together from several statements without a transaction, midnight and New Year |
| chat backend, `backend/services/chat_service.go`, `backend/repositories` | tables of `001_init.sql` | chats, messages, streamed answers, titles | concurrent messages of one chat, failures between the INSERTs, disconnects |
| LLM client, `backend/services/llm_service.go` | none | endpoint candidates, prompt within the context, stream, fallbacks, title | streams that break off after they have been passed on, a history that others write into |
| accounts, `backend/services/auth_service.go` | `users` | register, login, tokens | check before insert, a commit whose result is lost |
| chat shell, `frontend/components/chat-shell.tsx` | React state of a page, `messagesCache` for all pages | open a chat, load its messages, send, stop | answers for pages that were left, drafts, creation of a chat on the way |
| SIEM dashboard, `frontend/components/siem-dashboard.tsx` | selection, rows shown, loader, error | filter, page, refresh by interval | calls that are never cancelled and overtake each other |

Interactions: the collector reads `log_sources` and inserts into `raw_logs`;
the parser reads `raw_logs` joined with `log_sources`, inserts into `events`
and marks rows; the hub reads `events` and `alerts`; the REST API creates and
deletes `log_sources`, and the schema then removes the source's `raw_logs` rows
(CASCADE) and clears `events.source_id` (SET NULL). A model of one program
therefore contains what the others do to its tables, as actions of its
environment.

What makes the components correct: a line read is settled exactly once, in
order (collector); a row becomes exactly one event and has its turn (parser); a
client gets each row once, in order and without gaps (hub); every shutdown and
every goroutine comes to an end. A question and its answer are stored at most
once and in that order, and nobody is told of an answer that is not stored
(chat backend); an account belongs to whoever was told so (accounts); a page
and an overview do not lose rows that were there all along, and no event is
erased (SIEM API). A page of the browser shows its own chat, in the server's
order, and what it shows does not vanish (chat shell); the dashboard comes to
show what is selected. `PROJECT.json` lists the hazards to that, each
with its line and with the properties that cover it.

## Modules

| Module | Models |
|---|---|
| `LineFate` | what the collector promises about lines, with none of its machinery |
| `Collector` | the collector process, its database and its users |
| `CollectorProofs` | inductive invariants and theorems of `Collector` and `LineReader`, the refinement of `LineFate` |
| `Watcher` | the file watcher on one path, the programs that write and rotate its file, and what fsnotify reports |
| `LineReader` | how the watcher cuts the bytes of a growing file into lines |
| `LogParser` | the parser process, its database, the collector's inserts and the users' deletions |
| `LogParserProofs` | its inductive invariant and the theorems |
| `Hub` | the hub's goroutine, the connections' goroutines, peers, and the tables it polls |
| `WatcherProofs`, `HubProofs` | their inductive invariants and the theorems |
| `Requests` | the requests of an HTTP server: a goroutine each, disconnects, failing statements, the process's exit |
| `Accounts` | registration, login and tokens |
| `Lists` | what is left of a list when a loop keeps some of its elements |
| `ListProofs` | facts on lists of any length, and induction over the numbers |
| `LLM` | endpoint candidates and the choice of a prompt's messages, as operators |
| `Chat` | what a message sent to a chat sets off, statement by statement |
| `Backend` | the chat backend: `Chat` and `Accounts` behind one server, with the properties |
| `Exchange` | what the chat backend promises about a message, with none of its machinery |
| `BackendProofs` | its inductive invariants, the theorems, the refinement of `Exchange` |
| `ParserPlugins` | the parser's plugins: detection, level and time of an event, as operators |
| `SiemStore` | the SIEM's tables, the statements that change them, and the clock |
| `Siem` | the queries of the REST API that take more than one statement, over `SiemStore` |
| `SiemProofs` | its inductive invariants and the theorems |
| `ChatShell` | the chat pages of one browser, over the server that `Exchange` describes |
| `Dashboard` | the SIEM dashboard: calls whose answers overtake each other |
| `FrontendProofs` | inductive invariants and theorems of `ChatShell` and `Dashboard`, and that the chat shell's server is `Exchange` |
| `MCCollector`, `MCWatcher`, `MCLineReader`, `MCLogParser`, `MCHub`, `MCBackend`, `MCSiem`, `MCChatShell`, `MCDashboard` | the instances for TLC |

`Accounts` and `Siem` extend `Requests`, `Chat` extends `Accounts` and `LLM`,
`Backend` extends `Chat`; `SiemStore` extends `ParserPlugins`, `Siem` extends
`SiemStore`; `LLM` and `ChatShell` extend `Lists`. The definitions of `LineReader`
and `Dashboard` have names of their own (`ReaderInit`, `DashboardSpec`, ...), so
that one module can prove about two of them. `Backend` implements `Exchange`, and `ChatShell` contains
`Exchange` as its server: what the pages rely on is what the backend is proved
to do.

Each module names its bounds in CONSTANTS with the comment "Bound". Operators
under "Mistakes a change of this code could make", and those whose comment
begins with "A change could", are used by no specification; each takes the
place of a definition in a mutation run and makes one property fail.

### Collector

One variable or two per goroutine says where it is: `main` (loading, serving,
and the steps of the shutdown in the order of `main.go:146-159`), `reloader`,
`eventLoop`, `inserter`. `inserter = "flush"` stands between `flush()` and the
statement, `"exec"` inside `ExecContext`, because a context that is cancelled
before the statement starts fails it for sure and afterwards only perhaps. The
`select` of Go is the disjunction of the actions whose cases are ready.
`sources` and `raw` are the tables; `stored` and `lost` are history. Lines are
numbered in the order the watcher reads them. How the watcher finds the lines
of a file is abstracted to `HandleLine(p)` for a watched path; `Watcher` has
the detail.

Things the model keeps although they are easy to miss: `Watcher.Start` calls
`wg.Add(1)` in its own goroutine, so `Stop` may return before it has run
(`WatcherStopped`, `LoopStart`); `AddPath` returns nil for a path that is
watched already (`LoadRow`); a batch fails as a whole when one source is gone
(`InsertFails`).

### Watcher

One path. `file` is what is at the path now, with an `ino` that tells a file
from its successor; `fd` is what `handleWriteEvent` has opened (`OpenFile`),
`from` its local `currentOffset`, and `ReadRest` the scan and the store of the
offset, which sees what was appended meanwhile. `rewatch` is the goroutine of
`handleRotation`; `Find` (Stat and reset) and `Rewatch` (Add) are two steps,
between which the file may change, and `AddWatch` and `Rewatch` may fail at any
time, whatever the reason; a refused `Rewatch` is the end
(`rewatch = "refused"`). The environment (`Writers`) appends,
truncates, moves away, deletes and creates. `events` and `watch` model fsnotify
1.8 (`go.mod`) on inotify: a watch follows the file and not the path, equal
events may be merged, a rename ends the watch at once and a deletion when the
last writer closes the file, and nothing of a file comes after its removal
event. On the last fact rests `ResetIsAlone`: the code's locking alone would
allow a read to overwrite the reset. `raced` marks the three races the code
cannot notice (a truncated file that has grown past the offset again, a
truncation during a read, a file replaced between AddPath's Seek and Add);
`NothingSkipped` and `ToldIsRead` say that there are no others. What a new file
holds when it is watched again is only read with its next write: `ToldIsRead`
speaks of writes that fsnotify reported. A write is the unit.

### LineReader

Here the unit is a byte, of a file that only grows. `head` and `pos` delimit
the buffer of the `bufio.Scanner`: `Read` fills it, `Token` takes a line from
it, `Eof` hands over what is left at the end of the file, with or without a
newline, and `TooLong` ends a scan whose buffer is full without one. `Done` is
the store of the offset, `f.Seek(0, io.SeekCurrent)`: how far the file was
*read*. What is handed over is an interval of the file. `CutOnlyAtEnds` and
`NothingLost` name the two cases in which a piece is not a line: a line in two
writes can be read as two pieces, and a line of more than 64 KB is given up,
with what follows it waiting for the next write. These are real; the properties
say that there are no others.

### LogParser

`pc` follows one call of `processLogs`: query, rows in the order of their ids,
and per row begin, INSERT, UPDATE, COMMIT. `Stop` is a signal or a crash and
rolls an open transaction back. The insertion into `events` takes the foreign
key's lock on the source, so that `DeleteSource` waits (`Locked`). A line is
*parsable*, *unparsable* (it becomes the message of a fallback event) or
*refused*: `{"message": "\u0000"}` is parsed into text that PostgreSQL rejects,
every time. A failed COMMIT whose outcome is unknown needs no action of its
own: it is `Commit` followed by `Stop`, or `Rollback`.

### Hub

`hub` follows `Run`: its select, a poll (`query`, `rows`; `feed` tells events
from alerts) or the writes of one message (`write`). `conn[c]` follows a
connection through its handler and its read loop: both wait for `Run` to take
what they send. `"stalled"` is a peer that does not read, so that
`WriteMessage`, which has no deadline, does not return. A row's reference can
become NULL at any time; the model allows it for any row. Rows of one table
become visible in the order of their ids: the parser is the only writer of
events and commits one at a time.

### Requests, Accounts, LLM, Chat, Backend

`pc[r]` is the step that request `r` takes next, so that the statements of
different requests mix in every order. A client may disconnect at any step
(`Disconnect`): its context ends and every later call fails (`Works`, `Fails`),
except the title, which has a context of its own. A statement that fails may
have committed, so that the row is there and the program is told it is not
(`Insert`, `InsertUser`). The commit and its
reported error are one step: PostgreSQL may in fact commit a cancelled
statement a moment after the program has been told of the error, and what
`Exchange` says of the end of a request holds up to this moment. An INSERT has two steps because `NOW()` is the time
at which it begins, and the history is ordered by that time (`Listing`).

`Chat` follows `SendMessage` and `SendMessageStream`: lookup of the chat, "is
it the first message", INSERT of the question, history, model, INSERT of the
answer, timestamp, title. An answer is a sequence of tokens, and a token is the
number of the attempt it comes from: that is all that tells an answer that is
one attempt's from one that is glued together. `StreamBreaks` passes tokens on
and goes to the next endpoint, as the code does; the client then has more than
what is stored, and `OneAttemptsAnswer` says that what is stored is what it got
last. The endpoints are computed by `LLM` from the base URL; the proofs need no
more of them than their number. The prompt is computed by `PromptOf` from the
rows: window, question, context limit (`Kept`). `History` reads the *oldest*
messages of a chat, as `GetHistory` does with its ascending LIMIT; that the
question nevertheless comes last is due to `WithQuestion`
(`PromptEndsWithQuestion`), not to the query. `PromptFits` is about a limit that
is set: with `LLM_CTX_SIZE` 0 the code does not limit anything.

`Exchange` is the abstract specification: `asked`, `answered`, `result`. The
refinement mapping (`Promise`) takes the stored rows and the ends of requests.

### ParserPlugins, SiemStore, Siem

A line is what the plugins can tell of it: the checks it passes, its level
word, status or priority, and the time it says (`says`), on the parser's clock.
That need not be when it was written: `Stamp` accepts every time that is stated
(`json.go:65`, `nginx.go:51`, `syslog.go:62`), and `parseBSDTime` takes the
local time of the line's host for one of the parser's zone (`syslog.go:153-154`),
which puts a host east of it ahead by some hours. `lag` of a line is how far it
is behind, or ahead if it is negative; nothing is assumed about it but that the
time is not before the calendar's beginning. Years have a few units of time: a line
without a year that is read after New Year lies a year ahead, and one that is
ahead across New Year a year back. `SiemStore` has one action per statement that changes a
table, including what the schema does to referring rows, plus the parser's
INSERT and the alerts of the absent rule engine. `told` remembers what the
writers of rules were answered.

`Siem` has the answers that are put together from several statements: a list
(`Count`, `Select`) and the overview. Six of its questions are one statement
(`AskNext`). The two series are a statement (`AskSeries`) and then a loop that
reads the clock anew in each turn (`buildDailySeries`, `overview.go:254-255`), so
that time passes, and rows come in, between any two of them: if it passes
midnight, the loop goes on a day further and a day is left out.
`totalEvents` is what the first statement has found, since a failed one also
leaves the number 0, on which the made-up numbers depend. The LIMITs of the
techniques and agents are the constant `Top`; `Largest` has the choices
of groups that ORDER BY leaves open. Days are UTC: the loop says so, and for
the database's session and the programs it is assumed (their containers set no
zone). One request in flight
suffices in the run, since requests that only read do not influence each other
and every write may come between any two of its statements; the theorems hold
for any number. `known`, `before` and `missed` are history: the rows there were
when the request arrived, the page before, and what an answer left out. `Ties`
in `ORDER BY` are resolved by any choice (`Newest`). A connection that breaks
while rows are read ends the page early without an error, because `rows.Err()`
is not asked; such a request counts as `troubled` and the properties except it.

### ChatShell

A page (`mount`) is one instance of the component; a page that was left keeps
its handlers, which go on with what they had. `Submit`, `Created`, `Streamed`
are `handleSendMessage` from one await to the next; `AnswerLoad` and
`ReceiveLoad` are the two ends of `loadMessages`. `SetAndCache` is the updater
that also writes `messagesCache`: React ignores the state of a page that is
gone and may or may not run its updater, so both are allowed. A message is
known by the number of its sending, its role and whether the server has it
(`stored`) or it is a draft; texts, and the tokens that lengthen a draft, are
left out. Not in the model: the list of chats, the profile, the end of a
session, and that the composer is given back only after the list of chats has
been loaded again. A request that fails in the server goes no further, which
needs no step. Two exceptions in the properties are real: a message sent while
the list of its page is loading (`early`) can be replaced by it or shown twice,
and two messages sent on `/chat` before the router has left it (`Hasty`) go to
two chats whose messages the page and the cache mix.

### Dashboard

`Load` is a call of `load` with the selection it was made for, `Respond` the
server's answer to it (with the filter and page of the call and the alerts
there are then), `Receive` what the component does with it. Calls are not
cancelled. `Select` covers filter and page, `Refresh` the interval of 30
seconds that belongs to the selection. Charts and the made-up data of a build
with `USE_MOCK` are left out.

## Runs

| Run | Shows |
|---|---|
| `collector` | `RowsInLineOrder`, `NoSendOnClosedChannel`, the refinement `KeepsPromise`, and that accepted lines are settled and shutdowns end |
| `collector_shutdown` | finding: the drain's INSERTs fail unsent |
| `collector_recreate` | finding: a recreated source is known but not watched |
| `watcher` | `NothingSkipped`, `ResetIsAlone`, and that reported writes are read (`ToldIsRead`) and rotations followed (`RotationIsFollowed`) |
| `lines` | `OnceInOrder`, `NothingLost`, `CutOnlyAtEnds` for lines in any number of writes, and that what is written is read (`AllIsRead`) |
| `parser` | `ExactlyOnce`, `RowIsServed` |
| `hub` | `PushedInOrder`, `NothingSkipped`, `RowIsPolled`, `ClientIsServed` |
| `hub_stuck` | finding: the hub waits for itself |
| `backend` | two requests of any kind at once: `PromptEndsWithQuestion`, `PromptFits`, `OneAttemptsAnswer`, `UntitledOnlyAfterTrouble`, `CreatedIsMine`, that every step advances, and the refinement `KeepsPromise` |
| `siem` | lists and overview against every interleaving of writes and the clock: `TotalIsKept`, `PagesOmitOnlyTies`, `ErrorOnlyAfterDeletion`, `MockOnlyWithoutEvents`, `RecentIsCounted`, `FutureIsExplained` |
| `chatshell` | two messages, two pages, an existing and a new chat: `OnlyThisChat`, `AnswerIsShown`, `InServersOrder`, `NothingVanishes`, and that the composer is given back (`EverythingSettles`) |
| `dashboard` | two calls at a time: `LoadingIsAsking`, and that the dashboard comes to show what is selected (`Converges`) |

Type invariants and some simpler invariants are proved and therefore not part
of a run; the type invariant of `ChatShell` is in both, because a message
that is posted without a chat shows there first.

Bounds. Collector: two paths, two source ids, three lines, channel and batch of
two, two starts: a batch can mix a live and a deleted source, a source can be
deleted and created again, the channel can be full while the batch is, a batch
can end by size or by tick, and a restart finds rows of the first run. Watcher: three files one
after the other, three pieces, one truncation, two events queued that could
have been merged, two attempts: a file can be cut and grow past the offset, and
a second rotation can begin while the first is followed. Parser:
two sources, three rows, a window of two, two starts and one fault: a window
can be blocked by refused rows or hold a row that is deleted before its turn.
Watcher's lines: a buffer of three bytes, seven bytes in writes of up to four,
so that lines are shorter and longer than the buffer and lie in one write or
several; a file begins empty or within a line.
Hub: one connection, which the theorems extend to any number, two rows over
both tables, a window of two, a channel of one, one fault: the channel fills
within one tick, a poll can break off between two
rows, and a window can consist of rows without a reference. In `hub_stuck` the
channel holds all that one tick can send, as in the code (256 against 100): it
takes a second tick before the writes. Backend: two requests, one of two users
registered, one chat, a short and a long text, a window of two and a context
that holds the system prompt and one or two short messages: two first messages
can overlap, two registrations of one email can, the window can be full of
others' messages, the context can be too small for the question alone; answers
have one token and one stream breaks off, which is enough for an answer glued
from two attempts. The base URL ends in `/v1`, so that there are three chat
endpoints. SIEM: four writes, one tick from the last hour of a year into
the next, two days of two units, a page of one row, two pages, at most four
events of two agents and LIMITs of one: rows
can be added and removed between count and page, a late line can be parsed
after New Year, a line can state a time to come, the window can move between
two questions, midnight can lie between the two turns of a loop, and a group
can be cut by the LIMIT (each was seen to occur). An event
that is dated a year late counts as missed only from its time on
(`RecentIsCounted`), and reading begins at page 1 (`PagesOmitOnlyTies`: a client
that comes with page 2 has no page before it). Chat shell: two chats of which one exists, two messages,
two pages and one Stop: the list of the first page can arrive on the second,
both messages can be in flight, and a chat can be left while it is created.
Dashboard: two filters of which the server knows one, two rows, a page of one
row, two calls at a time and one failure. Runs allow deadlock where all bounds are
used up and the process is stopped.

Fairness. The backend's requests need none: `EveryStepAdvances` is an action
property that bounds the steps of each request, which with the progress of a
goroutine that can run is termination; it is proved, while a liveness property
could only be model-checked. The SIEM API's requests are straight-line code.
For the others, goroutines that can run do run (weak fairness of each process). A Go
`select` chooses at random among its ready cases, so a case that is ready again
and again is taken: strong fairness of the hub's cases and of the reloader's
exit. Docker restarts a stopped container (`restart: unless-stopped`): weak
fairness of `LogParser!Start`. In the browser every request is answered (`ChatShell!Created`,
`Streamed`, `AnswerLoad`; `Dashboard!Respond`): the server ends each in 120 s,
and a connection that is lost is an error. Nothing makes users, the router,
signals, crashes, peers or new lines happen. Liveness of parser and hub names the situations it excludes
(`Starved`, `StaysDown`, `Held`), which the code can really get into.

### Findings

1. `services/log-collector/main.go:155`: on each clean stop, what was in the
   channel is given up without asking the database.
2. `services/log-collector/main.go:198` with `collector/watcher.go:64`: a
   deleted and recreated source is never read, and its old entry fails other
   sources' batches.
3. `services/api/handlers/websocket.go:123`: the hub can block on its own
   channel.

Limits of the code that properties name as their exceptions: 100 rows that
PostgreSQL refuses each time hide all newer rows (`services/log-parser/main.go:120`,
`Starved`); after a rotation nobody reads what the new file already holds
(`collector/watcher.go:281`), and if the new file cannot be watched the first
time, nobody tries again (`:281-287`); a midnight within the loop of a daily
series leaves a day out (`overview.go:254-255`, `PassedOver`); the overview shows
made-up numbers when its first statement fails (`overview.go:86`); lines in two writes and lines over 64 KB
(`collector/watcher.go:223`); messages sent while a list is loading or before
the router has left `/chat` (`chat-shell.tsx:495`, `:528`).

Beside these, a comment the code no longer matches: `rules.go:230-231` expects a
constraint violation when a rule with alerts is deleted, but the schema sets
`alerts.rule_id` to NULL (`002_siem_schema.sql`), which `DeleteRule` models and
which makes the alert list fail (`ErrorOnlyAfterDeletion` says it fails for no
other reason).

## Proofs

All theorems hold without fairness (`ChatShell!Spec` has some, no proof uses it)
and use only the named assumptions on the constants: capacities and windows are
at least one, bounds are natural numbers.

*Lists.* The library's theorems of induction are about predicates, which the
provers cannot instantiate; `Induction` states it for a set of numbers, from the
fact that < is well-founded (`WFMin`). From it follow that a recursion over the
numbers has a result (`Recursion`), and with it what the recursive functions of
`LLM` and of the properties compute. `NthIs` and its corollaries say that the
elements at some positions of a list are as many as the positions and in their
order. `In` and `Follows` are what the proofs know of a list: what it has, and
what comes before what; `InConcat`, `InAppend` and `OnlyIs` say how they come out
of the operations on lists.

*Collector.* `CollectorInv` is the conjunction of four parts, proved one after
the other. `TypeInv` adds `Room` to `TypeOK`: an inserter that waits has room
in its batch, else a receive would overflow it. `ShutdownInv` (`Loop`, `Drain`)
ties the flags and the other goroutines to main's place: `entryCh` is closed
only past "close channel" and then the event loop has ended; an inserter that
has ended left nothing. `OrderInv` (`Order`, `Accounts`) lists raw rows, batch
and channel as one increasing sequence of lines below `nextLine`, and makes
`stored`, `lost`, pending and unread a partition. `Busy` says that a flush has
something to flush. Each theorem follows from its part; `CollectorKeepsPromise`
maps every step to a step of `LineFate` or to a stutter.

*LogParser.* `ParserInv` is `TypeOK`, `RawIds` (ids are never reused), `Fates`
(marks and events correspond one to one, and nothing is ever taken back) and
`Work`: a row in hand is unmarked and either still there or gone *together with
its source*. The last clause is the heart: an INSERT that passes the foreign
key therefore has its row, and keeps it until the commit because of the lock.

*Watcher.* `TypeInv` bounds every offset by what has been written. `AloneInv`
states the order of events that the code relies on instead of a lock: a removal
is the last event of its watch (`GoneIsLast`), and while the rotation's
goroutine runs the loop is idle, the queue empty and the path unwatched
(`Alone`); a file found again is read from its start (`FoundAtStart`). `SameFile`
and `Growing` give what has been read of a file that only grows, position by
position. `SkipInv` says the same of any file but for the named races, and for
the two places an offset lives in: `offset` and the scan's `from`.

*Hub.* `TypeInv` has the shape of every queue and the channel's capacity.
`OrderInv` lists, per client and table, what was sent, what is queued and what
the poll holds as one increasing sequence below the cursor (`Top`, `PollAt`).
`SkipInv` says that every row a cursor has passed is in one of these places
(`Has`, `Passed`), for rows that can be pushed at all.

*Backend.* `TypeInv`, with `KindsOK` and `RowsInv`: which requests may be at
which step, and that each stored row belongs to a request that is past its
INSERT. On this rests the refinement `PromiseIsKept`, where each action maps to
a step of `Exchange` or a stutter. `TitleInv` is about the first message: the
request whose INSERT came first found no message and makes the title, or has
met trouble. `AnswerInv` gives what a client was sent as earlier attempts
followed by the current one. `PromptInv` says that the selection of a prompt
keeps its last line, whatever the costs, and that what it keeps fits
(`PromptsFit`, from lemmas on `Kept` and `LimitByContext`): by induction the sum of
the lines kept is what the loop has counted, but for a last line that was kept
without being counted. It needs that the rows of a chat have an order, that is
`StampsInv`: no two of them, and no INSERT that has begun, have one time. The ranks of `EveryStepAdvances` are computed by `Ranks`.

*SIEM.* `TypeInv` contains the keys and references of the schema (`StoreInv`),
and that ids are numbered without gaps, so that an INSERT's id is new
(`Numbered`). `VersionsInv` bounds what was told of a rule by its version;
`TimesInv` says of an event dated in the future that its line says so, or says no
year and was parsed in a later one (`FutureHasReasons`, for any line);
`RequestsInv` and `TotalOf` carry a request's count from `Count` to `Select`:
rows of a list that has no status filter only become more, and a page has as
many rows as there are, up to `Limit`. `MockInv` keeps that an overview which
has counted no event has none of those it knew at its arrival in the window:
their times stay and the clock only goes on. Whatever an overview has left out is
`LeftOut`: it is not in the window, or it `MayBeMissed`, now and later
(`LeftOutStays`): a window that has gone past a row does not come back to it, a
day that was passed over stays so, and a group that is not smaller than another
one's known rows in the window does not become smaller (`NotSmallerStays`). For the series that
rests on `LoopOf`: what a statement has counted is all that the loop may have to show
as long as it runs (`CountedOf`), and the days so far begin no later than the last
days do, go on from there, and have all days between or have passed over them
(`DaysOK`, `DaysGoOn`), so that at the end every one of the last days is there or
was passed over (`DaysAtEnd`). All of it rests on times being dates
(`AlertTimesInv`, `TimesInv`), and would be false for rows dated in the
future, which is why `missed` has only rows whose time has come. `PagesInv` compares the rows a page was made of with
those there are now: of the rows known at first none has gone and none has
changed its time, those before the page boundary are still before it, and new
rows only push others back (`Stay`, `FirstRead`, `NextRead`). Alerts that are
filtered by their status, which may change, are excepted in the statement.

*LineReader* (in `CollectorProofs`). The buffer begins where the last scan ended
or after a newline (`BeginsAtCut`), and the offset is where one ended. From this
each piece begins and ends at a newline or at a cut (`CutsStay`); the newlines
named lie in the file already, so that a write changes nothing about them.
`NothingLost` is extended from the offset to the buffer.

*Chat shell* (in `FrontendProofs`). `ShellInv` has the types and where things
are: which page, chat and server row a message in each state has (`PagesInv`,
`SendsInv`), and that the server has no row twice and an answer after its
question (`RowsInv`). Two facts about steps carry the rest. `Grows`: no step
takes back a message that was sent, a page's route or a row of the server.
`Changes`: how each list can come to be what it is after a step (from a list that
was there, from the server, or by a sending that adds its draft or its end). Every
action is looked at once for them, and each invariant is then proved from
`Grows` and `Changes` alone. These are: every list, wherever it is (shown, cached
or on its way), has stored messages only if the server has them, and in its order
(`Held`, `Ordered` in `ListsInv`); a list has the messages of its chat or page
(`HomeInv`); while a message is being sent, what its page shows comes before it
(`SendingInv`), so that the end of the stream may append it; and an answer on its
way has what the page shows (`FetchInv`), so that it may replace it. `FetchInv` is
what `NothingVanishes`, an action property, rests on. `ServerIsExchange` says that
what the pages see of the server is a behaviour of `Exchange`, which is what
`BackendProofs!PromiseIsKept` shows of the backend: the two proofs meet in that
specification.

*Dashboard* (in `FrontendProofs`). The loader shows only while a call for the
present selection runs, whatever other calls end. It is empty only while a call
runs or with an error.

What attempts to prove showed about the statements: `PromptFits` was false for a
limit of 0, which no run has; `RecentIsCounted` was false for an event that a
question leaves out because it is dated a year late and whose time comes while
the others are asked; `PagesOmitOnlyTies` was false for a client that begins with
page 2. All three were beyond the bounds of their runs and are conditions of the
statements now. `InServersOrder` turned out to say nothing about a message that
is shown twice; it says so now, and it holds.

The assumptions on the constants are evaluated by TLC in the runs. All but one
describe the configuration; `EndpointAssumption` (the number of endpoints is a
natural number) would follow from the definitions of `LLM`, of which it is the
length of a fold.

Every invariant and action property that a run checks is proved, and so are the
refinements of `LineFate` and `Exchange`. Only model-checked are the liveness properties (`ToldIsRead`,
`RotationIsFollowed`, `PendingIsSettled`, `ShutdownCompletes`, `RowIsServed`,
`RowIsPolled`, `ClientIsServed`, `EverythingSettles`, `Converges`, `AllIsRead`),
since liveness under fairness and ENABLED are beyond the prover, and the
findings, which are counterexamples. The operators of `ParserPlugins` are in the
proofs only as far as `FutureIsExplained` needs them.

## Plan

What remains, in the order of its worth:

1. The safety half of the liveness properties, as invariants with proofs: that
   the hub waits for itself only with a full channel, that a row which waits in
   the parser's window has only unmarked rows before it, that a reported write is
   read or still queued.
2. Collector and parser as one pipeline that implements an abstract
   "each line becomes at most one event, in order", from `LineFate` and
   `ExactlyOnce`.
3. The proof that `LineReader` and `Watcher` give the lines that
   `Collector!HandleLine` takes.
4. The framing of the answer's stream (`chat_handler.go`, `chat-shell.tsx`):
   events cut by reads of any size.

## Not modelled

- Deployment (nginx, Docker, Jenkins, metrics), configuration, logging, health
  checks, styles and charts, the SQL seed: they hold no state whose changes can
  go wrong in more than one step, or belong to other programs.
- Within the frontend: charts and made-up data of the dashboard, the filter
  modal, which nothing opens, the list of chats, profiles, the end of a
  session, and the forms for login, registration and settings.
- The rate limit: one token bucket of a library for all clients
  (`rate_limit_middleware.go`), although `PENJELASAN.md:776-780` describes one
  per IP address.
- Within the log pipeline: the retry loops of the first database connection,
  the health files, and what the regular expressions match.
- Within the SIEM API: `ReloadRules` and `ReloadStatus`, `GetSiemAlerts` (no
  route leads to it), answers that are one statement, percentages, and page
  numbers so large that the offset overflows.
- Within the chat backend: user names and profiles, the end of a token after
  its lifetime, `HealthCheck` of the model, the text of titles, texts that are
  blank, and the limit of 4096 bytes of an error's body.
