----------------------------- MODULE LogParser ------------------------------
(***************************************************************************)
(* The log-parser process (services/log-parser/main.go): every poll it     *)
(* selects the oldest unprocessed rows of raw_logs and, one transaction    *)
(* per row, inserts an event and marks the row processed.  The collector   *)
(* inserts rows and users delete log sources while it works.               *)
(***************************************************************************)
EXTENDS Naturals, FiniteSets

CONSTANTS
  Sources,      \* The log sources there are at first.
  Limit,        \* LIMIT of the query for unprocessed rows (100 in the code).
  MaxRow,       \* Bound: raw_logs hands out the ids 1 .. MaxRow.
  MaxBoot,      \* Bound: how often the process is started.
  MaxFault,     \* Bound: how often the database fails a statement for no
                \* reason of the statement's own.
  NullSource,   \* SQL NULL in events.source_id.
  NoRow         \* No row is being processed.

ASSUME LimitAssumption == Limit \in Nat \ {0}
ASSUME RowBoundAssumption == MaxRow \in Nat /\ MaxBoot \in Nat /\ MaxFault \in Nat
ASSUME NullAssumption == NullSource \notin Sources

(* What a line turns into: a plugin parses it; none does, and the line     *)
(* becomes the message of a fallback event; or it parses into text that    *)
(* PostgreSQL refuses in every attempt (a NUL character, written \u0000    *)
(* in a JSON line).                                                        *)
Body == {"parsable", "unparsable", "refused"}

RowId == 1 .. MaxRow
Row == [id : RowId, sid : Sources, body : Body]

VARIABLES
  live,         \* log_sources: the sources that still exist.
  raw,          \* raw_logs: the rows that exist.
  nextRow,      \* The id the next row of raw_logs gets.
  processed,    \* raw_logs.processed: the ids of the rows that are marked.
  events,       \* events: the rows that exist; field raw is history only.
  nextEvent,    \* The id the next row of events gets.
  boots,        \* How often the process has been started.
  faults,       \* How often the database has failed.
  pc,           \* Where the process is.
  todo,         \* Rows of the query's result that are still to come.
  cur           \* The row in processLine.

dbVars == <<live, raw, nextRow, processed, events, nextEvent>>
vars == <<dbVars, boots, faults, pc, todo, cur>>

(* The transaction has inserted an event.  The foreign key check locks the *)
(* row of log_sources until the transaction ends.                          *)
Locked == IF pc \in {"inserted", "marked"} THEN {cur.sid} ELSE {}

KindOf(b) == IF b = "parsable" THEN "parsed" ELSE "fallback"

TypeOK ==
  /\ live \subseteq Sources
  /\ raw \subseteq Row
  /\ nextRow \in 1 .. MaxRow + 1
  /\ processed \subseteq RowId
  /\ events \subseteq [id : Nat, raw : RowId, sid : Sources \cup {NullSource},
                       kind : {"parsed", "fallback"}]
  /\ nextEvent \in Nat
  /\ boots \in 0 .. MaxBoot
  /\ faults \in 0 .. MaxFault
  /\ pc \in {"down", "poll", "next", "begun", "inserted", "marked"}
  /\ todo \subseteq Row
  /\ cur \in Row \cup {NoRow}

Init ==
  /\ live = Sources /\ raw = {} /\ nextRow = 1 /\ processed = {}
  /\ events = {} /\ nextEvent = 1
  /\ boots = 0 /\ faults = 0 /\ pc = "down" /\ todo = {} /\ cur = NoRow
-----------------------------------------------------------------------------
(* Mistakes a change of this code could make, one per property; each takes *)
(* the place of the action it is named after in a mutation run.            *)

(* The event is inserted outside of the transaction, at once.              *)
InsertAutocommitted ==
  /\ pc = "begun" /\ cur.sid \in live /\ cur.body # "refused"
  /\ pc' = "inserted"
  /\ events' = events \cup {[id |-> nextEvent, raw |-> cur.id, sid |-> cur.sid,
                             kind |-> KindOf(cur.body)]}
  /\ nextEvent' = nextEvent + 1
  /\ UNCHANGED <<live, raw, nextRow, processed, boots, faults, todo, cur>>

(* The query takes the newest unprocessed rows.                            *)
NewestFirst(r, q) == r.id > q.id
-----------------------------------------------------------------------------
(* The collector inserts a row.                                            *)
InsertRaw(s, b) ==
  /\ s \in live /\ nextRow \in RowId
  /\ raw' = raw \cup {[id |-> nextRow, sid |-> s, body |-> b]}
  /\ nextRow' = nextRow + 1
  /\ UNCHANGED <<live, processed, events, nextEvent, boots, faults, pc, todo, cur>>

(* A user deletes a source: its raw_logs rows go (CASCADE), its events     *)
(* stay without a source (SET NULL).  A locked source has to wait.         *)
DeleteSource(s) ==
  /\ s \in live /\ s \notin Locked
  /\ live' = live \ {s}
  /\ raw' = {r \in raw : r.sid # s}
  /\ events' = {IF e.sid = s THEN [e EXCEPT !.sid = NullSource] ELSE e : e \in events}
  /\ UNCHANGED <<nextRow, processed, nextEvent, boots, faults, pc, todo, cur>>
-----------------------------------------------------------------------------
Start ==
  /\ pc = "down" /\ boots < MaxBoot
  /\ pc' = "poll" /\ boots' = boots + 1
  /\ UNCHANGED <<dbVars, faults, todo, cur>>

(* A signal cancels the context of every statement, a crash cuts the       *)
(* connection: an open transaction is rolled back either way.              *)
Stop ==
  /\ pc # "down"
  /\ pc' = "down" /\ todo' = {} /\ cur' = NoRow
  /\ UNCHANGED <<dbVars, boots, faults>>

(* ORDER BY r.id: r comes before q.                                        *)
Before(r, q) == r.id < q.id

Unprocessed == {r \in raw : r.id \notin processed}

(* The JOIN with log_sources takes nothing away: a row's source exists.    *)
Selected ==
  {q \in Unprocessed : Cardinality({r \in Unprocessed : Before(r, q)}) < Limit}

(* processLogs runs its query; when that fails it returns to poll again.   *)
Query ==
  /\ pc = "poll" /\ Unprocessed # {}
  /\ pc' = "next" /\ todo' = Selected
  /\ UNCHANGED <<dbVars, boots, faults, cur>>

(* The next row of the result, r, goes to processLine, which parses it and *)
(* begins a transaction.                                                   *)
IsNext(r) == r \in todo /\ \A q \in todo \ {r} : Before(r, q)

BeginTx(r) ==
  /\ pc = "next" /\ IsNext(r)
  /\ pc' = "begun" /\ todo' = todo \ {r} /\ cur' = r
  /\ UNCHANGED <<dbVars, boots, faults>>

(* The database fails the statement in hand.                               *)
Fault == faults < MaxFault /\ faults' = faults + 1

(* BeginTx fails: processLine returns and the row stays as it is.          *)
SkipRow(r) ==
  /\ pc = "next" /\ IsNext(r) /\ Fault
  /\ todo' = todo \ {r}
  /\ UNCHANGED <<dbVars, boots, pc, cur>>

(* The result is at its end, or breaks off.                                *)
EndOfRows ==
  /\ pc = "next"
  /\ IF todo = {} THEN UNCHANGED faults ELSE Fault
  /\ pc' = "poll" /\ todo' = {}
  /\ UNCHANGED <<dbVars, boots, cur>>

(* INSERT INTO events, not visible to others before the commit.            *)
InsertEvent ==
  /\ pc = "begun" /\ cur.sid \in live /\ cur.body # "refused"
  /\ pc' = "inserted"
  /\ UNCHANGED <<dbVars, boots, faults, todo, cur>>

(* UPDATE raw_logs SET processed = true.  It need not find the row.        *)
MarkProcessed ==
  /\ pc = "inserted"
  /\ pc' = "marked"
  /\ UNCHANGED <<dbVars, boots, faults, todo, cur>>

(* The commit makes the event and the mark visible together.               *)
Commit ==
  /\ pc = "marked"
  /\ events' = events \cup {[id |-> nextEvent, raw |-> cur.id, sid |-> cur.sid,
                             kind |-> KindOf(cur.body)]}
  /\ nextEvent' = nextEvent + 1
  /\ processed' = processed \cup {r.id : r \in {q \in raw : q.id = cur.id}}
  /\ pc' = "next" /\ cur' = NoRow
  /\ UNCHANGED <<live, raw, nextRow, boots, faults, todo>>

(* A statement or the commit fails: processLine returns, which rolls the   *)
(* transaction back, and goes on with the next row.  The insertion fails   *)
(* always when the source is gone (foreign key) or the text is refused.    *)
Rollback ==
  /\ pc \in {"begun", "inserted", "marked"}
  /\ IF pc = "begun" /\ (cur.sid \notin live \/ cur.body = "refused")
       THEN UNCHANGED faults
       ELSE Fault
  /\ pc' = "next" /\ cur' = NoRow
  /\ UNCHANGED <<dbVars, boots, todo>>
-----------------------------------------------------------------------------
Environment ==
  \/ \E s \in Sources, b \in Body : InsertRaw(s, b)
  \/ \E s \in Sources : DeleteSource(s)

Process ==
  \/ Query \/ EndOfRows \/ InsertEvent \/ MarkProcessed \/ Commit \/ Rollback
  \/ \E r \in todo : BeginTx(r) \/ SkipRow(r)

Next == Environment \/ Start \/ Stop \/ Process

Spec == Init /\ [][Next]_vars

(* The ticker keeps polling and docker restarts the process; that the      *)
(* database is not broken forever is the bound on faults.                  *)
Fairness == WF_vars(Process) /\ WF_vars(Start)

FairSpec == Spec /\ Fairness
-----------------------------------------------------------------------------
(* A row of raw_logs is marked exactly when its line has become an event,  *)
(* and no line becomes two, whatever statement fails and whenever the      *)
(* process stops (processLine's transaction).                              *)
ExactlyOnce ==
  /\ \A e1, e2 \in events : e1.raw = e2.raw => e1 = e2
  /\ \A r \in raw : r.id \in processed <=> \E e \in events : e.raw = r.id

(* The step's new events refer to a row and a source that are still there. *)
NewEventsHaveRows ==
  \A e \in events' :
    \/ e.id \in {d.id : d \in events}
    \/ e.sid \in live' /\ \E r \in raw' : r.id = e.raw

(* An event appears only while its raw line and its source exist, although *)
(* DELETE on log_sources takes both away at any time (the foreign key lock *)
(* between INSERT and COMMIT in processLine).                              *)
EventsComeFromRows == [][NewEventsHaveRows]_vars

(* Rows that fail in every attempt stay at the head of the query's window. *)
Waiting(i) == \E r \in raw : r.id = i /\ i \notin processed /\ r.body # "refused"
Starved(i) == Cardinality({r \in raw : r.body = "refused" /\ r.id < i}) >= Limit

(* A row is processed, or its source deleted, unless Limit refused rows    *)
(* are older or the process stays down (processLogs: ORDER BY, LIMIT).     *)
StaysDown == pc = "down" /\ boots = MaxBoot

RowIsServed == \A i \in RowId : Waiting(i) ~> ~Waiting(i) \/ Starved(i) \/ StaysDown
=============================================================================
