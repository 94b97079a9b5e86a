-------------------------------- MODULE Siem --------------------------------
(***************************************************************************)
(* The queries of the SIEM REST API that are more than one statement: the  *)
(* lists of events and alerts count the rows and then read a page of them  *)
(* (services/api/handlers/events.go, alerts.go); the overview asks eight   *)
(* questions (overview.go).  No transaction holds them together: what      *)
(* SiemStore does comes between.                                           *)
(***************************************************************************)
EXTENDS SiemStore, Requests, FiniteSetsExt

CONSTANTS
  Limit,        \* Rows of a page.
  Pages,        \* The pages that are asked for.
  Jobs,         \* Bound: what is asked for.
  DayLength,    \* Units of time in a day.
  Days,         \* Days of the overview (7 in the code).
  Top,          \* LIMITs of the overview: groups of mitreTechniques (6 in
                \* the code) and of topAgents (5).
  NoJob

ASSUME SiemAssumption ==
  /\ Limit \in Nat \ {0} /\ Pages \subseteq Nat \ {0}
  /\ DayLength \in Nat \ {0} /\ Days \in Nat \ {0}
  /\ YearLength % DayLength = 0 /\ Days * DayLength <= YearLength
  /\ Days * DayLength <= Start
  /\ Top \in [{"mitreTechniques", "topAgents"} -> Nat \ {0}]

VARIABLES
  job,          \* job[r]: what request r asks for.
  total,        \* The number of rows that r has counted.
  items,        \* The ids of the page that r has read.
  asked,        \* The number of questions that r has asked.
  totalEvents,  \* What the first question found: "some" events, "none",
                \* or an "error", which leaves the number 0.
  counted,      \* The ids that the question of a series has returned.
  series,       \* The days of the series of r, one by one.
  troubled,     \* The requests that met an error of the database.
  known,        \* No variables of the program: the rows that there were
  before,       \* when r arrived, the ids of the page that its client has
  missed        \* read before, and the known rows that an answer leaves out
                \* although they are not in the future by then.

overviewVars == <<asked, totalEvents, counted, series, missed>>
queryVars == <<job, total, items, overviewVars, troubled, known, before>>
vars == <<storeVars, requestVars, queryVars>>

(* The rows that a list is about.  An alert's status may be asked for, or  *)
(* an event's level (as its source and an alert's severity, which do not   *)
(* change either).                                                         *)
List == [list : {"events"}, page : Pages, filter : Levels \cup {Null}]
          \cup [list : {"alerts"}, page : Pages, filter : Statuses \cup {Null}]
Overview == [list |-> "overview"]

ASSUME JobAssumption == Jobs \subseteq List \cup {Overview} /\ NoJob \notin List \cup {Overview}

(* The questions of the overview, in their order.                          *)
Questions == <<"TotalEvents", "CriticalAlerts", "AuthFailures", "AuthSuccesses",
               "alertLevelsSeries", "mitreTechniques", "topAgents", "agentSeries">>
Series == {"alertLevelsSeries", "agentSeries"}

Table(list) == IF list = "alerts" THEN alerts ELSE events
Matches(row, j) ==
  \/ j.filter = Null
  \/ IF j.list = "alerts" THEN row.status = j.filter ELSE row.level = j.filter
Matching(j) == {row \in Table(j.list) : Matches(row, j)}

(* A row whose reference has become NULL, which Scan cannot take.          *)
Orphan(row, list) ==
  IF list = "alerts" THEN Null \in {row.rule, row.event} ELSE row.source = Null

Ids(rows) == {row.id : row \in rows}

(* The n newest rows; of rows of the same time, any may come first.        *)
Newest(rows, n) ==
  LET size == IF n < Cardinality(rows) THEN n ELSE Cardinality(rows) IN
  {top \in kSubset(size, rows) : \A t \in top, row \in rows \ top : t.at >= row.at}

(* A change could go on from the last row of the page before.              *)
PageOfInclusive(rows, page) ==
  UNION {Newest(rows \ skipped, Limit) :
           skipped \in Newest(rows, IF page = 1 THEN 0 ELSE (page - 1) * Limit + 1)}

(* ORDER BY ... DESC LIMIT OFFSET.                                         *)
PageOf(rows, page) ==
  UNION {Newest(rows \ skipped, Limit) : skipped \in Newest(rows, (page - 1) * Limit)}
-----------------------------------------------------------------------------
QueryInit ==
  /\ job = [r \in Reqs |-> NoJob]
  /\ total = [r \in Reqs |-> 0] /\ items = [r \in Reqs |-> {}]
  /\ asked = [r \in Reqs |-> 0] /\ totalEvents = [r \in Reqs |-> "some"]
  /\ counted = [r \in Reqs |-> {}] /\ series = [r \in Reqs |-> [q \in Series |-> <<>>]]
  /\ troubled = {}
  /\ known = [r \in Reqs |-> [events |-> {}, alerts |-> {}]]
  /\ before = [r \in Reqs |-> {}]
  /\ missed = [r \in Reqs |-> {}]

Arrive(r, j) ==
  /\ Arrives(r)
  /\ Goto(r, IF j = Overview THEN "ask" ELSE "count")
  /\ job' = [job EXCEPT ![r] = j]
  /\ known' = [known EXCEPT ![r] = [events |-> Ids(events), alerts |-> Ids(alerts)]]
  /\ UNCHANGED <<gone, faults, total, items, overviewVars, troubled, before>>

(* A client that has read a page asks for the next one.                    *)
AskNextPage(r) ==
  /\ pc[r] = "done" /\ job[r] # Overview /\ job[r].page + 1 \in Pages
  /\ Goto(r, "count")
  /\ job' = [job EXCEPT ![r].page = @ + 1]
  /\ before' = [before EXCEPT ![r] = items[r]] /\ items' = [items EXCEPT ![r] = {}]
  /\ UNCHANGED <<gone, faults, total, overviewVars, troubled, known>>

InTrouble(r) == Fails(r) /\ troubled' = troubled \cup {r}
Untroubled(r) == Works(r) /\ UNCHANGED troubled

(* A change could count the rows without the filter.                       *)
CountAll(r) ==
  /\ pc[r] = "count" /\ Untroubled(r) /\ Goto(r, "select")
  /\ total' = [total EXCEPT ![r] = Cardinality(Table(job[r].list))]
  /\ UNCHANGED <<job, items, overviewVars, known, before>>

Count(r) ==
  /\ pc[r] = "count"
  /\ \/ /\ Untroubled(r) /\ Goto(r, "select")
        /\ total' = [total EXCEPT ![r] = Cardinality(Matching(job[r]))]
     \/ InTrouble(r) /\ Goto(r, "failed") /\ UNCHANGED total
  /\ UNCHANGED <<job, items, overviewVars, known, before>>

(* A change could answer an empty page with an error.                      *)
SelectNonempty(r) ==
  /\ pc[r] = "select" /\ Untroubled(r)
  /\ \E page \in PageOf(Matching(job[r]), job[r].page) :
       /\ items' = [items EXCEPT ![r] = Ids(page)]
       /\ Goto(r, IF page = {} THEN "failed" ELSE "done")
  /\ UNCHANGED <<job, total, overviewVars, known, before>>

(* One orphan in the page, and all of it is an error.  When the connection *)
(* breaks while rows are read the page ends there, as if it were complete: *)
(* rows.Err() is not asked.                                                *)
Select(r) ==
  /\ pc[r] = "select"
  /\ \/ /\ \E page \in PageOf(Matching(job[r]), job[r].page) :
             \E cut \in BOOLEAN :
               LET Read(n) == Newest(page, n)
                   Ends(rows) ==
                     IF \E row \in rows : Orphan(row, job[r].list)
                     THEN Goto(r, "failed") /\ UNCHANGED items
                     ELSE Goto(r, "done") /\ items' = [items EXCEPT ![r] = Ids(rows)]
               IN  IF cut THEN /\ InTrouble(r)
                               /\ \E n \in 0 .. Limit - 1 : \E rows \in Read(n) : Ends(rows)
                          ELSE Untroubled(r) /\ Ends(page)
     \/ InTrouble(r) /\ Goto(r, "failed") /\ UNCHANGED items
  /\ UNCHANGED <<job, total, overviewVars, known, before>>
-----------------------------------------------------------------------------
(* Everything is about the last days, to the second; the two series then   *)
(* show the last days of the calendar, by a label that does not say the    *)
(* year.                                                                   *)
InWindow(row, t) == row.at + Days * DayLength > t
Day(t) == t \div DayLength
Label(day) == day % (YearLength \div DayLength)

(* The rows that a question is about, and the group of a row.              *)
About(question) ==
  CASE question = "CriticalAlerts" -> {a \in alerts : a.severity \in {"CRITICAL", "HIGH"}}
    [] question = "mitreTechniques" -> {a \in alerts : a.technique # Null}
    [] question = "AuthFailures" -> {e \in events : e.about = "failure"}
    [] question = "AuthSuccesses" -> {e \in events : e.about = "success"}
    [] OTHER -> events
Group(question, row) == IF question = "topAgents" THEN row.agent ELSE row.technique

Known(r, question) ==
  LET list == IF question \in {"CriticalAlerts", "mitreTechniques"} THEN "alerts" ELSE "events"
  IN  {row \in About(question) : row.id \in known[r][list]}

(* GROUP BY ... ORDER BY cnt DESC LIMIT: the largest groups; of groups of  *)
(* the same size, any may be among them.                                   *)
Members(question, rows, g) == {row \in rows : Group(question, row) = g}
Largest(question, rows) ==
  LET groups == {Group(question, row) : row \in rows}
      size == IF Top[question] < Cardinality(groups) THEN Top[question] ELSE Cardinality(groups)
      Size(g) == Cardinality(Ids(Members(question, rows, g)))
  IN  {top \in kSubset(size, groups) : \A g \in top, h \in groups \ top : Size(g) >= Size(h)}

(* The rows that a question may return, or count.                          *)
Answers(question) ==
  LET rows == {row \in About(question) : InWindow(row, now)} IN
  IF question \in DOMAIN Top
  THEN {UNION {Members(question, rows, g) : g \in top} : top \in Largest(question, rows)}
  ELSE {rows}

(* The known rows that are left out when those of ids are shown.           *)
Missing(r, question, ids) ==
  {row \in Known(r, question) : row.at <= now /\ row.id \notin ids}

(* A change could show made-up numbers whenever there is nothing to count. *)
AskNextAnyEmpty(r) ==
  LET question == Questions[asked[r] + 1] IN
  /\ pc[r] = "ask" /\ asked[r] < Len(Questions) /\ Untroubled(r)
  /\ question \notin Series
  /\ asked' = [asked EXCEPT ![r] = @ + 1]
  /\ totalEvents' = [totalEvents EXCEPT ![r] = IF {} \in Answers(question) THEN "none" ELSE @]
  /\ UNCHANGED <<pc, job, total, items, counted, series, known, before, missed>>

(* A question that is answered by one statement.  Errors are ignored: the  *)
(* answer is zero then, or what had been read of it, which is not          *)
(* followed.                                                               *)
AskNext(r) ==
  LET question == Questions[asked[r] + 1]
      Found(what) ==
        totalEvents' = IF asked[r] = 0 THEN [totalEvents EXCEPT ![r] = what] ELSE totalEvents
  IN  /\ pc[r] = "ask" /\ asked[r] < Len(Questions) /\ question \notin Series
      /\ asked' = [asked EXCEPT ![r] = @ + 1]
      /\ \/ /\ Untroubled(r)
            /\ \E answer \in Answers(question) :
                 /\ Found(IF answer = {} THEN "none" ELSE "some")
                 /\ missed' = [missed EXCEPT ![r] =
                      @ \cup ({question} \X Ids(Missing(r, question, Ids(answer))))]
         \/ InTrouble(r) /\ Found("error") /\ UNCHANGED missed
      /\ UNCHANGED <<pc, job, total, items, counted, series, known, before>>

(* The question of a series counts the rows of each day.                   *)
AskSeries(r) ==
  LET question == Questions[asked[r] + 1] IN
  /\ pc[r] = "ask" /\ asked[r] < Len(Questions) /\ question \in Series
  /\ Goto(r, "label")
  /\ \/ Untroubled(r) /\ \E answer \in Answers(question) :
                             counted' = [counted EXCEPT ![r] = Ids(answer)]
     \/ InTrouble(r) /\ counted' = [counted EXCEPT ![r] = {}]
  /\ UNCHANGED <<job, total, items, asked, totalEvents, series, known, before, missed>>

(* What was counted is shown below the label of its day, if it is there.   *)
Shown(r, days) ==
  {e \in events : e.id \in counted[r] /\ \E k \in 1 .. Len(days) :
                                           Label(Day(e.at)) = Label(days[k])}

(* A change could leave out today.                                         *)
LastTurnYesterday == 1

(* The loop ends with today, i = 0.                                        *)
LastTurn == 0

(* One turn of buildDailySeries, which reads the clock of its own: the     *)
(* label of the day that is i days ago.                                    *)
buildDailySeries(r) ==
  LET question == Questions[asked[r] + 1]
      i == Days - 1 - Len(series[r][question])
      days == Append(series[r][question], Day(now) - i)
  IN  /\ pc[r] = "label"
      /\ series' = [series EXCEPT ![r][question] = days]
      /\ IF i = LastTurn
           THEN /\ Goto(r, "ask")
                /\ asked' = [asked EXCEPT ![r] = @ + 1]
                /\ counted' = [counted EXCEPT ![r] = {}]
                /\ missed' = [missed EXCEPT ![r] =
                     @ \cup ({question} \X Ids(Missing(r, question, Ids(Shown(r, days)))))]
           ELSE UNCHANGED <<pc, asked, counted, missed>>
      /\ UNCHANGED <<gone, faults, troubled, job, total, items, totalEvents, known, before>>

(* Numbers that are made up are shown when no events were counted.         *)
Respond(r) ==
  /\ pc[r] = "ask" /\ asked[r] = Len(Questions)
  /\ Goto(r, "done")
  /\ UNCHANGED <<gone, faults, queryVars>>

Step(r) ==
  Count(r) \/ Select(r) \/ AskNext(r) \/ AskSeries(r) \/ buildDailySeries(r) \/ Respond(r)
-----------------------------------------------------------------------------
Init == StoreInit /\ RequestsInit /\ QueryInit

Elsewhere ==
  \/ \E r \in Reqs : Disconnect(r) /\ UNCHANGED queryVars
  \/ /\ Exit
     /\ troubled' = troubled \cup {r \in Reqs : Open(r)}
     /\ UNCHANGED <<job, total, items, overviewVars, known, before>>

Next ==
  \/ Write /\ UNCHANGED <<requestVars, queryVars>>
  \/ /\ \/ \E r \in Reqs, j \in Jobs : Arrive(r, j)
        \/ \E r \in Reqs : AskNextPage(r) \/ Step(r)
        \/ Elsewhere
     /\ UNCHANGED storeVars

Spec == Init /\ [][Next]_vars

-----------------------------------------------------------------------------
IdsAreUnique(table) == \A a, b \in table : a.id = b.id => a = b

(* The types, and what the schema says of rows: ids are unique, a source's *)
(* path and a rule's name too, and a reference is to a row that is there.  *)
TypeOK ==
  /\ now \in Nat /\ lastSource \in Nat /\ lastRule \in Nat
  /\ sources \subseteq [id : 1 .. lastSource, path : Paths, format : Formats]
  /\ rules \subseteq [id : 1 .. lastRule, name : Names, content : Contents,
                      enabled : BOOLEAN, version : Nat \ {0}]
  /\ \A e \in events : e.source \in Ids(sources) \cup {Null} /\ e.level \in Levels
  /\ \A a \in alerts :
       /\ a.rule \in Ids(rules) \cup {Null} /\ a.event \in Ids(events) \cup {Null}
       /\ a.status \in Statuses
  /\ \A table \in {sources, rules, events, alerts} : IdsAreUnique(table)
  /\ \A s, t \in sources : s.path = t.path => s = t
  /\ \A s, t \in rules : s.name = t.name => s = t
  /\ pc \in [Reqs -> {"new", "count", "select", "ask", "label"} \cup Ended]
  /\ job \in [Reqs -> List \cup {Overview, NoJob}]
  /\ gone \subseteq Reqs /\ troubled \subseteq Reqs /\ faults \in 0 .. MaxFault

(* Deleting a source or a rule erases no event and no alert, and changes   *)
(* nothing of them but their references to it (ON DELETE SET NULL).        *)
NothingIsErased ==
  [][/\ \A e \in events : \E f \in events' :
          f = e \/ (e.source \notin Ids(sources') /\ f = [e EXCEPT !.source = Null])
     /\ \A a \in alerts : \E b \in alerts' :
          /\ b.rule = a.rule \/ (b.rule = Null /\ a.rule \notin Ids(rules'))
          /\ b = [a EXCEPT !.rule = b.rule, !.status = b.status]]_vars

(* No update of a rule is lost unnoticed: two writers of a rule are never  *)
(* told the same version of it for different contents, a version is never  *)
(* behind one that somebody was told, and a rule is as the writer was told *)
(* who has its version (UpdateRule's version = version + 1).               *)
VersionsTellUpdatesApart ==
  /\ \A a, b \in told : a.id = b.id /\ a.version = b.version => a = b
  /\ \A a \in told, rule \in rules :
       a.id = rule.id => a.version < rule.version \/ a = rule

Listed(r) == pc[r] = "done" /\ job[r] # Overview /\ r \notin troubled
Filtered(r, what) == job[r].list = what /\ job[r].filter # Null

(* The total that a list says is there to be read: the page is as full as  *)
(* the total requires, although rows are added between the two statements, *)
(* unless it asks for a status, which may change (ListEvents, ListAlerts). *)
TotalIsKept ==
  \A r \in Reqs : Listed(r) /\ ~Filtered(r, "alerts") =>
    \/ Cardinality(items[r]) = Limit
    \/ (job[r].page - 1) * Limit + Cardinality(items[r]) >= total[r]

(* Who reads a page and then the next one misses no row that was there at  *)
(* first and belongs behind the first page, unless its time is also that   *)
(* of a row of the first page: the order of such rows is not determined    *)
(* (ORDER BY created_at DESC, ORDER BY timestamp DESC).                    *)
RowOf(r, id) == CHOOSE row \in Table(job[r].list) : row.id = id
PagesOmitOnlyTies ==
  \A r \in Reqs :
    Listed(r) /\ job[r].page = 2 /\ before[r] # {} /\ ~Filtered(r, "alerts") =>
    \A row \in Matching(job[r]) :
      (/\ row.id \in known[r][job[r].list] \ (before[r] \cup items[r])
       /\ \A id \in before[r] : RowOf(r, id).at > row.at)
      => /\ Cardinality(items[r]) = Limit
         /\ \A id \in items[r] : RowOf(r, id).at >= row.at

(* While the database works, a list is refused only after a row of it has  *)
(* lost its reference, that is after a source or a rule was deleted (Scan  *)
(* into int64).                                                            *)
ErrorOnlyAfterDeletion ==
  \A r \in Reqs :
    pc[r] = "failed" /\ r \notin gone \cup troubled =>
      \E row \in Table(job[r].list) : Orphan(row, job[r].list)

(* Numbers that are made up are shown for a system without events only, or *)
(* when the first of the questions failed, whatever becomes of the other   *)
(* questions (TotalEvents == 0).                                           *)
MockOnlyWithoutEvents ==
  \A r \in Reqs : pc[r] = "done" /\ job[r] = Overview /\ totalEvents[r] = "none" =>
    \A e \in events : e.id \in known[r].events => ~InWindow(e, now)

(* While the database works, whatever is in the window and was there when  *)
(* the overview was asked for is counted in all of its parts that are      *)
(* about it, but for three cases.  A series leaves out what is before the  *)
(* last days, or in the future, and a day that a midnight between two      *)
(* turns of its loop has passed over (buildDailySeries).  A LIMIT leaves   *)
(* out a group when so many others are not smaller: they have at least as  *)
(* many rows, counting all of theirs and of its own only those that were   *)
(* there at first and still are in the window.                             *)
Responded(r) == pc[r] = "done" /\ job[r] = Overview /\ r \notin troubled \cup gone
OfLastDays(row) == Day(row.at) + Days > Day(now)
PassedOver(day, days) == \E k \in 1 .. Len(days) - 1 : days[k] < day /\ day < days[k + 1]

Recent(r, question, g) ==
  {row \in Members(question, Known(r, question), g) : InWindow(row, now)}
NotSmaller(r, question, g) ==
  {h \in {Group(question, row) : row \in About(question)} \ {g} :
     Cardinality(Ids(Members(question, About(question), h)))
       >= Cardinality(Ids(Recent(r, question, g)))}

MayBeMissed(r, question, row) ==
  \/ question \in Series /\ (OfLastDays(row) => PassedOver(Day(row.at), series[r][question]))
  \/ /\ question \in DOMAIN Top
     /\ Cardinality(NotSmaller(r, question, Group(question, row))) >= Top[question]

RecentIsCounted ==
  \A r \in Reqs : Responded(r) =>
    \A i \in 1 .. Len(Questions) : \A row \in About(Questions[i]) :
      InWindow(row, now) /\ <<Questions[i], row.id>> \in missed[r]
      => MayBeMissed(r, Questions[i], row)

(* An event is in the future only if its line says so, or says no year and *)
(* was parsed in a later year than it says: then it is ahead by the rest   *)
(* of the year that it was parsed in, at most (Stamp, parseBSDTime).       *)
FutureIsExplained ==
  \A e \in events : e.at > now =>
    e.says >= e.at \/ (Year(e.says) < Year(now) /\ Year(e.at) = Year(now))
=============================================================================
