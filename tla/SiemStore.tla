----------------------------- MODULE SiemStore ------------------------------
(***************************************************************************)
(* The tables of the SIEM (database/init/002_siem_schema.sql), the         *)
(* statements that change them (services/api/handlers: rules.go, alerts.go *)
(* and logsources.go, log-parser/main.go), and the clock.  A statement     *)
(* takes effect as a whole.  One that fails or finds nothing changes       *)
(* nothing.                                                                *)
(***************************************************************************)
EXTENDS ParserPlugins, FiniteSets

CONSTANTS
  Paths, Names,       \* Paths of log sources, names of rules.
  SeedPath,           \* The path of the source that the schema inserts.
  Formats,            \* Formats of sources.
  Contents,           \* What else a rule says: condition, severity, action.
  Lines,              \* The lines that are logged, and by how much the time
                      \* they say is past, or to come, when they are parsed.
  AlertKinds,         \* Severities of alerts, and their technique or Null.
  Null,
  Start,              \* The time it is at first.
  MaxNow,             \* Bound: the latest time.
  MaxWrites           \* Bound: how many statements change a table.

ASSUME FormatAssumption ==
  "json" \in Formats /\ Formats \subseteq {"syslog", "nginx", "json", "auto"}
ASSUME SeedAssumption == SeedPath \in Paths
ASSUME NullAssumption == Null \notin Nat
ASSUME TimeAssumption ==
  /\ Start \in Nat /\ MaxNow \in Nat
  /\ \A line \in Lines : line.lag \in Int /\ line.lag <= Start

Statuses == {"open", "acknowledged", "resolved"}

VARIABLES
  now,          \* The time.
  sources,      \* The tables.  The ids of rows that are gone are not used
  rules,        \* again; nothing deletes events or alerts.
  events,
  alerts,
  lastSource,   \* The sequence of log_sources.id.
  lastRule,     \* The sequence of rules.id.
  told,         \* What clients were told of the rules they wrote.
  writes        \* How many statements there have been.

storeVars == <<now, sources, rules, events, alerts, lastSource, lastRule, told, writes>>

(* What a client sends to create or replace a rule; enabled may be left    *)
(* out, and is true then.                                                  *)
Body == [name : Names, content : Contents, enabled : {"true", "false", "absent"}]

Rule(id, body, version) ==
  [id |-> id, name |-> body.name, content |-> body.content,
   enabled |-> body.enabled # "false", version |-> version]

StoreInit ==
  /\ now = Start
  /\ sources = {[id |-> 1, path |-> SeedPath, format |-> "json"]} /\ lastSource = 1
  /\ rules = {} /\ lastRule = 0
  /\ events = {} /\ alerts = {}
  /\ told = {} /\ writes = 0

(* 201 or 200 with the row, which the client sees if the answer arrives.   *)
Tell(rule) == told' = told \cup {rule}

NameTaken(id, name) == \E r \in rules : r.id # id /\ r.name = name
-----------------------------------------------------------------------------
CreateLogSource(path, format) ==
  /\ \A s \in sources : s.path # path
  /\ lastSource' = lastSource + 1
  /\ sources' = sources \cup {[id |-> lastSource + 1, path |-> path, format |-> format]}
  /\ UNCHANGED <<now, rules, events, alerts, lastRule, told>>

(* Events lose their source: ON DELETE SET NULL.                           *)
DeleteLogSource(id) ==
  /\ \E s \in sources : s.id = id
  /\ sources' = {s \in sources : s.id # id}
  /\ events' = {[e EXCEPT !.source = IF @ = id THEN Null ELSE @] : e \in events}
  /\ UNCHANGED <<now, rules, alerts, lastSource, lastRule, told>>

CreateRule(body) ==
  LET rule == Rule(lastRule + 1, body, 1) IN
  /\ ~NameTaken(0, body.name)
  /\ lastRule' = lastRule + 1
  /\ rules' = rules \cup {rule}
  /\ Tell(rule)
  /\ UNCHANGED <<now, sources, events, alerts, lastSource>>

(* PUT replaces all of the row, and counts its version on.                 *)
UpdateRule(old, body) ==
  LET rule == Rule(old.id, body, old.version + 1) IN
  /\ ~NameTaken(old.id, body.name)
  /\ rules' = (rules \ {old}) \cup {rule}
  /\ Tell(rule)
  /\ UNCHANGED <<now, sources, events, alerts, lastSource, lastRule>>

(* Alerts do not prevent it: ON DELETE SET NULL.                           *)
DeleteRule(rule) ==
  /\ rules' = rules \ {rule}
  /\ alerts' = {[a EXCEPT !.rule = IF @ = rule.id THEN Null ELSE @] : a \in alerts}
  /\ UNCHANGED <<now, sources, events, lastSource, lastRule, told>>

(* Any status may follow any; the row is updated even when the handler     *)
(* then cannot scan it and answers with an error.                          *)
UpdateAlertStatus(alert, status) ==
  /\ alerts' = (alerts \ {alert}) \cup {[alert EXCEPT !.status = status]}
  /\ UNCHANGED <<now, sources, rules, events, lastSource, lastRule, told>>
-----------------------------------------------------------------------------
(* The line that is parsed now, and the time it says.                      *)
Logged(line) ==
  [f \in DOMAIN line \cup {"says"} |-> IF f = "says" THEN now - line.lag ELSE line[f]]

(* The log parser inserts the event of a line of a source.                 *)
InsertEvent(source, line) ==
  LET parsed == Parsed(Logged(line), source.format, now)
  IN  /\ events' = events \cup
           {[id |-> Cardinality(events) + 1, source |-> source.id, at |-> parsed.at,
             level |-> parsed.level, about |-> line.about, agent |-> line.agent,
             says |-> now - line.lag]}
      /\ UNCHANGED <<now, sources, rules, alerts, lastSource, lastRule, told>>

(* The rule engine, which is not in the repository, raises an alert.       *)
RaiseAlert(rule, event, kind) ==
  /\ alerts' = alerts \cup
       {[id |-> Cardinality(alerts) + 1, rule |-> rule.id, event |-> event.id, at |-> now,
         severity |-> kind.severity, technique |-> kind.technique, status |-> "open"]}
  /\ UNCHANGED <<now, sources, rules, events, lastSource, lastRule, told>>

Tick ==
  /\ now < MaxNow
  /\ now' = now + 1
  /\ UNCHANGED <<sources, rules, events, alerts, lastSource, lastRule, told, writes>>

Statement ==
  \/ \E path \in Paths, format \in Formats : CreateLogSource(path, format)
  \/ \E id \in 1 .. lastSource : DeleteLogSource(id)
  \/ \E body \in Body : CreateRule(body)
  \/ \E rule \in rules, body \in Body : UpdateRule(rule, body)
  \/ \E rule \in rules : DeleteRule(rule)
  \/ \E alert \in alerts, status \in Statuses : UpdateAlertStatus(alert, status)
  \/ \E source \in sources, line \in Lines : InsertEvent(source, line)
  \/ \E rule \in rules, event \in events, kind \in AlertKinds :
       RaiseAlert(rule, event, kind)

Write ==
  \/ writes < MaxWrites /\ writes' = writes + 1 /\ Statement
  \/ Tick
=============================================================================
