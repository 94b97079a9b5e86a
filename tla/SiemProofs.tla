----------------------------- MODULE SiemProofs -----------------------------
(***************************************************************************)
(* What holds of Siem for every number of requests, rows, pages and days.  *)
(***************************************************************************)
EXTENDS Siem, FiniteSetTheorems, TLAPS

-----------------------------------------------------------------------------
(* Events and alerts are numbered: their ids are those of a sequence, and  *)
(* no row is ever deleted.                                                 *)
Numbered(table) ==
  IsFiniteSet(table) /\ IdsAreUnique(table) /\ Ids(table) = 1 .. Cardinality(table)

(* There are as many ids as rows.                                          *)
LEMMA AsManyIds ==
  ASSUME NEW T, IsFiniteSet(T), IdsAreUnique(T)
  PROVE  IsFiniteSet(Ids(T)) /\ Cardinality(Ids(T)) = Cardinality(T)
  <1> DEFINE f == [t \in T |-> t.id]
  <1>1. f \in Bijection(T, Ids(T))
    <2>1. f \in Injection(T, Ids(T))
      BY DEF Injection, IsInjective, IdsAreUnique, Ids
    <2>2. f \in Surjection(T, Ids(T))
      BY DEF Surjection, Ids
    <2> QED BY <2>1, <2>2 DEF Bijection
  <1>2. ExistsBijection(T, Ids(T))
    BY <1>1 DEF ExistsBijection
  <1> QED BY <1>2, FS_Bijection

(* The next row has the next number.                                       *)
LEMMA NextNumber ==
  ASSUME NEW T, NEW x, Numbered(T), x.id = Cardinality(T) + 1
  PROVE  Numbered(T \cup {x}) /\ x.id \notin Ids(T) /\ Cardinality(T) \in Nat
  <1>1. Cardinality(T) \in Nat
    BY FS_CardinalityType DEF Numbered
  <1>2. x.id \notin Ids(T)
    BY <1>1 DEF Numbered
  <1>3. x \notin T
    BY <1>2 DEF Ids
  <1>4. IsFiniteSet(T \cup {x}) /\ Cardinality(T \cup {x}) = Cardinality(T) + 1
    BY <1>3, FS_AddElement DEF Numbered
  <1>5. IdsAreUnique(T \cup {x})
    BY <1>2 DEF Numbered, IdsAreUnique, Ids
  <1>6. Ids(T \cup {x}) = Ids(T) \cup {Cardinality(T) + 1}
    BY DEF Ids
  <1>7. 1 .. Cardinality(T) + 1 = (1 .. Cardinality(T)) \cup {Cardinality(T) + 1}
    BY <1>1
  <1> QED BY <1>1, <1>2, <1>4, <1>5, <1>6, <1>7 DEF Numbered

(* A change of the rows that keeps their ids keeps their number.           *)
LEMMA SameNumbers ==
  ASSUME NEW T, Numbered(T), NEW f, f = [t \in T |-> f[t]],
         \A t \in T : f[t].id = t.id
  PROVE  /\ Numbered({f[t] : t \in T}) /\ Ids({f[t] : t \in T}) = Ids(T)
         /\ Cardinality({f[t] : t \in T}) = Cardinality(T)
  <1> DEFINE U == {f[t] : t \in T}
  <1>1. f \in Surjection(T, U)
    BY DEF Surjection
  <1>2. IsFiniteSet(U)
    BY ONLY <1>1, FS_Surjection, Numbered(T) DEF Numbered
  <1>3. IdsAreUnique(U)
    BY DEF IdsAreUnique, Numbered
  <1>4. Ids(U) = Ids(T)
    <2>1. Ids(U) \subseteq Ids(T)
      BY DEF Ids
    <2>2. Ids(T) \subseteq Ids(U)
      BY DEF Ids
    <2> QED BY <2>1, <2>2
  <1>5. Cardinality(U) = Cardinality(T)
    BY <1>2, <1>3, <1>4, AsManyIds DEF Numbered
  <1> HIDE DEF U
  <1>6. Numbered(U)
    BY <1>2, <1>3, <1>4, <1>5 DEF Numbered
  <1> QED BY <1>4, <1>5, <1>6 DEF U
-----------------------------------------------------------------------------
(* Events and alerts have the columns of their tables.                     *)
IsEvent(e) ==
  e = [id |-> e.id, source |-> e.source, at |-> e.at, level |-> e.level,
       about |-> e.about, agent |-> e.agent, says |-> e.says]
IsAlert(a) ==
  a = [id |-> a.id, rule |-> a.rule, event |-> a.event, at |-> a.at,
       severity |-> a.severity, technique |-> a.technique, status |-> a.status]

SourcesInv ==
  /\ lastSource \in Nat
  /\ sources \subseteq [id : 1 .. lastSource, path : Paths, format : Formats]
  /\ IdsAreUnique(sources)
  /\ \A s, t \in sources : s.path = t.path => s = t

RulesInv ==
  /\ lastRule \in Nat
  /\ rules \subseteq [id : 1 .. lastRule, name : Names, content : Contents,
                      enabled : BOOLEAN, version : Nat \ {0}]
  /\ IdsAreUnique(rules)
  /\ \A s, t \in rules : s.name = t.name => s = t

EventsInv ==
  /\ Numbered(events)
  /\ \A e \in events :
       IsEvent(e) /\ e.source \in Ids(sources) \cup {Null} /\ e.level \in Levels

AlertsInv ==
  /\ Numbered(alerts)
  /\ \A a \in alerts :
       /\ IsAlert(a)
       /\ a.rule \in Ids(rules) \cup {Null} /\ a.event \in Ids(events) \cup {Null}
       /\ a.status \in Statuses

StoreInv == now \in Nat /\ SourcesInv /\ RulesInv /\ EventsInv /\ AlertsInv

LEMMA StoreInvInit == StoreInit => StoreInv
  <1> SUFFICES ASSUME StoreInit PROVE StoreInv
    OBVIOUS
  <1>1. Numbered({})
    <2>1. Ids({}) = {} /\ 1 .. 0 = {}
      BY DEF Ids
    <2> QED BY <2>1, FS_EmptySet DEF Numbered, IdsAreUnique
  <1>2. now \in Nat
    BY TimeAssumption DEF StoreInit
  <1>3. SourcesInv
    BY SeedAssumption, FormatAssumption DEF StoreInit, SourcesInv, IdsAreUnique
  <1>4. RulesInv
    BY DEF StoreInit, RulesInv, IdsAreUnique
  <1>5. EventsInv /\ AlertsInv
    BY <1>1 DEF StoreInit, EventsInv, AlertsInv
  <1> QED BY <1>2, <1>3, <1>4, <1>5 DEF StoreInv

(* Whatever the line, the level of its event is one of the four.           *)
LEMMA LevelsAreLevels ==
  ASSUME NEW line, NEW format, NEW t
  PROVE  Parsed(line, format, t).level \in Levels
  <1>1. \A w : NormalizeLevel(w) \in Levels
    BY DEF NormalizeLevel, Levels
  <1>2. \A s : mapHTTPStatusToLevel(s) \in Levels
    BY DEF mapHTTPStatusToLevel, Levels
  <1>3. \A s : mapSeverityToLevel(s) \in Levels
    BY DEF mapSeverityToLevel, Levels
  <1>4. "INFO" \in Levels
    BY DEF Levels
  <1>5. ParseJSON(line, t).level \in Levels
    BY <1>1, <1>4 DEF ParseJSON
  <1>6. ParseNginx(line, t).level \in Levels
    BY <1>2 DEF ParseNginx
  <1>7. ParseSyslog(line, t).level \in Levels
    BY <1>3, <1>4 DEF ParseSyslog
  <1> QED BY <1>4, <1>5, <1>6, <1>7 DEF Parsed
-----------------------------------------------------------------------------
(* The statements, one by one, keep what the schema says of the tables,    *)
(* erase no event and no alert, and keep what clients were told of rules.  *)
SameSources == UNCHANGED <<sources, lastSource>>
SameRules == UNCHANGED <<rules, lastRule, told>>

(* The row of an event or alert may lose a reference to a row that is not  *)
(* there any more.                                                         *)
EventKept(e, f) == f = e \/ (e.source \notin Ids(sources') /\ f = [e EXCEPT !.source = Null])
AlertKept(a, b) ==
  /\ b.rule = a.rule \/ (b.rule = Null /\ a.rule \notin Ids(rules'))
  /\ b = [a EXCEPT !.rule = b.rule, !.status = b.status]
Kept ==
  /\ \A e \in events : \E f \in events' : EventKept(e, f)
  /\ \A a \in alerts : \E b \in alerts' : AlertKept(a, b)

LEMMA EventsStay ==
  ASSUME events \subseteq events'
  PROVE  \A e \in events : \E f \in events' : EventKept(e, f)
  BY DEF EventKept

LEMMA AlertsStay ==
  ASSUME alerts \subseteq alerts', \A a \in alerts : IsAlert(a)
  PROVE  \A a \in alerts : \E b \in alerts' : AlertKept(a, b)
  <1> SUFFICES ASSUME NEW a \in alerts PROVE AlertKept(a, a)
    OBVIOUS
  <1>1. PICK i, r, e, t, v, q, s :
          a = [id |-> i, rule |-> r, event |-> e, at |-> t, severity |-> v,
               technique |-> q, status |-> s]
    BY DEF IsAlert
  <1>2. [a EXCEPT !.rule = a.rule, !.status = a.status] = a
    BY <1>1
  <1> QED BY <1>2 DEF AlertKept

(* A table that does not change is as it was, if no row it refers to is    *)
(* gone.                                                                   *)
LEMMA SourcesSame == ASSUME SourcesInv, UNCHANGED <<sources, lastSource>> PROVE SourcesInv'
  BY DEF SourcesInv, IdsAreUnique

LEMMA RulesSame == ASSUME RulesInv, UNCHANGED <<rules, lastRule>> PROVE RulesInv'
  BY DEF RulesInv, IdsAreUnique

LEMMA EventsSame ==
  ASSUME EventsInv, UNCHANGED events, Ids(sources) \subseteq Ids(sources')
  PROVE  EventsInv' /\ Ids(events') = Ids(events)
  BY DEF EventsInv, Numbered, IdsAreUnique, Ids, IsEvent

LEMMA AlertsSame ==
  ASSUME AlertsInv, UNCHANGED alerts,
         Ids(rules) \subseteq Ids(rules'), Ids(events) \subseteq Ids(events')
  PROVE  AlertsInv'
  <1>1. Numbered(alerts')
    BY DEF AlertsInv, Numbered, IdsAreUnique, Ids
  <1>2. ASSUME NEW a \in alerts'
        PROVE  /\ IsAlert(a)
               /\ a.rule \in Ids(rules') \cup {Null} /\ a.event \in Ids(events') \cup {Null}
               /\ a.status \in Statuses
    BY <1>2 DEF AlertsInv
  <1> QED
    BY <1>1, <1>2 DEF AlertsInv, Numbered, IdsAreUnique, Ids, IsAlert

LEMMA CreateLogSourceKeeps ==
  ASSUME StoreInv, NEW path \in Paths, NEW format \in Formats, CreateLogSource(path, format)
  PROVE  StoreInv' /\ Kept
  <1> DEFINE new == [id |-> lastSource + 1, path |-> path, format |-> format]
  <1>1. /\ lastSource' = lastSource + 1 /\ sources' = sources \cup {new}
        /\ \A s \in sources : s.path # path
        /\ UNCHANGED <<now, rules, events, alerts, lastRule>>
    BY DEF CreateLogSource
  <1>2. SourcesInv'
    <2>1. lastSource \in Nat /\ \A s \in sources : s.id \in 1 .. lastSource
      BY DEF StoreInv, SourcesInv
    <2>2. sources' \subseteq [id : 1 .. lastSource', path : Paths, format : Formats]
      BY <1>1, <2>1 DEF StoreInv, SourcesInv
    <2>3. IdsAreUnique(sources')
      BY <1>1, <2>1 DEF StoreInv, SourcesInv, IdsAreUnique
    <2>4. \A s, t \in sources' : s.path = t.path => s = t
      BY <1>1 DEF StoreInv, SourcesInv
    <2> QED BY <1>1, <2>1, <2>2, <2>3, <2>4 DEF SourcesInv
  <1>3. Ids(sources) \subseteq Ids(sources')
    BY <1>1 DEF Ids
  <1>4. RulesInv' /\ Ids(rules') = Ids(rules)
    BY <1>1, RulesSame DEF StoreInv, Ids
  <1>5. EventsInv' /\ AlertsInv'
    BY <1>1, <1>3, <1>4, EventsSame, AlertsSame DEF StoreInv
  <1>6. Kept
    BY <1>1, EventsStay, AlertsStay DEF StoreInv, AlertsInv, Kept
  <1> QED BY <1>1, <1>2, <1>4, <1>5, <1>6 DEF StoreInv

LEMMA DeleteLogSourceKeeps ==
  ASSUME StoreInv, NEW id \in 1 .. lastSource, DeleteLogSource(id)
  PROVE  StoreInv' /\ Kept /\ Ids(events') = Ids(events)
  <1> DEFINE f == [e \in events |-> [e EXCEPT !.source = IF @ = id THEN Null ELSE @]]
  <1>1. /\ sources' = {s \in sources : s.id # id}
        /\ events' = {f[e] : e \in events}
        /\ UNCHANGED <<now, rules, alerts, lastSource, lastRule>>
    BY DEF DeleteLogSource
  <1>2. \A e \in events :
          /\ IsEvent(f[e]) /\ f[e].id = e.id /\ f[e].level = e.level
          /\ f[e].source = IF e.source = id THEN Null ELSE e.source
    BY DEF StoreInv, EventsInv, IsEvent
  <1>3. SourcesInv'
    BY <1>1 DEF StoreInv, SourcesInv, IdsAreUnique
  <1>4. Ids(sources') = Ids(sources) \ {id}
    BY <1>1 DEF Ids
  <1>5. Numbered(events') /\ Ids(events') = Ids(events)
    <2>1. f = [e \in events |-> f[e]] /\ \A e \in events : f[e].id = e.id
      BY <1>2
    <2> HIDE DEF f
    <2> QED BY <1>1, <2>1, SameNumbers DEF StoreInv, EventsInv
  <1>6. \A e \in events :
          IsEvent(f[e]) /\ f[e].source \in Ids(sources') \cup {Null} /\ f[e].level \in Levels
    BY <1>2, <1>4 DEF StoreInv, EventsInv
  <1>7. EventsInv'
    <2> HIDE DEF f
    <2>1. \A x \in events' :
            IsEvent(x) /\ x.source \in Ids(sources') \cup {Null} /\ x.level \in Levels
      BY <1>1, <1>6
    <2> QED BY <1>5, <2>1 DEF EventsInv, Numbered, IdsAreUnique, Ids, IsEvent
  <1>8. RulesInv' /\ Ids(rules') = Ids(rules)
    BY <1>1, RulesSame DEF StoreInv, Ids
  <1>9. AlertsInv'
    BY <1>1, <1>5, <1>8, AlertsSame DEF StoreInv
  <1>10. Kept
    <2>1. \A e \in events : f[e] \in events' /\ EventKept(e, f[e])
      <3> SUFFICES ASSUME NEW e \in events PROVE EventKept(e, f[e])
        BY <1>1
      <3>1. CASE e.source = id
        BY <3>1, <1>4 DEF EventKept
      <3>2. CASE e.source # id
        BY <3>2 DEF EventKept, StoreInv, EventsInv, IsEvent
      <3> QED BY <3>1, <3>2
    <2>2. \A a \in alerts : \E b \in alerts' : AlertKept(a, b)
      BY <1>1, AlertsStay DEF StoreInv, AlertsInv
    <2> QED BY <2>1, <2>2 DEF Kept
  <1> QED BY <1>1, <1>3, <1>5, <1>7, <1>8, <1>9, <1>10 DEF StoreInv

(* A rule that is new, or takes the place of the one with its id.          *)
LEMMA RuleWritten ==
  ASSUME RulesInv, NEW body \in Body, NEW id, NEW version \in Nat \ {0},
         lastRule' \in Nat, lastRule <= lastRule', id \in 1 .. lastRule',
         ~NameTaken(id, body.name),
         NEW old, old \subseteq rules, {r \in rules : r.id = id} \subseteq old,
         rules' = (rules \ old) \cup {Rule(id, body, version)}
  PROVE  RulesInv'
  <1> DEFINE new == Rule(id, body, version)
  <1>1. new \in [id : 1 .. lastRule', name : Names, content : Contents,
                 enabled : BOOLEAN, version : Nat \ {0}]
    BY DEF Rule, Body
  <1>2. new.id = id /\ new.name = body.name
    BY DEF Rule
  <1> HIDE DEF new
  <1>3. \A r \in rules \ old : r.id # id
    OBVIOUS
  <1>4. \A r \in rules \ old : r.name # body.name
    BY <1>3 DEF NameTaken
  <1>5. rules' = (rules \ old) \cup {new}
    BY DEF new
  <1>6. 1 .. lastRule \subseteq 1 .. lastRule'
    BY DEF RulesInv
  <1>7. rules' \subseteq [id : 1 .. lastRule', name : Names, content : Contents,
                          enabled : BOOLEAN, version : Nat \ {0}]
    BY <1>1, <1>5, <1>6 DEF RulesInv
  <1>8. IdsAreUnique(rules')
    BY <1>2, <1>3, <1>5 DEF RulesInv, IdsAreUnique
  <1>9. \A s, t \in rules' : s.name = t.name => s = t
    BY <1>2, <1>4, <1>5 DEF RulesInv
  <1> QED BY <1>7, <1>8, <1>9 DEF RulesInv

LEMMA CreateRuleKeeps ==
  ASSUME StoreInv, NEW body \in Body, CreateRule(body)
  PROVE  StoreInv' /\ Kept
  <1> DEFINE new == Rule(lastRule + 1, body, 1)
  <1>1. /\ ~NameTaken(0, body.name) /\ lastRule' = lastRule + 1
        /\ rules' = rules \cup {new}
        /\ UNCHANGED <<now, sources, events, alerts, lastSource>>
    BY DEF CreateRule
  <1>2. lastRule \in Nat /\ \A r \in rules : r.id \in 1 .. lastRule
    BY DEF StoreInv, RulesInv
  <1>3. RulesInv'
    <2>1. ~NameTaken(lastRule + 1, body.name)
      BY <1>1, <1>2 DEF NameTaken
    <2>2. {r \in rules : r.id = lastRule + 1} \subseteq {}
      BY <1>2
    <2>3. rules' = (rules \ {}) \cup {new}
      BY <1>1
    <2>4. lastRule' \in Nat /\ lastRule <= lastRule' /\ lastRule + 1 \in 1 .. lastRule'
      BY <1>1, <1>2
    <2>5. 1 \in Nat \ {0} /\ {} \subseteq rules
      OBVIOUS
    <2> QED BY <2>1, <2>2, <2>3, <2>4, <2>5, RuleWritten DEF StoreInv
  <1>4. Ids(rules) \subseteq Ids(rules')
    BY <1>1 DEF Ids
  <1>5. SourcesInv' /\ EventsInv' /\ Ids(events') = Ids(events)
    BY <1>1, SourcesSame, EventsSame DEF StoreInv, Ids
  <1>6. AlertsInv'
    BY <1>1, <1>4, <1>5, AlertsSame DEF StoreInv
  <1>7. Kept
    BY <1>1, EventsStay, AlertsStay DEF StoreInv, AlertsInv, Kept
  <1> QED BY <1>1, <1>3, <1>5, <1>6, <1>7 DEF StoreInv

LEMMA UpdateRuleKeeps ==
  ASSUME StoreInv, NEW old \in rules, NEW body \in Body, UpdateRule(old, body)
  PROVE  StoreInv' /\ Kept
  <1> DEFINE new == Rule(old.id, body, old.version + 1)
  <1>1. /\ ~NameTaken(old.id, body.name)
        /\ rules' = (rules \ {old}) \cup {new}
        /\ UNCHANGED <<now, sources, events, alerts, lastSource, lastRule>>
    BY DEF UpdateRule
  <1>2. old.id \in 1 .. lastRule /\ old.version \in Nat \ {0} /\ lastRule \in Nat
    BY DEF StoreInv, RulesInv
  <1>3. RulesInv'
    <2>1. {r \in rules : r.id = old.id} \subseteq {old}
      BY DEF StoreInv, RulesInv, IdsAreUnique
    <2>2. lastRule' \in Nat /\ lastRule <= lastRule' /\ old.id \in 1 .. lastRule'
      BY <1>1, <1>2
    <2>3. old.version + 1 \in Nat \ {0} /\ {old} \subseteq rules
      BY <1>2
    <2> HIDE DEF new
    <2>4. RulesInv
      BY DEF StoreInv
    <2> QED BY <1>1, <2>1, <2>2, <2>3, <2>4, RuleWritten, ZenonT(60) DEF new
  <1>4. Ids(rules) \subseteq Ids(rules')
    <2>1. new.id = old.id /\ new \in rules'
      BY <1>1 DEF Rule
    <2> HIDE DEF new
    <2>2. \A r \in rules : r = old \/ r \in rules'
      BY <1>1
    <2> QED BY <2>1, <2>2 DEF Ids
  <1>5. SourcesInv' /\ EventsInv' /\ Ids(events') = Ids(events)
    BY <1>1, SourcesSame, EventsSame DEF StoreInv, Ids
  <1>6. AlertsInv'
    BY <1>1, <1>4, <1>5, AlertsSame DEF StoreInv
  <1>7. Kept
    BY <1>1, EventsStay, AlertsStay DEF StoreInv, AlertsInv, Kept
  <1> QED BY <1>1, <1>3, <1>5, <1>6, <1>7 DEF StoreInv

LEMMA DeleteRuleKeeps ==
  ASSUME StoreInv, NEW rule \in rules, DeleteRule(rule)
  PROVE  StoreInv' /\ Kept /\ Ids(alerts') = Ids(alerts)
  <1> DEFINE f == [a \in alerts |-> [a EXCEPT !.rule = IF @ = rule.id THEN Null ELSE @]]
  <1>1. /\ rules' = rules \ {rule}
        /\ alerts' = {f[a] : a \in alerts}
        /\ UNCHANGED <<now, sources, events, lastSource, lastRule>>
    BY DEF DeleteRule
  <1>2. \A a \in alerts :
          /\ IsAlert(f[a]) /\ f[a].id = a.id /\ f[a].event = a.event /\ f[a].status = a.status
          /\ f[a].rule = IF a.rule = rule.id THEN Null ELSE a.rule
    BY DEF StoreInv, AlertsInv, IsAlert
  <1>3. RulesInv'
    BY <1>1 DEF StoreInv, RulesInv, IdsAreUnique
  <1>4. Ids(rules') = Ids(rules) \ {rule.id}
    BY <1>1 DEF Ids, StoreInv, RulesInv, IdsAreUnique
  <1>5. SourcesInv' /\ EventsInv' /\ Ids(events') = Ids(events)
    BY <1>1, SourcesSame, EventsSame DEF StoreInv, Ids
  <1>6. Numbered(alerts') /\ Ids(alerts') = Ids(alerts)
    <2>1. f = [a \in alerts |-> f[a]] /\ \A a \in alerts : f[a].id = a.id
      BY <1>2
    <2> HIDE DEF f
    <2> QED BY <1>1, <2>1, SameNumbers DEF StoreInv, AlertsInv
  <1>7. \A a \in alerts :
          /\ IsAlert(f[a])
          /\ f[a].rule \in Ids(rules') \cup {Null} /\ f[a].event \in Ids(events') \cup {Null}
          /\ f[a].status \in Statuses
    BY <1>2, <1>4, <1>5 DEF StoreInv, AlertsInv
  <1>8. AlertsInv'
    <2> HIDE DEF f
    <2>1. \A x \in alerts' :
            /\ IsAlert(x)
            /\ x.rule \in Ids(rules') \cup {Null} /\ x.event \in Ids(events') \cup {Null}
            /\ x.status \in Statuses
      BY <1>1, <1>7
    <2> QED BY <1>6, <2>1 DEF AlertsInv, Numbered, IdsAreUnique, Ids, IsAlert
  <1>9. Kept
    <2>1. ASSUME NEW a \in alerts PROVE f[a] \in alerts' /\ AlertKept(a, f[a])
      <3>1. f[a] \in alerts'
        BY <1>1
      <3>2. f[a].rule = a.rule \/ (f[a].rule = Null /\ a.rule \notin Ids(rules'))
        BY <1>2, <1>4
      <3>3. PICK i, r, e, t, v, q, s :
              a = [id |-> i, rule |-> r, event |-> e, at |-> t, severity |-> v,
                   technique |-> q, status |-> s]
        BY DEF StoreInv, AlertsInv, IsAlert
      <3>4. f[a] = [a EXCEPT !.rule = f[a].rule, !.status = f[a].status]
        BY <3>3
      <3> QED BY <3>1, <3>2, <3>4 DEF AlertKept
    <2>2. \A e \in events : \E f_1 \in events' : EventKept(e, f_1)
      BY <1>1, EventsStay
    <2> HIDE DEF f
    <2> QED BY <2>1, <2>2 DEF Kept
  <1> QED BY <1>1, <1>3, <1>5, <1>6, <1>8, <1>9 DEF StoreInv

LEMMA StatusOnly ==
  ASSUME NEW a, IsAlert(a), NEW status, NEW b, b = a \/ b = [a EXCEPT !.status = status]
  PROVE  /\ IsAlert(b) /\ b.id = a.id /\ b.event = a.event /\ b.rule = a.rule
         /\ b.status \in {a.status, status}
         /\ b = [a EXCEPT !.rule = b.rule, !.status = b.status]
  <1>1. PICK i, r, e, t, v, q, s :
          a = [id |-> i, rule |-> r, event |-> e, at |-> t, severity |-> v,
               technique |-> q, status |-> s]
    BY DEF IsAlert
  <1>2. PICK z \in {s, status} :
          b = [id |-> i, rule |-> r, event |-> e, at |-> t, severity |-> v,
               technique |-> q, status |-> z]
    BY <1>1
  <1>3. IsAlert(b)
    BY <1>2 DEF IsAlert
  <1> QED BY <1>1, <1>2, <1>3

LEMMA UpdateAlertStatusKeeps ==
  ASSUME StoreInv, NEW alert \in alerts, NEW status \in Statuses,
         UpdateAlertStatus(alert, status)
  PROVE  StoreInv' /\ Kept /\ Ids(alerts') = Ids(alerts)
  <1> DEFINE f == [a \in alerts |-> IF a = alert THEN [alert EXCEPT !.status = status] ELSE a]
  <1>1. /\ alerts' = {f[a] : a \in alerts}
        /\ UNCHANGED <<now, sources, rules, events, lastSource, lastRule>>
    <2>1. alerts' = (alerts \ {alert}) \cup {[alert EXCEPT !.status = status]}
      BY DEF UpdateAlertStatus
    <2>2. f[alert] = [alert EXCEPT !.status = status] /\ \A a \in alerts \ {alert} : f[a] = a
      OBVIOUS
    <2> HIDE DEF f
    <2>3. alerts' = {f[a] : a \in alerts}
      BY <2>1, <2>2
    <2> QED BY <2>3 DEF UpdateAlertStatus, f
  <1>2. ASSUME NEW a \in alerts
        PROVE  /\ IsAlert(f[a]) /\ f[a].id = a.id /\ f[a].event = a.event
               /\ f[a].rule = a.rule /\ f[a].status \in Statuses
               /\ f[a] = [a EXCEPT !.rule = f[a].rule, !.status = f[a].status]
    <2>1. IsAlert(a) /\ a.status \in Statuses
      BY DEF StoreInv, AlertsInv
    <2>2. f[a] = a \/ f[a] = [a EXCEPT !.status = status]
      OBVIOUS
    <2>3. ASSUME NEW b, b = a \/ b = [a EXCEPT !.status = status]
          PROVE  /\ IsAlert(b) /\ b.id = a.id /\ b.event = a.event
                 /\ b.rule = a.rule /\ b.status \in Statuses
                 /\ b = [a EXCEPT !.rule = b.rule, !.status = b.status]
      <3>1. status \in Statuses
        OBVIOUS
      <3>2. /\ IsAlert(b) /\ b.id = a.id /\ b.event = a.event /\ b.rule = a.rule
            /\ b.status \in {a.status, status}
            /\ b = [a EXCEPT !.rule = b.rule, !.status = b.status]
        BY ONLY <2>1, <2>3, StatusOnly
      <3> QED BY <2>1, <3>1, <3>2
    <2> QED BY ONLY <2>2, <2>3
  <1>3. SourcesInv' /\ EventsInv' /\ Ids(events') = Ids(events)
    BY <1>1, SourcesSame, EventsSame DEF StoreInv, Ids
  <1>4. RulesInv' /\ Ids(rules') = Ids(rules)
    BY <1>1, RulesSame DEF StoreInv, Ids
  <1>5. f = [a \in alerts |-> f[a]] /\ \A a \in alerts : f[a].id = a.id
    BY <1>2
  <1> HIDE DEF f
  <1>6. Numbered(alerts') /\ Ids(alerts') = Ids(alerts)
    BY <1>1, <1>5, SameNumbers DEF StoreInv, AlertsInv
  <1>7. AlertsInv'
    <2>1. \A a \in alerts :
            a.rule \in Ids(rules') \cup {Null} /\ a.event \in Ids(events') \cup {Null}
      BY <1>3, <1>4 DEF StoreInv, AlertsInv
    <2>2. ASSUME NEW x \in alerts'
          PROVE  /\ IsAlert(x)
                 /\ x.rule \in Ids(rules') \cup {Null} /\ x.event \in Ids(events') \cup {Null}
                 /\ x.status \in Statuses
      <3>1. PICK a \in alerts : x = f[a]
        BY <1>1
      <3>2. /\ IsAlert(f[a]) /\ f[a].event = a.event /\ f[a].rule = a.rule
            /\ f[a].status \in Statuses
        BY <1>2
      <3> QED BY <2>1, <3>1, <3>2
    <2> QED BY <1>6, <2>2 DEF AlertsInv, Numbered, IdsAreUnique, Ids, IsAlert
  <1>8. Kept
    <2>1. \A a \in alerts : f[a] \in alerts' /\ AlertKept(a, f[a])
      BY <1>1, <1>2 DEF AlertKept
    <2>2. \A e \in events : \E g \in events' : EventKept(e, g)
      BY <1>1, EventsStay
    <2> QED BY <2>1, <2>2 DEF Kept
  <1> QED BY <1>1, <1>3, <1>4, <1>6, <1>7, <1>8 DEF StoreInv

LEMMA InsertEventKeeps ==
  ASSUME StoreInv, NEW source \in sources, NEW line \in Lines, InsertEvent(source, line)
  PROVE  StoreInv' /\ Kept /\ events \subseteq events'
  <1>1. PICK at, level, about, agent, says :
          /\ level \in Levels
          /\ events' = events \cup {[id |-> Cardinality(events) + 1, source |-> source.id, at |-> at,
                                     level |-> level, about |-> about, agent |-> agent,
                                     says |-> says]}
          /\ UNCHANGED <<now, sources, rules, alerts, lastSource, lastRule>>
    BY LevelsAreLevels DEF InsertEvent
  <1> DEFINE e == [id |-> Cardinality(events) + 1, source |-> source.id, at |-> at,
                   level |-> level, about |-> about, agent |-> agent, says |-> says]
  <1>2. IsEvent(e) /\ e.id = Cardinality(events) + 1 /\ e.source = source.id /\ e.level = level
    BY DEF IsEvent
  <1> HIDE DEF e
  <1>3. events' = events \cup {e}
    BY <1>1 DEF e
  <1>4. Numbered(events')
    <2>1. Numbered(events \cup {e})
      BY <1>2, NextNumber DEF StoreInv, EventsInv
    <2> QED BY <1>3, <2>1 DEF Numbered, IdsAreUnique, Ids
  <1>5. SourcesInv' /\ RulesInv' /\ Ids(sources') = Ids(sources) /\ Ids(rules') = Ids(rules)
    BY <1>1, SourcesSame, RulesSame DEF StoreInv, Ids
  <1>6. \A x \in events' :
          IsEvent(x) /\ x.source \in Ids(sources') \cup {Null} /\ x.level \in Levels
    <2>1. source.id \in Ids(sources)
      BY DEF Ids
    <2> QED BY <1>1, <1>2, <1>3, <1>5, <2>1 DEF StoreInv, EventsInv
  <1>7. EventsInv'
    BY <1>4, <1>6 DEF EventsInv, Numbered, IdsAreUnique, Ids, IsEvent
  <1>8. Ids(events) \subseteq Ids(events')
    BY <1>3 DEF Ids
  <1>9. AlertsInv'
    BY <1>1, <1>5, <1>8, AlertsSame DEF StoreInv
  <1>10. Kept
    BY <1>1, <1>3, EventsStay, AlertsStay DEF StoreInv, AlertsInv, Kept
  <1> QED BY <1>1, <1>3, <1>5, <1>7, <1>9, <1>10 DEF StoreInv

LEMMA RaiseAlertKeeps ==
  ASSUME StoreInv, NEW rule \in rules, NEW event \in events, NEW kind \in AlertKinds,
         RaiseAlert(rule, event, kind)
  PROVE  StoreInv' /\ Kept /\ alerts \subseteq alerts'
  <1> DEFINE a == [id |-> Cardinality(alerts) + 1, rule |-> rule.id, event |-> event.id,
                   at |-> now, severity |-> kind.severity, technique |-> kind.technique,
                   status |-> "open"]
  <1>1. /\ alerts' = alerts \cup {a}
        /\ UNCHANGED <<now, sources, rules, events, lastSource, lastRule>>
    BY DEF RaiseAlert
  <1>2. /\ IsAlert(a) /\ a.id = Cardinality(alerts) + 1
        /\ a.rule = rule.id /\ a.event = event.id /\ a.status \in Statuses
    BY DEF IsAlert, Statuses
  <1> HIDE DEF a
  <1>3. Numbered(alerts')
    <2>1. Numbered(alerts \cup {a})
      BY <1>2, NextNumber DEF StoreInv, AlertsInv
    <2> QED BY <1>1, <2>1 DEF Numbered, IdsAreUnique, Ids
  <1>4. SourcesInv' /\ RulesInv' /\ Ids(sources') = Ids(sources) /\ Ids(rules') = Ids(rules)
    BY <1>1, SourcesSame, RulesSame DEF StoreInv, Ids
  <1>5. EventsInv' /\ Ids(events') = Ids(events)
    BY <1>1, <1>4, EventsSame DEF StoreInv
  <1>6. \A x \in alerts' :
          /\ IsAlert(x)
          /\ x.rule \in Ids(rules') \cup {Null} /\ x.event \in Ids(events') \cup {Null}
          /\ x.status \in Statuses
    <2>1. rule.id \in Ids(rules) /\ event.id \in Ids(events)
      BY DEF Ids
    <2> QED BY <1>1, <1>2, <1>4, <1>5, <2>1 DEF StoreInv, AlertsInv
  <1>7. AlertsInv'
    BY <1>3, <1>6 DEF AlertsInv, Numbered, IdsAreUnique, Ids, IsAlert
  <1>8. Kept
    BY <1>1, EventsStay, AlertsStay DEF StoreInv, AlertsInv, Kept
  <1> QED BY <1>1, <1>4, <1>5, <1>7, <1>8 DEF StoreInv

(* All that is done to the tables, and what only stands still.             *)
LEMMA StoreUnchanged ==
  ASSUME StoreInv, UNCHANGED <<sources, rules, events, alerts, lastSource, lastRule>>, now' \in Nat
  PROVE  StoreInv' /\ Kept
  <1>1. SourcesInv' /\ RulesInv' /\ Ids(rules') = Ids(rules)
    BY SourcesSame, RulesSame DEF StoreInv, Ids
  <1>2. EventsInv' /\ Ids(events') = Ids(events)
    BY EventsSame DEF StoreInv, Ids
  <1>3. AlertsInv'
    BY <1>1, <1>2, AlertsSame DEF StoreInv
  <1>4. Kept
    BY EventsStay, AlertsStay DEF StoreInv, AlertsInv, Kept
  <1> QED BY <1>1, <1>2, <1>3, <1>4 DEF StoreInv

LEMMA StoreInvWrite == ASSUME StoreInv, Write PROVE StoreInv' /\ Kept
  <1>1. CASE Statement
    BY <1>1, CreateLogSourceKeeps, DeleteLogSourceKeeps, CreateRuleKeeps, UpdateRuleKeeps,
       DeleteRuleKeeps, UpdateAlertStatusKeeps, InsertEventKeeps, RaiseAlertKeeps DEF Statement
  <1>2. CASE Tick
    <2>1. now' \in Nat
      BY <1>2 DEF Tick, StoreInv
    <2> QED BY <1>2, <2>1, StoreUnchanged DEF Tick
  <1> QED BY <1>1, <1>2 DEF Write
-----------------------------------------------------------------------------
(* The requests: which steps they take, and for which job.                 *)
Steps == {"new", "count", "select", "ask", "label"} \cup Ended

RequestsInv ==
  /\ pc \in [Reqs -> Steps]
  /\ job \in [Reqs -> List \cup {Overview, NoJob}]
  /\ gone \subseteq Reqs /\ troubled \subseteq Reqs /\ faults \in 0 .. MaxFault
  /\ \A r \in Reqs : pc[r] # "new" => job[r] # NoJob
  /\ \A r \in Reqs : pc[r] \in {"count", "select"} => job[r] \in List
  /\ \A r \in Reqs : pc[r] \in {"ask", "label"} => job[r] = Overview

TypeInv == StoreInv /\ RequestsInv

LEMMA TypeInvInit == Init => TypeInv
  <1> SUFFICES ASSUME Init PROVE TypeInv
    OBVIOUS
  <1>1. StoreInv
    BY StoreInvInit DEF Init
  <1>2. RequestsInv
    BY RequestAssumption DEF Init, RequestsInit, QueryInit, RequestsInv, Steps
  <1> QED BY <1>1, <1>2 DEF TypeInv

(* The step of a request, and what works or fails in it.                   *)
LEMMA GotoStep ==
  ASSUME RequestsInv, NEW r \in Reqs, NEW step \in Steps, Goto(r, step)
  PROVE  /\ pc' \in [Reqs -> Steps] /\ pc'[r] = step
         /\ \A q \in Reqs \ {r} : pc'[q] = pc[q]
  BY DEF RequestsInv, Goto

LEMMA WorksOrFails ==
  ASSUME RequestsInv, NEW r \in Reqs, Untroubled(r) \/ InTrouble(r)
  PROVE  gone' = gone /\ troubled' \subseteq Reqs /\ faults' \in 0 .. MaxFault
  <1>1. CASE Untroubled(r)
    BY <1>1 DEF Untroubled, Works, RequestsInv
  <1>2. CASE InTrouble(r)
    BY <1>2, RequestAssumption DEF InTrouble, Fails, RequestsInv
  <1> QED BY <1>1, <1>2

(* Nothing but pc changes of a job and its step.                           *)
LEMMA StepKeeps ==
  ASSUME RequestsInv, NEW r \in Reqs, NEW step \in Steps \ {"new"},
         UNCHANGED job, Goto(r, step),
         gone' = gone, troubled' \subseteq Reqs, faults' \in 0 .. MaxFault,
         job[r] # NoJob, step \in {"count", "select"} => job[r] \in List,
         step \in {"ask", "label"} => job[r] = Overview
  PROVE  RequestsInv'
  <1>1. /\ pc' \in [Reqs -> Steps] /\ pc'[r] = step
        /\ \A q \in Reqs \ {r} : pc'[q] = pc[q]
    BY GotoStep
  <1> QED BY <1>1 DEF RequestsInv

LEMMA ArriveKeeps ==
  ASSUME RequestsInv, NEW r \in Reqs, NEW j \in Jobs, Arrive(r, j)
  PROVE  RequestsInv'
  <1> DEFINE step == IF j = Overview THEN "ask" ELSE "count"
  <1>1. /\ Goto(r, step) /\ job' = [job EXCEPT ![r] = j]
        /\ UNCHANGED <<gone, faults, troubled>>
    BY DEF Arrive
  <1>2. step \in Steps
    BY DEF Steps
  <1>3. /\ pc' \in [Reqs -> Steps] /\ pc'[r] = step
        /\ \A q \in Reqs \ {r} : pc'[q] = pc[q]
    BY <1>1, <1>2, GotoStep
  <1>4. j \in List \cup {Overview} /\ j # NoJob
    BY JobAssumption
  <1>5. /\ job' \in [Reqs -> List \cup {Overview, NoJob}]
        /\ job'[r] = j /\ \A q \in Reqs \ {r} : job'[q] = job[q]
    BY <1>1, <1>4 DEF RequestsInv
  <1>6. j # Overview => j \in List
    BY <1>4
  <1> QED BY <1>1, <1>3, <1>4, <1>5, <1>6 DEF RequestsInv

LEMMA AskNextPageKeeps ==
  ASSUME RequestsInv, NEW r \in Reqs, AskNextPage(r)
  PROVE  RequestsInv'
  <1>1. /\ pc[r] = "done" /\ job[r] # Overview /\ job[r].page + 1 \in Pages
        /\ Goto(r, "count") /\ job' = [job EXCEPT ![r].page = job[r].page + 1]
        /\ UNCHANGED <<gone, faults, troubled>>
    BY DEF AskNextPage, RequestsInv
  <1>2. /\ pc' \in [Reqs -> Steps] /\ pc'[r] = "count"
        /\ \A q \in Reqs \ {r} : pc'[q] = pc[q]
    BY <1>1, GotoStep DEF Steps
  <1>3. job[r] \in List
    BY <1>1 DEF RequestsInv
  <1>4. [job[r] EXCEPT !.page = job[r].page + 1] \in List
    BY <1>1, <1>3 DEF List
  <1>5. /\ job' \in [Reqs -> List \cup {Overview, NoJob}]
        /\ job'[r] = [job[r] EXCEPT !.page = job[r].page + 1]
        /\ \A q \in Reqs \ {r} : job'[q] = job[q]
    BY <1>1, <1>4 DEF RequestsInv
  <1>6. job'[r] # NoJob
    BY <1>4, <1>5, JobAssumption
  <1> QED BY <1>1, <1>2, <1>4, <1>5, <1>6 DEF RequestsInv

LEMMA RequestStepKeeps ==
  ASSUME RequestsInv, NEW r \in Reqs, Step(r)
  PROVE  RequestsInv'
  <1>1. CASE Count(r)
    <2>1. PICK step \in {"select", "failed"} : Goto(r, step)
      BY <1>1 DEF Count
    <2>2. /\ UNCHANGED job /\ job[r] \in List /\ job[r] # NoJob
      BY <1>1 DEF Count, RequestsInv
    <2>3. gone' = gone /\ troubled' \subseteq Reqs /\ faults' \in 0 .. MaxFault
      BY <1>1, WorksOrFails DEF Count
    <2>4. step \in Steps \ {"new"}
      BY DEF Steps, Ended
    <2> QED BY <2>1, <2>2, <2>3, <2>4, StepKeeps
  <1>2. CASE Select(r)
    <2>1. (Untroubled(r) \/ InTrouble(r)) /\ \E step \in {"done", "failed"} : Goto(r, step)
      BY <1>2 DEF Select
    <2>2. PICK step \in {"done", "failed"} : Goto(r, step)
      BY <2>1
    <2>3. /\ UNCHANGED job /\ job[r] # NoJob
      BY <1>2 DEF Select, RequestsInv
    <2>4. gone' = gone /\ troubled' \subseteq Reqs /\ faults' \in 0 .. MaxFault
      BY <2>1, WorksOrFails
    <2>5. step \in Steps \ {"new"} /\ step \notin {"count", "select", "ask", "label"}
      BY DEF Steps, Ended
    <2> QED BY <2>2, <2>3, <2>4, <2>5, StepKeeps
  <1>3. CASE AskNext(r)
    <2>1. gone' = gone /\ troubled' \subseteq Reqs /\ faults' \in 0 .. MaxFault
      BY <1>3, WorksOrFails DEF AskNext
    <2> QED BY <1>3, <2>1 DEF AskNext, RequestsInv
  <1>4. CASE Respond(r)
    <2>1. /\ Goto(r, "done") /\ UNCHANGED <<job, gone, faults, troubled>> /\ job[r] # NoJob
      BY <1>4 DEF Respond, queryVars, RequestsInv
    <2>2. "done" \in Steps \ {"new"} /\ troubled' \subseteq Reqs /\ faults' \in 0 .. MaxFault
      BY <2>1 DEF Steps, Ended, RequestsInv
    <2> QED BY <2>1, <2>2, StepKeeps
  <1>5. CASE AskSeries(r)
    <2>1. gone' = gone /\ troubled' \subseteq Reqs /\ faults' \in 0 .. MaxFault
      BY <1>5, WorksOrFails DEF AskSeries
    <2>2. Goto(r, "label") /\ UNCHANGED job /\ job[r] = Overview /\ job[r] # NoJob
      BY <1>5 DEF AskSeries, RequestsInv
    <2>3. "label" \in Steps \ {"new"}
      BY DEF Steps, Ended
    <2> QED BY <2>1, <2>2, <2>3, StepKeeps
  <1>6. CASE buildDailySeries(r)
    <2>1. /\ UNCHANGED <<job, gone, faults, troubled>> /\ job[r] = Overview /\ job[r] # NoJob
          /\ Goto(r, "ask") \/ UNCHANGED pc
      BY <1>6 DEF buildDailySeries, RequestsInv
    <2>2. CASE UNCHANGED pc
      BY <2>1, <2>2 DEF RequestsInv
    <2>3. CASE Goto(r, "ask")
      <3>1. "ask" \in Steps \ {"new"} /\ troubled' \subseteq Reqs /\ faults' \in 0 .. MaxFault
        BY <2>1 DEF Steps, Ended, RequestsInv
      <3> QED BY <2>1, <2>3, <3>1, StepKeeps
    <2> QED BY <2>1, <2>2, <2>3
  <1> QED BY <1>1, <1>2, <1>3, <1>4, <1>5, <1>6 DEF Step

LEMMA ElsewhereKeeps ==
  ASSUME RequestsInv, Elsewhere
  PROVE  RequestsInv'
  <1>1. CASE \E r \in Reqs : Disconnect(r) /\ UNCHANGED queryVars
    BY <1>1 DEF Disconnect, queryVars, RequestsInv
  <1>2. CASE /\ Exit
             /\ troubled' = troubled \cup {r \in Reqs : Open(r)}
             /\ UNCHANGED <<job, total, items, overviewVars, known, before>>
    BY <1>2 DEF Exit, Open, RequestsInv, Steps, Ended
  <1> QED BY <1>1, <1>2 DEF Elsewhere

LEMMA RequestsInvNext ==
  ASSUME RequestsInv, [Next]_vars
  PROVE  RequestsInv'
  <1>1. CASE UNCHANGED <<requestVars, queryVars>>
    BY <1>1 DEF requestVars, queryVars, RequestsInv
  <1>2. CASE \E r \in Reqs, j \in Jobs : Arrive(r, j)
    BY <1>2, ArriveKeeps
  <1>3. CASE \E r \in Reqs : AskNextPage(r) \/ Step(r)
    BY <1>3, AskNextPageKeeps, RequestStepKeeps
  <1>4. CASE Elsewhere
    BY <1>4, ElsewhereKeeps
  <1> QED BY <1>1, <1>2, <1>3, <1>4 DEF Next, vars

LEMMA StoreInvNext ==
  ASSUME StoreInv, [Next]_vars
  PROVE  StoreInv' /\ Kept
  <1>1. CASE Write
    BY <1>1, StoreInvWrite
  <1>2. CASE UNCHANGED storeVars
    BY <1>2, StoreUnchanged DEF storeVars, StoreInv
  <1> QED BY <1>1, <1>2 DEF Next, vars

LEMMA TypeInvImplies == TypeInv => TypeOK
  <1> SUFFICES ASSUME TypeInv PROVE TypeOK
    OBVIOUS
  <1>1. \A table \in {sources, rules, events, alerts} : IdsAreUnique(table)
    BY DEF TypeInv, StoreInv, SourcesInv, RulesInv, EventsInv, AlertsInv, Numbered
  <1>2. /\ now \in Nat /\ lastSource \in Nat /\ lastRule \in Nat
        /\ sources \subseteq [id : 1 .. lastSource, path : Paths, format : Formats]
        /\ rules \subseteq [id : 1 .. lastRule, name : Names, content : Contents,
                            enabled : BOOLEAN, version : Nat \ {0}]
        /\ \A s, t \in sources : s.path = t.path => s = t
        /\ \A s, t \in rules : s.name = t.name => s = t
    BY DEF TypeInv, StoreInv, SourcesInv, RulesInv
  <1>3. /\ \A e \in events : e.source \in Ids(sources) \cup {Null} /\ e.level \in Levels
        /\ \A a \in alerts :
             /\ a.rule \in Ids(rules) \cup {Null} /\ a.event \in Ids(events) \cup {Null}
             /\ a.status \in Statuses
    BY DEF TypeInv, StoreInv, EventsInv, AlertsInv
  <1> QED BY <1>1, <1>2, <1>3 DEF TypeOK, TypeInv, RequestsInv, Steps

LEMMA TypeInvNext == TypeInv /\ [Next]_vars => TypeInv'
  BY StoreInvNext, RequestsInvNext DEF TypeInv

LEMMA TypeInvAlways == Spec => []TypeInv
  BY TypeInvInit, TypeInvNext, PTL DEF Spec

(* The tables are as the schema says, whatever is done to them and         *)
(* whenever it is done.                                                    *)
THEOREM TypeCorrect == Spec => []TypeOK
  BY TypeInvAlways, TypeInvImplies, PTL

(* No event and no alert is ever erased, nor changed but in its status and *)
(* in references to sources and rules that are gone.                       *)
THEOREM ErasesNothing == Spec => NothingIsErased
  <1>1. TypeInv /\ [Next]_vars =>
          [/\ \A e \in events : \E f \in events' :
                f = e \/ (e.source \notin Ids(sources') /\ f = [e EXCEPT !.source = Null])
           /\ \A a \in alerts : \E b \in alerts' :
                /\ b.rule = a.rule \/ (b.rule = Null /\ a.rule \notin Ids(rules'))
                /\ b = [a EXCEPT !.rule = b.rule, !.status = b.status]]_vars
    BY StoreInvNext DEF TypeInv, Kept, EventKept, AlertKept
  <1> QED BY <1>1, TypeInvAlways, PTL DEF Spec, NothingIsErased
-----------------------------------------------------------------------------
(* Versions.  What clients are told is of rules that have been there.      *)
ToldInv == \A a \in told : a.id \in 1 .. lastRule /\ a.version \in Nat
VersionsInv == ToldInv /\ VersionsTellUpdatesApart

(* A rule that is written is told with a version that nobody was told yet. *)
LEMMA TellKeeps ==
  ASSUME VersionsInv, RulesInv, RulesInv', lastRule <= lastRule', NEW rule,
         Tell(rule), rule \in rules', rules' \subseteq rules \cup {rule},
         \A a \in told : a.id = rule.id => a.version < rule.version
  PROVE  VersionsInv'
  <1>1. told' = told \cup {rule} /\ lastRule \in Nat /\ lastRule' \in Nat
    BY DEF Tell, RulesInv
  <1>2. rule.id \in 1 .. lastRule' /\ rule.version \in Nat
    BY DEF RulesInv
  <1>3. ToldInv'
    BY <1>1, <1>2 DEF VersionsInv, ToldInv
  <1>4. \A a, b \in told' : a.id = b.id /\ a.version = b.version => a = b
    <2> SUFFICES ASSUME NEW a \in told', NEW b \in told', a.id = b.id, a.version = b.version
                 PROVE  a = b
      OBVIOUS
    <2>1. CASE a \in told /\ b \in told
      BY <2>1 DEF VersionsInv, VersionsTellUpdatesApart
    <2>2. CASE a \in told /\ b = rule
      BY <1>2, <2>2 DEF VersionsInv, ToldInv
    <2>3. CASE b \in told /\ a = rule
      BY <1>2, <2>3 DEF VersionsInv, ToldInv
    <2> QED BY <1>1, <2>1, <2>2, <2>3
  <1>5. \A a \in told', r \in rules' : a.id = r.id => a.version < r.version \/ a = r
    <2> SUFFICES ASSUME NEW a \in told', NEW r \in rules', a.id = r.id
                 PROVE  a.version < r.version \/ a = r
      OBVIOUS
    <2>1. CASE a \in told /\ r \in rules
      BY <2>1 DEF VersionsInv, VersionsTellUpdatesApart
    <2>2. CASE a \in told /\ r = rule
      BY <2>2
    <2>3. CASE a = rule
      BY <2>3 DEF RulesInv, IdsAreUnique
    <2> QED BY <1>1, <2>1, <2>2, <2>3
  <1> QED BY <1>3, <1>4, <1>5 DEF VersionsInv, VersionsTellUpdatesApart

(* Nothing that is told of goes wrong when a rule is deleted, or when no   *)
(* rule is written.                                                        *)
LEMMA NothingTold ==
  ASSUME VersionsInv, told' = told, lastRule' = lastRule, rules' \subseteq rules
  PROVE  VersionsInv'
  BY DEF VersionsInv, ToldInv, VersionsTellUpdatesApart

LEMMA VersionsInvWrite ==
  ASSUME StoreInv, VersionsInv, Write
  PROVE  VersionsInv'
  <1>1. RulesInv /\ RulesInv'
    BY StoreInvWrite DEF StoreInv
  <1>2. ASSUME NEW body \in Body, CreateRule(body) PROVE VersionsInv'
    <2> DEFINE rule == Rule(lastRule + 1, body, 1)
    <2>1. Tell(rule) /\ rules' = rules \cup {rule} /\ lastRule' = lastRule + 1
      BY <1>2 DEF CreateRule
    <2>2. rule.id = lastRule + 1 /\ lastRule \in Nat
      BY <1>1 DEF Rule, RulesInv
    <2> HIDE DEF rule
    <2>3. \A a \in told : a.id # rule.id
      BY <2>2 DEF VersionsInv, ToldInv
    <2> QED BY <1>1, <2>1, <2>2, <2>3, TellKeeps
  <1>3. ASSUME NEW old \in rules, NEW body \in Body, UpdateRule(old, body) PROVE VersionsInv'
    <2> DEFINE rule == Rule(old.id, body, old.version + 1)
    <2>1. Tell(rule) /\ rules' = (rules \ {old}) \cup {rule} /\ lastRule' = lastRule
      BY <1>3 DEF UpdateRule
    <2>2. rule.id = old.id /\ rule.version = old.version + 1 /\ old.version \in Nat
          /\ lastRule \in Nat
      BY <1>1 DEF Rule, RulesInv
    <2> HIDE DEF rule
    <2>3. \A a \in told : a.id = old.id => a.version < old.version \/ a = old
      BY DEF VersionsInv, VersionsTellUpdatesApart
    <2>4. \A a \in told : a.id = rule.id => a.version < rule.version
      BY <2>2, <2>3 DEF VersionsInv, ToldInv
    <2> QED BY <1>1, <2>1, <2>2, <2>4, TellKeeps
  <1>4. CASE told' = told /\ lastRule' = lastRule /\ rules' \subseteq rules
    BY <1>4, NothingTold
  <1>5. \/ \E body \in Body : CreateRule(body)
        \/ \E old \in rules, body \in Body : UpdateRule(old, body)
        \/ told' = told /\ lastRule' = lastRule /\ rules' \subseteq rules
    <2>1. ASSUME Statement PROVE <1>5!1 \/ <1>5!2 \/ <1>5!3
      BY <2>1 DEF Statement, CreateLogSource, DeleteLogSource, DeleteRule, UpdateAlertStatus,
                  InsertEvent, RaiseAlert
    <2> QED BY <2>1 DEF Write, Tick
  <1> QED BY <1>2, <1>3, <1>4, <1>5

(* Two writers of a rule are never told the same version of it for         *)
(* different contents, so that an update that overwrites another shows.    *)
THEOREM VersionsAreUnique == Spec => []VersionsTellUpdatesApart
  <1>1. Init => VersionsInv
    BY DEF Init, StoreInit, VersionsInv, ToldInv, VersionsTellUpdatesApart
  <1>2. TypeInv /\ VersionsInv /\ [Next]_vars => VersionsInv'
    <2> SUFFICES ASSUME TypeInv, VersionsInv, [Next]_vars PROVE VersionsInv'
      OBVIOUS
    <2>1. CASE Write
      BY <2>1, VersionsInvWrite DEF TypeInv
    <2>2. CASE UNCHANGED storeVars
      BY <2>2, NothingTold DEF storeVars
    <2> QED BY <2>1, <2>2 DEF Next, vars
  <1> QED BY <1>1, <1>2, TypeInvAlways, PTL DEF Spec, VersionsInv
-----------------------------------------------------------------------------
(* The time of an event.                                                   *)
LEMMA Times ==
  ASSUME NEW a \in Nat, NEW b \in Nat, NEW c \in Nat, a <= b
  PROVE  a * c \in Nat /\ b * c \in Nat /\ a * c <= b * c
  <1>1. PICK d \in Nat : b = a + d
    <2>1. b - a \in Nat /\ b = a + (b - a)
      OBVIOUS
    <2> QED BY <2>1
  <1>2. (a + d) * c = a * c + d * c
    OBVIOUS
  <1>3. a * c \in Nat /\ d * c \in Nat
    OBVIOUS
  <1> QED BY <1>1, <1>2, <1>3

LEMMA Divided ==
  ASSUME NEW x \in Nat
  PROVE  /\ Year(x) \in Nat /\ x % YearLength \in Nat /\ x % YearLength < YearLength
         /\ x = Year(x) * YearLength + (x % YearLength)
  BY YearAssumption DEF Year

LEMMA YearsPass ==
  ASSUME NEW x \in Nat, NEW y \in Nat, x <= y
  PROVE  Year(x) <= Year(y)
  <1>1. SUFFICES ASSUME Year(y) + 1 <= Year(x) PROVE FALSE
    BY Divided
  <1>2. /\ YearLength \in Nat /\ Year(x) \in Nat /\ Year(y) \in Nat
        /\ x % YearLength \in Nat /\ y % YearLength < YearLength /\ y % YearLength \in Nat
        /\ x = Year(x) * YearLength + (x % YearLength)
        /\ y = Year(y) * YearLength + (y % YearLength)
    BY Divided, YearAssumption
  <1> HIDE DEF Year
  <1>3. (Year(y) + 1) * YearLength <= Year(x) * YearLength
    BY <1>1, <1>2, Times
  <1>4. (Year(y) + 1) * YearLength = Year(y) * YearLength + YearLength
    BY <1>2
  <1>5. Year(x) * YearLength \in Nat /\ Year(y) * YearLength \in Nat
    BY <1>2, Times
  <1> QED BY <1>2, <1>3, <1>4, <1>5, SMTT(30)

(* What is left of a number is less than what it is divided by.            *)
LEMMA Quotient ==
  ASSUME NEW d \in Nat \ {0}, NEW q \in Nat, NEW u \in Nat, u < d,
         NEW x, x = q * d + u
  PROVE  x \in Nat /\ x \div d = q /\ x % d = u
  <1>1. q * d \in Nat /\ x \in Nat
    <2>1. q * d \in Nat
      BY Times
    <2> QED BY <2>1
  <1> DEFINE p == x \div d
             v == x % d
  <1>2. p \in Nat /\ v \in Nat /\ v < d /\ x = p * d + v
    BY <1>1
  <1> HIDE DEF p, v
  <1>3. ASSUME NEW a \in Nat, NEW b \in Nat, NEW y \in Nat, NEW z \in Nat,
               y < d, z < d, a * d + y = b * d + z
        PROVE  ~(a < b)
    <2> SUFFICES ASSUME a + 1 <= b PROVE FALSE
      OBVIOUS
    <2>1. (a + 1) * d <= b * d /\ a * d \in Nat /\ b * d \in Nat
      BY Times
    <2>2. (a + 1) * d = a * d + d
      OBVIOUS
    <2> QED BY <1>3, <2>1, <2>2
  <1>4. ~(p < q) /\ ~(q < p)
    BY <1>2, <1>3
  <1>5. p = q
    BY <1>2, <1>4
  <1>6. v = u
    BY <1>1, <1>2, <1>5
  <1> QED BY <1>1, <1>5, <1>6 DEF p, v

LEMMA TimeOfEvent ==
  ASSUME NEW line, NEW format, NEW t
  PROVE  Parsed(line, format, t).at
           \in {t, line.says, Year(t) * YearLength + (line.says % YearLength)}
  <1>1. Stamp(line, t) \in {t, line.says}
    BY DEF Stamp
  <1>2. parseBSDTime(line, t) \in {t, Year(t) * YearLength + (line.says % YearLength)}
    BY DEF parseBSDTime
  <1>3. /\ ParseJSON(line, t).at = Stamp(line, t)
        /\ ParseNginx(line, t).at = Stamp(line, t)
        /\ ParseSyslog(line, t).at \in {Stamp(line, t), parseBSDTime(line, t)}
    BY DEF ParseJSON, ParseNginx, ParseSyslog
  <1> QED BY <1>1, <1>2, <1>3 DEF Parsed

LEMMA SaidThen == \A line : Logged(line).says = now - line.lag
  BY DEF Logged

(* A day of this year that lies ahead of what the line says was one of an  *)
(* earlier year.                                                           *)
LEMMA AheadIsEarlierYear ==
  ASSUME NEW w \in Nat, NEW t \in Nat, NEW a, a = Year(t) * YearLength + (w % YearLength)
  PROVE  a \in Nat /\ Year(a) = Year(t) /\ (a > w => Year(w) < Year(t))
  <1> DEFINE m == w % YearLength
             p == Year(t)
             q == Year(w)
             Y == YearLength
  <1>1. /\ Y \in Nat \ {0} /\ p \in Nat /\ q \in Nat /\ m \in Nat /\ m < Y
        /\ w = q * Y + m /\ a = p * Y + m
    BY YearAssumption, Divided
  <1>2. a \in Nat /\ Year(a) = p
    <2> HIDE DEF m, p, q
    <2>1. a \in Nat /\ a \div Y = p
      BY <1>1, Quotient
    <2> QED BY <2>1 DEF Year
  <1> HIDE DEF m, p, q, Y
  <1>3. ASSUME a > w, p <= q PROVE FALSE
    <2>1. p * Y <= q * Y /\ p * Y \in Nat /\ q * Y \in Nat
      BY <1>1, <1>3, Times
    <2> QED BY <1>1, <1>3, <2>1
  <1> QED BY <1>1, <1>2, <1>3 DEF p, q

(* What a line says is a time, and the clock does not go back.             *)
TimesInv ==
  /\ now >= Start
  /\ \A e \in events : e.at \in Nat /\ e.says \in Nat
  /\ FutureIsExplained

LEMMA InsertEventTimes ==
  ASSUME StoreInv, TimesInv, NEW source \in sources, NEW line \in Lines,
         InsertEvent(source, line)
  PROVE  TimesInv'
  <1> DEFINE w == now - line.lag
             at == Parsed(Logged(line), source.format, now).at
             this == Year(now) * YearLength + (w % YearLength)
  <1>1. now \in Nat /\ now >= Start /\ line.lag \in Int /\ line.lag <= Start /\ Start \in Nat
    BY TimeAssumption DEF StoreInv, TimesInv
  <1>2. w \in Nat
    BY <1>1
  <1>3. at \in {now, w, this}
    BY TimeOfEvent, SaidThen
  <1> DEFINE e == [id |-> Cardinality(events) + 1, source |-> source.id, at |-> at,
                   level |-> Parsed(Logged(line), source.format, now).level,
                   about |-> line.about, agent |-> line.agent, says |-> w]
  <1>4. now' = now /\ events' = events \cup {e} /\ e.at = at /\ e.says = w
    BY DEF InsertEvent
  <1> HIDE DEF w, at, e
  <1>5. this \in Nat /\ Year(this) = Year(now) /\ (this > w => Year(w) < Year(now))
    BY <1>1, <1>2, AheadIsEarlierYear
  <1> HIDE DEF this
  <1>6. /\ at \in Nat
        /\ at > now => w >= at \/ (Year(w) < Year(now) /\ Year(at) = Year(now))
    BY <1>1, <1>2, <1>3, <1>5
  <1> QED BY <1>1, <1>2, <1>4, <1>6 DEF TimesInv, FutureIsExplained

LEMMA TickTimes == ASSUME StoreInv, TimesInv, Tick PROVE TimesInv'
  <1>1. now \in Nat /\ now' = now + 1 /\ events' = events /\ Start \in Nat
    BY TimeAssumption DEF Tick, StoreInv
  <1>2. Year(now) <= Year(now') /\ Year(now) \in Nat /\ Year(now') \in Nat
    BY <1>1, YearsPass, Divided
  <1>3. ASSUME NEW e \in events, e.at > now'
        PROVE  e.says >= e.at \/ (Year(e.says) < Year(now') /\ Year(e.at) = Year(now'))
    <2>1. e.at \in Nat /\ e.says \in Nat /\ e.at > now /\ now' \in Nat /\ now' <= e.at
      BY <1>1, <1>3 DEF TimesInv
    <2>2. e.says >= e.at \/ (Year(e.says) < Year(now) /\ Year(e.at) = Year(now))
      BY <2>1 DEF TimesInv, FutureIsExplained
    <2>3. Year(e.says) \in Nat /\ Year(now') <= Year(e.at) /\ Year(e.at) \in Nat
      BY <2>1, Divided, YearsPass
    <2> HIDE DEF Year
    <2> QED BY <1>2, <2>2, <2>3
  <1>4. now' >= Start /\ \A e \in events : e.at \in Nat /\ e.says \in Nat
    BY <1>1 DEF TimesInv
  <1> QED BY <1>1, <1>3, <1>4 DEF TimesInv, FutureIsExplained

LEMMA TimesInvWrite == ASSUME StoreInv, TimesInv, Write PROVE TimesInv'
  <1>1. ASSUME NEW id \in 1 .. lastSource, DeleteLogSource(id) PROVE TimesInv'
    <2>1. now' = now
      BY <1>1 DEF DeleteLogSource
    <2>2. ASSUME NEW x \in events'
          PROVE  \E e \in events : x.at = e.at /\ x.says = e.says
      <3>1. PICK e \in events : x = [e EXCEPT !.source = IF @ = id THEN Null ELSE @]
        BY <1>1, <2>2 DEF DeleteLogSource
      <3>2. IsEvent(e)
        BY DEF StoreInv, EventsInv
      <3> QED BY <3>1, <3>2 DEF IsEvent
    <2> QED BY <2>1, <2>2 DEF TimesInv, FutureIsExplained
  <1>2. ASSUME NEW source \in sources, NEW line \in Lines, InsertEvent(source, line)
        PROVE  TimesInv'
    BY <1>2, InsertEventTimes
  <1>3. CASE Tick
    BY <1>3, TickTimes
  <1>4. CASE UNCHANGED <<now, events>>
    BY <1>4 DEF TimesInv, FutureIsExplained
  <1>5. \/ \E id \in 1 .. lastSource : DeleteLogSource(id)
        \/ \E source \in sources, line \in Lines : InsertEvent(source, line)
        \/ Tick
        \/ UNCHANGED <<now, events>>
    <2>1. ASSUME Statement PROVE <1>5!1 \/ <1>5!2 \/ <1>5!4
      BY <2>1 DEF Statement, CreateLogSource, CreateRule, UpdateRule, DeleteRule,
                  UpdateAlertStatus, RaiseAlert
    <2> QED BY <2>1 DEF Write
  <1> QED BY <1>1, <1>2, <1>3, <1>4, <1>5

LEMMA TimesInvAlways == Spec => []TimesInv
  <1>1. Init => TimesInv
    BY TimeAssumption DEF Init, StoreInit, TimesInv, FutureIsExplained
  <1>2. TypeInv /\ TimesInv /\ [Next]_vars => TimesInv'
    <2> SUFFICES ASSUME TypeInv, TimesInv, [Next]_vars PROVE TimesInv'
      OBVIOUS
    <2>1. CASE Write
      BY <2>1, TimesInvWrite DEF TypeInv
    <2>2. CASE UNCHANGED storeVars
      BY <2>2 DEF storeVars, TimesInv, FutureIsExplained
    <2> QED BY <2>1, <2>2 DEF Next, vars
  <1> QED BY <1>1, <1>2, TypeInvAlways, PTL DEF Spec

(* An event is in the future only if its line says so, however wrong the   *)
(* clock or the zone of its host, or if it says no year and an earlier     *)
(* year was meant than the one it was parsed in.                           *)
THEOREM FutureHasReasons == Spec => []FutureIsExplained
  <1>1. TimesInv => FutureIsExplained
    BY DEF TimesInv
  <1> QED BY <1>1, TimesInvAlways, PTL
-----------------------------------------------------------------------------
(* The rows that lose a reference never get one again.                     *)
LEMMA OrphansStay ==
  ASSUME StoreInv, [Next]_vars, NEW j, \E row \in Table(j.list) : Orphan(row, j.list)
  PROVE  \E row \in Table(j.list)' : Orphan(row, j.list)
  <1>1. Kept
    BY StoreInvNext
  <1>2. PICK row \in Table(j.list) : Orphan(row, j.list)
    OBVIOUS
  <1>3. CASE j.list = "alerts"
    <2>1. row \in alerts /\ IsAlert(row) /\ Null \in {row.rule, row.event}
      BY <1>2, <1>3 DEF Table, Orphan, StoreInv, AlertsInv
    <2>2. PICK b \in alerts' : AlertKept(row, b)
      BY <1>1, <2>1 DEF Kept
    <2>3. b.event = row.event
      BY <2>1, <2>2 DEF AlertKept, IsAlert
    <2>4. Null \in {b.rule, b.event}
      BY <2>1, <2>2, <2>3 DEF AlertKept
    <2> QED BY <1>3, <2>4 DEF Table, Orphan
  <1>4. CASE j.list # "alerts"
    <2>1. row \in events /\ IsEvent(row) /\ row.source = Null
      BY <1>2, <1>4 DEF Table, Orphan, StoreInv, EventsInv
    <2>2. PICK f \in events' : EventKept(row, f)
      BY <1>1, <2>1 DEF Kept
    <2>3. f.source = Null
      BY <2>1, <2>2 DEF EventKept, IsEvent
    <2> QED BY <1>4, <2>3 DEF Table, Orphan
  <1> QED BY <1>3, <1>4

(* A page is made of rows that are asked for, and as long as it can be.    *)
LEMMA PageSize ==
  ASSUME NEW rows, IsFiniteSet(rows), NEW n \in Nat \ {0}, NEW page \in PageOf(rows, n)
  PROVE  /\ page \subseteq rows /\ IsFiniteSet(page) /\ Cardinality(page) \in Nat
         /\ Cardinality(page) = Limit \/ (n - 1) * Limit + Cardinality(page) >= Cardinality(rows)
  <1> DEFINE first == (n - 1) * Limit
  <1>1. Limit \in Nat /\ n - 1 \in Nat
    BY SiemAssumption
  <1>2. first \in Nat
    BY <1>1, Times
  <1>3. PICK skipped \in Newest(rows, first) : page \in Newest(rows \ skipped, Limit)
    BY DEF PageOf
  <1> HIDE DEF first
  <1>4. /\ skipped \subseteq rows
        /\ Cardinality(skipped) = IF first < Cardinality(rows) THEN first ELSE Cardinality(rows)
    BY <1>3 DEF Newest, kSubset
  <1>5. /\ page \subseteq rows \ skipped
        /\ Cardinality(page) = IF Limit < Cardinality(rows \ skipped) THEN Limit
                                                                    ELSE Cardinality(rows \ skipped)
    BY <1>3 DEF Newest, kSubset
  <1>6. /\ IsFiniteSet(rows \ skipped)
        /\ Cardinality(rows \ skipped) = Cardinality(rows) - Cardinality(skipped)
    <2>1. rows \cap skipped = skipped
      BY <1>4
    <2> QED BY <2>1, FS_Difference
  <1>7. Cardinality(rows) \in Nat /\ Cardinality(rows \ skipped) \in Nat
    BY <1>6, FS_CardinalityType
  <1>8. IsFiniteSet(page)
    BY <1>5, <1>6, FS_Subset
  <1> QED BY <1>1, <1>2, <1>4, <1>5, <1>6, <1>7, <1>8, FS_CardinalityType DEF first

LEMMA PageRows ==
  ASSUME NEW rows, NEW n, NEW page \in PageOf(rows, n)
  PROVE  page \subseteq rows
  BY DEF PageOf, Newest, kSubset

(* What a request does that counts, or reads a page, when nothing fails.   *)
LEMMA SelectEnds ==
  ASSUME NEW r \in Reqs, Select(r)
  PROVE  \/ InTrouble(r)
         \/ /\ Untroubled(r)
            /\ \E page \in PageOf(Matching(job[r]), job[r].page) :
                 \/ /\ \E row \in page : Orphan(row, job[r].list)
                    /\ Goto(r, "failed") /\ UNCHANGED items
                 \/ Goto(r, "done") /\ items' = [items EXCEPT ![r] = Ids(page)]
  BY DEF Select

LEMMA TroubleStays == ASSUME RequestsInv, [Next]_vars PROVE troubled \subseteq troubled'
  <1>1. ASSUME NEW r \in Reqs, Untroubled(r) \/ InTrouble(r) PROVE troubled \subseteq troubled'
    BY <1>1 DEF Untroubled, InTrouble
  <1>2. ASSUME NEW r \in Reqs, Step(r) PROVE troubled \subseteq troubled'
    BY <1>1, <1>2 DEF Step, Count, Select, AskNext, AskSeries, buildDailySeries, Respond, queryVars
  <1> QED BY <1>2 DEF Next, vars, requestVars, queryVars, Arrive, AskNextPage, Elsewhere

(* What happens to a request that does not take a step.                    *)
Same(r) ==
  pc'[r] = pc[r] /\ job'[r] = job[r] /\ total'[r] = total[r] /\ items'[r] = items[r]
Results == total \in [Reqs -> Nat] /\ items \in [Reqs -> SUBSET Nat]

LEMMA OnlyOneSteps ==
  ASSUME RequestsInv, Results, NEW r \in Reqs,
         Step(r) \/ AskNextPage(r) \/ (\E j \in Jobs : Arrive(r, j))
  PROVE  \A q \in Reqs \ {r} : Same(q)
  <1> SUFFICES ASSUME NEW q \in Reqs, q # r PROVE Same(q)
    OBVIOUS
  <1>1. \A s : Goto(r, s) => pc'[q] = pc[q]
    BY DEF Goto, RequestsInv
  <1>2. CASE Count(r)
    BY <1>1, <1>2 DEF Count, Same, RequestsInv, Results
  <1>3. CASE Select(r)
    BY <1>1, <1>3, SelectEnds DEF Select, Same, RequestsInv, Results
  <1>4. CASE AskNext(r) \/ AskSeries(r) \/ buildDailySeries(r)
    BY <1>1, <1>4 DEF AskNext, AskSeries, buildDailySeries, Same
  <1>5. CASE Respond(r)
    BY <1>1, <1>5 DEF Respond, queryVars, Same
  <1>6. CASE AskNextPage(r)
    BY <1>1, <1>6 DEF AskNextPage, Same, RequestsInv, Results
  <1>7. ASSUME NEW j \in Jobs, Arrive(r, j) PROVE Same(q)
    BY <1>1, <1>7 DEF Arrive, Same, RequestsInv, Results
  <1> QED BY <1>2, <1>3, <1>4, <1>5, <1>6, <1>7 DEF Step

(* The numbers and the pages that requests hold.                           *)
LEMMA ResultsNext ==
  ASSUME StoreInv, RequestsInv, Results, [Next]_vars
  PROVE  Results'
  <1>1. ASSUME NEW j \in List PROVE /\ IsFiniteSet(Matching(j)) /\ Ids(Matching(j)) \subseteq Nat
                                    /\ IdsAreUnique(Matching(j))
                                    /\ Cardinality(Matching(j)) \in Nat
    <2>1. Numbered(Table(j.list))
      BY DEF Table, StoreInv, EventsInv, AlertsInv
    <2>2. Matching(j) \subseteq Table(j.list)
      BY DEF Matching
    <2>3. IsFiniteSet(Matching(j)) /\ Cardinality(Matching(j)) \in Nat
      BY <2>1, <2>2, FS_Subset, FS_CardinalityType DEF Numbered
    <2>4. Ids(Matching(j)) \subseteq Ids(Table(j.list))
      BY <2>2 DEF Ids
    <2>5. Ids(Table(j.list)) \subseteq Nat
      BY <2>1, FS_CardinalityType DEF Numbered
    <2> QED BY <2>1, <2>2, <2>3, <2>4, <2>5 DEF IdsAreUnique, Numbered
  <1>2. ASSUME NEW r \in Reqs, Count(r) PROVE Results'
    BY <1>1, <1>2 DEF Count, Results, RequestsInv
  <1>3. ASSUME NEW r \in Reqs, Select(r) PROVE Results'
    <2>1. job[r] \in List
      BY <1>3 DEF Select, RequestsInv
    <2>2. \A rows : rows \subseteq Matching(job[r]) => Ids(rows) \subseteq Nat
      BY <1>1, <2>1 DEF Ids
    <2>3. total' = total
      BY <1>3 DEF Select
    <2>4. items' = items \/ \E rows : rows \subseteq Matching(job[r]) /\ items' = [items EXCEPT ![r] = Ids(rows)]
      <3>1. \A page \in PageOf(Matching(job[r]), job[r].page) : page \subseteq Matching(job[r])
        BY PageRows
      <3>2. \A n, page : \A rows \in Newest(page, n) : rows \subseteq page
        BY DEF Newest, kSubset
      <3> QED BY <1>3, <3>1, <3>2 DEF Select
    <2> QED BY <2>2, <2>3, <2>4 DEF Results
  <1>4. ASSUME NEW r \in Reqs, AskNextPage(r) PROVE Results'
    BY <1>4 DEF AskNextPage, Results
  <1>5. CASE UNCHANGED <<total, items>>
    BY <1>5 DEF Results
  <1>6. \/ \E r \in Reqs : Count(r) \/ Select(r) \/ AskNextPage(r)
        \/ UNCHANGED <<total, items>>
    BY DEF Next, vars, Step, AskNext, AskSeries, buildDailySeries, Respond, Arrive, Elsewhere, queryVars
  <1> QED BY <1>2, <1>3, <1>4, <1>5, <1>6

ListInv == TypeInv /\ Results

LEMMA ListInvAlways == Spec => []ListInv
  <1>1. Init => Results
    BY DEF Init, QueryInit, Results
  <1>2. TypeInv /\ Results /\ [Next]_vars => Results'
    BY ResultsNext DEF TypeInv
  <1> QED BY <1>1, <1>2, TypeInvAlways, PTL DEF Spec, ListInv

(* What may happen to a request in a step.                                 *)
LEMMA CasesOfStep ==
  ASSUME ListInv, [Next]_vars, NEW r \in Reqs
  PROVE  \/ Same(r)
         \/ UNCHANGED storeVars /\ (Step(r) \/ AskNextPage(r) \/ \E j \in Jobs : Arrive(r, j))
         \/ UNCHANGED storeVars /\ Elsewhere
  <1>1. CASE UNCHANGED <<requestVars, queryVars>>
    BY <1>1 DEF requestVars, queryVars, Same
  <1>2. ASSUME UNCHANGED storeVars, NEW q \in Reqs,
               Step(q) \/ AskNextPage(q) \/ (\E j \in Jobs : Arrive(q, j))
        PROVE  Same(r) \/ q = r
    BY <1>2, OnlyOneSteps DEF ListInv, TypeInv
  <1> QED BY <1>1, <1>2 DEF Next, vars

ErrorOf(r) ==
  pc[r] = "failed" /\ r \notin gone \cup troubled =>
    \E row \in Table(job[r].list) : Orphan(row, job[r].list)

LEMMA ErrorOfNext ==
  ASSUME ListInv, [Next]_vars, NEW r \in Reqs, ErrorOf(r)
  PROVE  ErrorOf(r)'
  <1> SUFFICES ASSUME pc'[r] = "failed", r \notin gone' \cup troubled', NEW j, j = job'[r]
               PROVE  \E row \in Table(j.list)' : Orphan(row, j.list)
    BY DEF ErrorOf
  <1>1. troubled \subseteq troubled' /\ gone \subseteq gone'
    <2>1. gone \subseteq gone'
      BY DEF Next, vars, requestVars, Arrive, AskNextPage, Elsewhere, Disconnect, Exit, Step,
             Count, Select, AskNext, AskSeries, buildDailySeries, Respond, Untroubled, InTrouble,
             Works, Fails
    <2> QED BY <2>1, TroubleStays DEF ListInv, TypeInv
  <1>2. CASE Same(r)
    <2>1. \E row \in Table(j.list) : Orphan(row, j.list)
      BY <1>1, <1>2 DEF Same, ErrorOf
    <2> QED BY <2>1, OrphansStay DEF ListInv, TypeInv
  <1>3. CASE UNCHANGED storeVars /\ Select(r)
    <2>1. r \notin troubled' /\ ~InTrouble(r)
      BY DEF InTrouble
    <2>2. PICK page \in PageOf(Matching(job[r]), job[r].page) :
            \/ \E row \in page : Orphan(row, job[r].list)
            \/ Goto(r, "done")
      BY <1>3, <2>1, SelectEnds
    <2>3. ~Goto(r, "done")
      BY DEF Goto, ListInv, TypeInv, RequestsInv
    <2>4. \E row \in Table(job[r].list) : Orphan(row, job[r].list)
      BY <2>2, <2>3, PageRows DEF Matching
    <2>5. job' = job /\ events' = events /\ alerts' = alerts
      BY <1>3 DEF Select, storeVars
    <2>6. Table(j.list)' = Table(j.list) /\ j = job[r]
      BY <2>5 DEF Table
    <2> QED BY <2>4, <2>6
  <1>4. CASE \/ Count(r) \/ AskNext(r) \/ AskSeries(r) \/ buildDailySeries(r) \/ Respond(r)
             \/ AskNextPage(r) \/ \E i \in Jobs : Arrive(r, i)
    <2>1. \A s : Goto(r, s) => s = "failed"
      BY DEF Goto, ListInv, TypeInv, RequestsInv
    <2>2. r \notin troubled' /\ ~InTrouble(r)
      BY DEF InTrouble
    <2>3. ~(\/ Count(r) \/ AskSeries(r) \/ Respond(r) \/ AskNextPage(r)
            \/ \E i \in Jobs : Arrive(r, i))
      BY <2>1, <2>2 DEF Count, AskSeries, Respond, AskNextPage, Arrive
    <2>4. ~AskNext(r) /\ ~buildDailySeries(r)
      BY <2>1 DEF AskNext, buildDailySeries
    <2> QED BY <1>4, <2>3, <2>4
  <1>5. CASE UNCHANGED storeVars /\ Elsewhere
    <2>1. CASE \E q \in Reqs : Disconnect(q) /\ UNCHANGED queryVars
      <3>1. pc' = pc /\ job' = job /\ events' = events /\ alerts' = alerts
        BY <1>5, <2>1 DEF Disconnect, queryVars, storeVars
      <3>2. Table(j.list)' = Table(j.list) /\ j = job[r]
        BY <3>1 DEF Table
      <3> QED BY <1>1, <3>1, <3>2 DEF ErrorOf
    <2>2. CASE /\ Exit /\ troubled' = troubled \cup {q \in Reqs : Open(q)}
               /\ UNCHANGED job
      <3>1. pc[r] = "failed" /\ job' = job /\ events' = events /\ alerts' = alerts
        BY <1>5, <2>2 DEF Exit, storeVars, ListInv, TypeInv, RequestsInv
      <3>2. Table(j.list)' = Table(j.list) /\ j = job[r]
        BY <3>1 DEF Table
      <3> QED BY <1>1, <3>1, <3>2 DEF ErrorOf
    <2> QED BY <1>5, <2>1, <2>2 DEF Elsewhere
  <1> QED BY <1>2, <1>3, <1>4, <1>5, CasesOfStep DEF Step

(* While the database works, a list is refused only after a row of it has  *)
(* lost a reference.                                                       *)
THEOREM ErrorsComeOfDeletions == Spec => []ErrorOnlyAfterDeletion
  <1>1. Init => ErrorOnlyAfterDeletion
    BY DEF Init, RequestsInit, ErrorOnlyAfterDeletion
  <1>2. ListInv /\ ErrorOnlyAfterDeletion /\ [Next]_vars => ErrorOnlyAfterDeletion'
    <2> SUFFICES ASSUME ListInv, ErrorOnlyAfterDeletion, [Next]_vars
                 PROVE  \A r \in Reqs : ErrorOf(r)'
      BY DEF ErrorOnlyAfterDeletion, ErrorOf
    <2>1. \A r \in Reqs : ErrorOf(r)
      BY DEF ErrorOnlyAfterDeletion, ErrorOf
    <2> QED BY <2>1, ErrorOfNext
  <1> QED BY <1>1, <1>2, ListInvAlways, PTL DEF Spec
-----------------------------------------------------------------------------
(* The total of a list.  The rows that match a list never become fewer,    *)
(* unless it asks for a status.                                            *)
LEMMA MatchingGrows ==
  ASSUME StoreInv, [Next]_vars, NEW j \in List, j.list = "alerts" => j.filter = Null
  PROVE  /\ Cardinality(Matching(j)) \in Nat /\ Cardinality(Matching(j)') \in Nat
         /\ Cardinality(Matching(j)) <= Cardinality(Matching(j)')
  <1>1. StoreInv' /\ Kept
    BY StoreInvNext
  <1>2. Numbered(events) /\ Numbered(alerts) /\ Numbered(events') /\ Numbered(alerts')
    BY <1>1 DEF StoreInv, EventsInv, AlertsInv, Numbered, IdsAreUnique, Ids
  <1>3. Ids(Matching(j)) \subseteq Ids(Matching(j)')
    <2> SUFFICES ASSUME NEW row \in Matching(j) PROVE \E new \in Matching(j)' : new.id = row.id
      BY DEF Ids
    <2>1. CASE j.list = "alerts"
      <3>1. row \in alerts
        BY <2>1 DEF Matching, Table
      <3>2. PICK new \in alerts' : AlertKept(row, new)
        BY <1>1, <3>1 DEF Kept
      <3>3. new.id = row.id
        BY <3>1, <3>2 DEF AlertKept, IsAlert, StoreInv, AlertsInv
      <3>4. new \in Matching(j)'
        BY <2>1, <3>2 DEF Matching, Matches, Table
      <3> QED BY <3>3, <3>4
    <2>2. CASE j.list # "alerts"
      <3>1. row \in events /\ (j.filter = Null \/ row.level = j.filter)
        BY <2>2 DEF Matching, Matches, Table
      <3>2. PICK new \in events' : EventKept(row, new)
        BY <1>1, <3>1 DEF Kept
      <3>3. new.id = row.id /\ new.level = row.level
        BY <3>1, <3>2 DEF EventKept, IsEvent, StoreInv, EventsInv
      <3>4. new \in Matching(j)'
        BY <2>2, <3>1, <3>2, <3>3 DEF Matching, Matches, Table
      <3> QED BY <3>3, <3>4
    <2> QED BY <2>1, <2>2
  <1>4. ASSUME NEW table, NEW rows \in SUBSET table, Numbered(table)
        PROVE  /\ IsFiniteSet(rows) /\ IdsAreUnique(rows) /\ Cardinality(rows) \in Nat
               /\ IsFiniteSet(Ids(rows)) /\ Cardinality(Ids(rows)) = Cardinality(rows)
    <2>1. IsFiniteSet(rows) /\ IdsAreUnique(rows)
      BY <1>4, FS_Subset DEF Numbered, IdsAreUnique
    <2> QED BY <2>1, AsManyIds, FS_CardinalityType
  <1>5. Matching(j) \in (SUBSET events) \cup (SUBSET alerts)
    BY DEF Matching, Table
  <1>6. Matching(j)' \in (SUBSET events') \cup (SUBSET alerts')
    BY DEF Matching, Table
  <1>7. /\ Cardinality(Matching(j)) \in Nat
        /\ Cardinality(Ids(Matching(j))) = Cardinality(Matching(j))
    BY <1>2, <1>4, <1>5
  <1>8. /\ Cardinality(Matching(j)') \in Nat /\ IsFiniteSet(Ids(Matching(j)'))
        /\ Cardinality(Ids(Matching(j)')) = Cardinality(Matching(j)')
    BY <1>2, <1>4, <1>6
  <1> QED BY <1>3, <1>7, <1>8, FS_Subset

TotalOf(r) ==
  /\ pc[r] = "select" /\ ~Filtered(r, "alerts") =>
       total[r] <= Cardinality(Matching(job[r]))
  /\ Listed(r) /\ ~Filtered(r, "alerts") =>
       \/ Cardinality(items[r]) = Limit
       \/ (job[r].page - 1) * Limit + Cardinality(items[r]) >= total[r]

LEMMA TotalOfSame ==
  ASSUME ListInv, [Next]_vars, NEW r \in Reqs, TotalOf(r),
         pc'[r] \in {pc[r], "failed"}, job'[r] = job[r], total'[r] = total[r], items'[r] = items[r]
  PROVE  TotalOf(r)'
  <1>1. troubled \subseteq troubled'
    BY TroubleStays DEF ListInv, TypeInv
  <1>2. ASSUME pc'[r] = "select", ~Filtered(r, "alerts")'
        PROVE  total'[r] <= Cardinality(Matching(job[r])')
    <2>1. pc[r] = "select" /\ job[r] \in List /\ total[r] \in Nat
      BY <1>2 DEF ListInv, TypeInv, RequestsInv, Results
    <2>2. PICK j \in List : j = job[r]
      BY <2>1
    <2>3. j.list = "alerts" => j.filter = Null
      BY <1>2, <2>2 DEF Filtered
    <2>4. total[r] <= Cardinality(Matching(j))
      BY <2>1, <2>2, <2>3 DEF TotalOf, Filtered
    <2>5. /\ Cardinality(Matching(j)) \in Nat /\ Cardinality(Matching(j)') \in Nat
          /\ Cardinality(Matching(j)) <= Cardinality(Matching(j)')
      BY <2>3, MatchingGrows DEF ListInv, TypeInv
    <2>6. Matching(job[r])' = Matching(j)'
      BY <2>2 DEF Matching, Matches, Table
    <2> QED BY <2>1, <2>4, <2>5, <2>6
  <1>3. ASSUME Listed(r)', ~Filtered(r, "alerts")'
        PROVE  \/ Cardinality(items'[r]) = Limit
               \/ (job'[r].page - 1) * Limit + Cardinality(items'[r]) >= total'[r]
    BY <1>1, <1>3 DEF Listed, Filtered, TotalOf
  <1> QED BY <1>2, <1>3 DEF TotalOf

LEMMA CountTotal ==
  ASSUME ListInv, NEW r \in Reqs, UNCHANGED storeVars, Count(r)
  PROVE  TotalOf(r)'
  <1>1. job' = job /\ events' = events /\ alerts' = alerts /\ job[r] \in List
    BY DEF Count, storeVars, ListInv, TypeInv, RequestsInv
  <1>2. pc'[r] \in {"select", "failed"}
    BY DEF Count, Goto, ListInv, TypeInv, RequestsInv
  <1>3. ASSUME pc'[r] = "select" PROVE total'[r] <= Cardinality(Matching(job[r])')
    <2>1. total'[r] = Cardinality(Matching(job[r]))
      BY <1>3 DEF Count, Goto, ListInv, TypeInv, RequestsInv, Results
    <2>2. PICK j \in List : j = job[r]
      BY <1>1
    <2>3. Matching(j)' = Matching(j)
      BY <1>1 DEF Matching, Matches, Table
    <2>4. Matching(job[r])' = Matching(j)'
      BY <1>1, <2>2 DEF Matching, Matches, Table
    <2>5. Cardinality(Matching(j)) \in Nat
      <3>1. Matching(j) \in (SUBSET events) \cup (SUBSET alerts)
        BY DEF Matching, Table
      <3>2. IsFiniteSet(Matching(j))
        BY <3>1, FS_Subset DEF ListInv, TypeInv, StoreInv, EventsInv, AlertsInv, Numbered
      <3> QED BY <3>2, FS_CardinalityType
    <2> QED BY <2>1, <2>2, <2>3, <2>4, <2>5
  <1> QED BY <1>2, <1>3 DEF TotalOf, Listed

LEMMA SelectTotal ==
  ASSUME ListInv, NEW r \in Reqs, TotalOf(r), Select(r)
  PROVE  TotalOf(r)'
  <1>1. /\ pc[r] = "select" /\ job' = job /\ total' = total /\ job[r] \in List
        /\ job[r].page \in Nat \ {0} /\ pc'[r] \in {"done", "failed"}
    <2>1. pc[r] = "select" /\ job' = job /\ total' = total /\ job[r] \in List
      BY DEF Select, ListInv, TypeInv, RequestsInv
    <2>2. job[r].page \in Nat \ {0}
      BY <2>1, SiemAssumption DEF List
    <2>3. pc'[r] \in {"done", "failed"}
      BY DEF Select, Goto, ListInv, TypeInv, RequestsInv
    <2> QED BY <2>1, <2>2, <2>3
  <1>2. ASSUME Listed(r)', ~Filtered(r, "alerts")'
        PROVE  \/ Cardinality(items'[r]) = Limit
               \/ (job'[r].page - 1) * Limit + Cardinality(items'[r]) >= total'[r]
    <2>1. r \notin troubled' /\ pc'[r] = "done" /\ ~Filtered(r, "alerts")
      BY <1>1, <1>2 DEF Listed, Filtered
    <2>2. total[r] <= Cardinality(Matching(job[r])) /\ total[r] \in Nat
      BY <1>1, <2>1 DEF TotalOf, ListInv, Results
    <2>3. PICK page \in PageOf(Matching(job[r]), job[r].page) : items'[r] = Ids(page)
      <3>1. ~InTrouble(r) /\ ~Goto(r, "failed")
        BY <2>1 DEF InTrouble, Goto, ListInv, TypeInv, RequestsInv
      <3>2. PICK page \in PageOf(Matching(job[r]), job[r].page) :
              items' = [items EXCEPT ![r] = Ids(page)]
        BY <3>1, SelectEnds
      <3> QED BY <3>2 DEF ListInv, Results
    <2>4. IsFiniteSet(Matching(job[r])) /\ IdsAreUnique(Matching(job[r]))
      <3>1. Matching(job[r]) \in (SUBSET events) \cup (SUBSET alerts)
        BY DEF Matching, Table
      <3>2. Numbered(events) /\ Numbered(alerts)
        BY DEF ListInv, TypeInv, StoreInv, EventsInv, AlertsInv
      <3> QED BY <3>1, <3>2, FS_Subset DEF Numbered, IdsAreUnique
    <2>5. /\ page \subseteq Matching(job[r]) /\ IsFiniteSet(page) /\ Cardinality(page) \in Nat
          /\ \/ Cardinality(page) = Limit
             \/ (job[r].page - 1) * Limit + Cardinality(page) >= Cardinality(Matching(job[r]))
      BY <1>1, <2>4, PageSize
    <2>6. Cardinality(items'[r]) = Cardinality(page)
      BY <2>3, <2>4, <2>5, AsManyIds DEF IdsAreUnique
    <2>7. (job[r].page - 1) * Limit \in Nat /\ Cardinality(Matching(job[r])) \in Nat
      <3>1. job[r].page - 1 \in Nat /\ Limit \in Nat
        BY <1>1, SiemAssumption
      <3> QED BY <2>4, <3>1, Times, FS_CardinalityType
    <2> DEFINE first == (job[r].page - 1) * Limit
    <2> HIDE DEF first
    <2>8. CASE Cardinality(page) = Limit
      BY <2>6, <2>8
    <2>9. CASE first + Cardinality(page) >= Cardinality(Matching(job[r]))
      <3>1. first + Cardinality(page) >= total[r]
        BY <2>2, <2>5, <2>7, <2>9 DEF first
      <3> QED BY <1>1, <2>6, <3>1 DEF first
    <2> QED BY <2>5, <2>8, <2>9 DEF first
  <1> QED BY <1>1, <1>2 DEF TotalOf

LEMMA TotalOfNext ==
  ASSUME ListInv, [Next]_vars, NEW r \in Reqs, TotalOf(r)
  PROVE  TotalOf(r)'
  <1> USE DEF ListInv, TypeInv
  <1>1. CASE Same(r)
    BY <1>1, TotalOfSame DEF Same
  <1>2. CASE UNCHANGED storeVars /\ Count(r)
    BY <1>2, CountTotal
  <1>3. CASE Select(r)
    BY <1>3, SelectTotal
  <1>4. CASE AskNext(r) \/ AskSeries(r) \/ buildDailySeries(r)
    <2>1. job' = job /\ pc'[r] \notin {"select", "done"}
      BY <1>4 DEF AskNext, AskSeries, buildDailySeries, Goto, RequestsInv
    <2> QED BY <2>1 DEF TotalOf, Listed
  <1>5. CASE Respond(r)
    <2>1. job' = job /\ job[r] = Overview /\ pc'[r] = "done"
      BY <1>5 DEF Respond, queryVars, Goto, RequestsInv
    <2> QED BY <2>1 DEF TotalOf, Listed
  <1>6. CASE AskNextPage(r)
    <2>1. pc'[r] = "count"
      BY <1>6 DEF AskNextPage, Goto, RequestsInv
    <2> QED BY <2>1 DEF TotalOf, Listed
  <1>7. ASSUME NEW j \in Jobs, Arrive(r, j) PROVE TotalOf(r)'
    <2>1. pc'[r] = (IF j = Overview THEN "ask" ELSE "count") /\ job'[r] = j
      BY <1>7 DEF Arrive, Goto, RequestsInv
    <2> QED BY <2>1 DEF TotalOf, Listed
  <1>8. CASE Elsewhere
    <2>1. UNCHANGED <<job, total, items>> /\ pc'[r] \in {pc[r], "failed"}
      BY <1>8 DEF Elsewhere, Disconnect, Exit, queryVars, RequestsInv
    <2> QED BY <2>1, TotalOfSame
  <1> QED BY <1>1, <1>2, <1>3, <1>4, <1>5, <1>6, <1>7, <1>8, CasesOfStep DEF Step

(* The total that a list says is there to be read, however many rows come  *)
(* between the count and the page.                                         *)
THEOREM TotalCanBeRead == Spec => []TotalIsKept
  <1> DEFINE TotalInv == \A r \in Reqs : TotalOf(r)
  <1>1. Init => TotalInv
    BY DEF Init, RequestsInit, TotalOf, Listed
  <1>2. ListInv /\ TotalInv /\ [Next]_vars => TotalInv'
    BY TotalOfNext
  <1>3. TotalInv => TotalIsKept
    BY DEF TotalOf, TotalIsKept
  <1> HIDE DEF TotalInv
  <1> QED BY <1>1, <1>2, <1>3, ListInvAlways, PTL DEF Spec
-----------------------------------------------------------------------------
(* Days go on.                                                             *)
LEMMA QuotientGrows ==
  ASSUME NEW d \in Nat \ {0}, NEW x \in Nat, NEW y \in Nat, x <= y
  PROVE  x \div d \in Nat /\ y \div d \in Nat /\ x \div d <= y \div d
  <1> DEFINE p == x \div d
             q == y \div d
  <1>1. /\ p \in Nat /\ x % d \in Nat /\ x = p * d + (x % d)
        /\ q \in Nat /\ y % d \in Nat /\ y % d < d /\ y = q * d + (y % d)
    OBVIOUS
  <1> HIDE DEF p, q
  <1>2. ASSUME q + 1 <= p PROVE FALSE
    <2>1. (q + 1) * d <= p * d /\ p * d \in Nat /\ q * d \in Nat
      BY <1>1, <1>2, Times
    <2>2. (q + 1) * d = q * d + d
      BY <1>1
    <2> QED BY <1>1, <2>1, <2>2
  <1> QED BY <1>1, <1>2 DEF p, q

(* The overview: what there is to know of its requests.                    *)
QuestionsOK ==
  /\ totalEvents \in [Reqs -> {"some", "none", "error"}] /\ asked \in [Reqs -> Nat]
  /\ known \in [Reqs -> [events : SUBSET Nat, alerts : SUBSET Nat]]
  /\ series \in [Reqs -> [Series -> Seq(Int)]]
  /\ counted = [r \in Reqs |-> counted[r]] /\ missed = [r \in Reqs |-> missed[r]]

LEMMA QuestionsDiffer ==
  /\ Len(Questions) = 8
  /\ \A i, j \in 1 .. 8 : Questions[i] = Questions[j] => i = j
  BY DEF Questions

LEMMA DayIsNat == ASSUME NEW t \in Nat PROVE Day(t) \in Nat
  <1>1. t <= t /\ DayLength \in Nat \ {0}
    BY SiemAssumption
  <1> QED BY <1>1, QuotientGrows DEF Day

LEMMA LaterDay ==
  ASSUME NEW s \in Nat, NEW t \in Nat, s <= t
  PROVE  Day(s) \in Nat /\ Day(t) \in Nat /\ Day(s) <= Day(t)
  <1>1. DayLength \in Nat \ {0}
    BY SiemAssumption
  <1> QED BY <1>1, QuotientGrows DEF Day

LEMMA LoopKeepsTypes ==
  ASSUME TypeInv, QuestionsOK, NEW r \in Reqs, buildDailySeries(r)
  PROVE  QuestionsOK'
  <1> DEFINE question == Questions[asked[r] + 1]
             days == Append(series[r][question], Day(now) - (Days - 1 - Len(series[r][question])))
  <1>1. series' = [series EXCEPT ![r][question] = days]
    BY DEF buildDailySeries
  <1>2. series[r] \in [Series -> Seq(Int)]
    BY DEF QuestionsOK
  <1>3. ASSUME question \in Series PROVE days \in Seq(Int)
    <2>1. series[r][question] \in Seq(Int) /\ Len(series[r][question]) \in Nat
      BY <1>2, <1>3
    <2>2. Day(now) \in Nat /\ Days \in Nat
      BY DayIsNat, SiemAssumption DEF TypeInv, StoreInv
    <2>3. PICK n \in Nat : n = Len(series[r][question])
      BY <2>1
    <2>4. \A today, last \in Nat : today - (last - 1 - n) \in Int
      BY <2>3
    <2>5. Day(now) - (Days - 1 - n) \in Int
      BY <2>2, <2>4
    <2> QED BY <2>1, <2>3, <2>5
  <1> HIDE DEF question, days
  <1>4. series' \in [Reqs -> [Series -> Seq(Int)]]
    <2>1. [series[r] EXCEPT ![question] = days] \in [Series -> Seq(Int)]
      BY <1>2, <1>3
    <2> QED BY <1>1, <2>1 DEF QuestionsOK
  <1>5. /\ UNCHANGED <<totalEvents, known>>
        /\ asked' = [asked EXCEPT ![r] = @ + 1] \/ asked' = asked
    BY DEF buildDailySeries
  <1>6. counted' = [q \in Reqs |-> counted'[q]] /\ missed' = [q \in Reqs |-> missed'[q]]
    <2>1. CASE UNCHANGED <<counted, missed>>
      BY <2>1 DEF QuestionsOK
    <2>2. CASE \E a, b : counted' = [counted EXCEPT ![r] = a] /\ missed' = [missed EXCEPT ![r] = b]
      BY <2>2 DEF QuestionsOK
    <2> QED BY <2>1, <2>2 DEF buildDailySeries
  <1>7. asked' \in [Reqs -> Nat]
    BY <1>5 DEF QuestionsOK
  <1> QED BY <1>4, <1>5, <1>6, <1>7 DEF QuestionsOK

LEMMA QuestionsOKNext == ASSUME TypeInv, QuestionsOK, [Next]_vars PROVE QuestionsOK'
  <1>1. CASE UNCHANGED <<overviewVars, known>>
    BY <1>1 DEF QuestionsOK, overviewVars
  <1>2. ASSUME NEW r \in Reqs, NEW j \in Jobs, Arrive(r, j) PROVE QuestionsOK'
    <2>1. Ids(events) \subseteq Nat /\ Ids(alerts) \subseteq Nat
      <3>1. \A n \in Nat : 1 .. n \subseteq Nat
        OBVIOUS
      <3>2. Cardinality(events) \in Nat /\ Cardinality(alerts) \in Nat
        BY FS_CardinalityType DEF TypeInv, StoreInv, EventsInv, AlertsInv, Numbered
      <3> QED BY <3>1, <3>2 DEF TypeInv, StoreInv, EventsInv, AlertsInv, Numbered
    <2>2. known' \in [Reqs -> [events : SUBSET Nat, alerts : SUBSET Nat]]
      BY <1>2, <2>1 DEF Arrive, QuestionsOK
    <2> QED BY <1>2, <2>2 DEF Arrive, QuestionsOK, overviewVars
  <1>3. ASSUME NEW r \in Reqs, AskNext(r) PROVE QuestionsOK'
    <2>1. UNCHANGED <<known, counted, series>> /\ asked' = [asked EXCEPT ![r] = @ + 1]
      BY <1>3 DEF AskNext
    <2>2. \/ \E what \in {"some", "none", "error"} :
               totalEvents' = [totalEvents EXCEPT ![r] = what]
          \/ totalEvents' = totalEvents
      BY <1>3 DEF AskNext
    <2>3. missed' = [q \in Reqs |-> missed'[q]]
      <3>1. missed' = missed \/ \E b : missed' = [missed EXCEPT ![r] = b]
        BY <1>3 DEF AskNext
      <3> QED BY <3>1 DEF QuestionsOK
    <2>4. asked' \in [Reqs -> Nat]
      BY <2>1 DEF QuestionsOK
    <2>5. totalEvents' \in [Reqs -> {"some", "none", "error"}]
      BY <2>2 DEF QuestionsOK
    <2> QED BY <2>1, <2>3, <2>4, <2>5 DEF QuestionsOK
  <1>4. ASSUME NEW r \in Reqs, AskSeries(r) PROVE QuestionsOK'
    <2>1. UNCHANGED <<known, asked, totalEvents, series, missed>>
      BY <1>4 DEF AskSeries
    <2>2. \E b : counted' = [counted EXCEPT ![r] = b]
      BY <1>4 DEF AskSeries
    <2> QED BY <2>1, <2>2 DEF QuestionsOK
  <1>5. ASSUME NEW r \in Reqs, buildDailySeries(r) PROVE QuestionsOK'
    BY <1>5, LoopKeepsTypes
  <1>6. \/ UNCHANGED <<overviewVars, known>>
        \/ \E r \in Reqs, j \in Jobs : Arrive(r, j)
        \/ \E r \in Reqs : AskNext(r) \/ AskSeries(r) \/ buildDailySeries(r)
    BY DEF Next, vars, Step, Count, Select, Respond, AskNextPage, Elsewhere, queryVars
  <1> QED BY <1>1, <1>2, <1>3, <1>4, <1>5, <1>6

(* The steps of an overview, and all others.                               *)
OverviewSame(r) ==
  /\ asked'[r] = asked[r] /\ totalEvents'[r] = totalEvents[r] /\ counted'[r] = counted[r]
  /\ series'[r] = series[r] /\ missed'[r] = missed[r] /\ known'[r] = known[r]
  /\ pc'[r] \in {"new", "ask", "label"} => pc[r] = pc'[r]
OverviewStep(r) ==
  (\E j \in Jobs : Arrive(r, j)) \/ AskNext(r) \/ AskSeries(r) \/ buildDailySeries(r)

LEMMA OverviewCases ==
  ASSUME TypeInv, QuestionsOK, [Next]_vars, NEW r \in Reqs
  PROVE  OverviewSame(r) \/ (UNCHANGED storeVars /\ OverviewStep(r))
  <1>1. CASE UNCHANGED <<requestVars, queryVars>>
    BY <1>1 DEF requestVars, queryVars, overviewVars, OverviewSame
  <1>2. CASE Elsewhere
    <2>1. UNCHANGED <<overviewVars, known>>
      BY <1>2 DEF Elsewhere, queryVars
    <2>2. pc'[r] \in {pc[r], "failed"}
      BY <1>2 DEF Elsewhere, Disconnect, Exit, TypeInv, RequestsInv
    <2> QED BY <2>1, <2>2 DEF overviewVars, OverviewSame
  <1>3. ASSUME NEW q \in Reqs, AskNextPage(q) \/ Count(q) \/ Select(q) \/ Respond(q)
        PROVE  OverviewSame(r)
    <2>1. UNCHANGED <<overviewVars, known>>
      BY <1>3 DEF AskNextPage, Count, Select, Respond, queryVars
    <2>2. \E to \in {"count", "select", "failed", "done"} : Goto(q, to)
      BY <1>3 DEF AskNextPage, Count, Select, Respond
    <2>3. pc'[r] \in {"new", "ask", "label"} => pc[r] = pc'[r]
      BY <2>2 DEF Goto, TypeInv, RequestsInv
    <2> QED BY <2>1, <2>3 DEF overviewVars, OverviewSame
  <1>4. ASSUME NEW q \in Reqs, OverviewStep(q), q # r PROVE OverviewSame(r)
    <2>1. pc'[r] = pc[r]
      <3>1. pc' = pc \/ \E step : Goto(q, step)
        BY <1>4 DEF OverviewStep, Arrive, AskNext, AskSeries, buildDailySeries
      <3> QED BY <1>4, <3>1 DEF Goto, TypeInv, RequestsInv
    <2>2. ASSUME NEW j \in Jobs, Arrive(q, j) PROVE OverviewSame(r)
      BY <1>4, <2>1, <2>2 DEF Arrive, overviewVars, OverviewSame, QuestionsOK
    <2>3. CASE AskNext(q)
      BY <1>4, <2>1, <2>3 DEF AskNext, OverviewSame, QuestionsOK
    <2>4. CASE AskSeries(q)
      BY <1>4, <2>1, <2>4 DEF AskSeries, OverviewSame, QuestionsOK
    <2>5. CASE buildDailySeries(q)
      BY <1>4, <2>1, <2>5 DEF buildDailySeries, OverviewSame, QuestionsOK
    <2> QED BY <1>4, <2>2, <2>3, <2>4, <2>5 DEF OverviewStep
  <1>5. \/ UNCHANGED <<requestVars, queryVars>> \/ Elsewhere
        \/ \E q \in Reqs : AskNextPage(q) \/ Count(q) \/ Select(q) \/ Respond(q)
        \/ UNCHANGED storeVars /\ \E q \in Reqs : OverviewStep(q)
    BY DEF Next, vars, Step, OverviewStep
  <1> QED BY <1>1, <1>2, <1>3, <1>4, <1>5

(* The clock goes on.                                                      *)
LEMMA ClockGoesOn ==
  ASSUME StoreInv, [Next]_vars
  PROVE  now \in Nat /\ now' \in Nat /\ now <= now'
  <1>1. ASSUME Statement PROVE now' = now
    BY <1>1 DEF Statement, CreateLogSource, DeleteLogSource, CreateRule, UpdateRule,
                DeleteRule, UpdateAlertStatus, InsertEvent, RaiseAlert
  <1>2. now' \in {now, now + 1}
    BY <1>1 DEF Next, vars, storeVars, Write, Tick
  <1> QED BY <1>2 DEF StoreInv

LEMMA WindowMoves ==
  ASSUME NEW s \in Nat, NEW t \in Nat, s <= t, NEW row, NEW other,
         row.at \in Nat, other.at = row.at, InWindow(other, t)
  PROVE  InWindow(row, s)
  <1> DEFINE window == Days * DayLength
  <1>1. window \in Nat
    BY SiemAssumption, Times
  <1>2. other.at + window > t
    BY DEF InWindow
  <1> HIDE DEF window
  <1>3. row.at + window > s
    BY <1>1, <1>2
  <1> QED BY <1>3 DEF InWindow, window

(* Rows stay, with what the lists and the overview tell of them.           *)
SameEvent(e, f) ==
  f.id = e.id /\ f.at = e.at /\ f.level = e.level /\ f.about = e.about /\ f.agent = e.agent
SameAlert(a, b) ==
  b.id = a.id /\ b.at = a.at /\ b.severity = a.severity /\ b.technique = a.technique

LEMMA RowsStay ==
  ASSUME StoreInv, [Next]_vars
  PROVE  /\ \A e \in events : \E f \in events' : SameEvent(e, f)
         /\ \A a \in alerts : \E b \in alerts' : SameAlert(a, b)
         /\ IdsAreUnique(events) /\ IdsAreUnique(alerts)
         /\ IdsAreUnique(events') /\ IdsAreUnique(alerts')
  <1>1. StoreInv' /\ Kept
    BY StoreInvNext
  <1>2. ASSUME NEW e \in events
        PROVE  \E f \in events' : SameEvent(e, f)
    <2>1. PICK f \in events' : EventKept(e, f)
      BY <1>1 DEF Kept
    <2> QED BY <2>1 DEF EventKept, IsEvent, StoreInv, EventsInv, SameEvent
  <1>3. ASSUME NEW a \in alerts PROVE \E b \in alerts' : SameAlert(a, b)
    <2>1. PICK b \in alerts' : AlertKept(a, b)
      BY <1>1 DEF Kept
    <2> QED BY <2>1 DEF AlertKept, IsAlert, StoreInv, AlertsInv, SameAlert
  <1> QED BY <1>1, <1>2, <1>3 DEF StoreInv, EventsInv, AlertsInv, Numbered, IdsAreUnique

LEMMA IdsStay ==
  ASSUME StoreInv, [Next]_vars
  PROVE  Ids(events) \subseteq Ids(events') /\ Ids(alerts) \subseteq Ids(alerts')
  <1>1. /\ \A e \in events : \E f \in events' : f.id = e.id
        /\ \A a \in alerts : \E b \in alerts' : b.id = a.id
    BY RowsStay DEF SameEvent, SameAlert
  <1> QED BY <1>1 DEF Ids
-----------------------------------------------------------------------------
(* The made-up numbers.  An overview that has counted no event in the      *)
(* window goes on without one of those that were there when it arrived:    *)
(* none of them comes back into the window.                                *)
NoneRecent(r) == \A e \in events : e.id \in known[r].events => ~InWindow(e, now)

MockOf(r) ==
  /\ known[r].events \subseteq Ids(events) /\ known[r].alerts \subseteq Ids(alerts)
  /\ pc[r] = "new" => totalEvents[r] = "some" /\ missed[r] = {}
  /\ totalEvents[r] = "none" => NoneRecent(r)
MockInv == QuestionsOK /\ \A r \in Reqs : MockOf(r)

(* An event that is known, and has left the window, does not come back.    *)
LEMMA NoneBecomesRecent ==
  ASSUME StoreInv, TimesInv, [Next]_vars, NEW ids \in SUBSET Ids(events),
         \A e \in events : e.id \in ids => ~InWindow(e, now),
         NEW f \in events', f.id \in ids
  PROVE  ~InWindow(f, now')
  <1>1. PICK e \in events : e.id = f.id
    BY DEF Ids
  <1>2. PICK g \in events' : SameEvent(e, g)
    BY RowsStay
  <1>3. g = f
    BY <1>1, <1>2, RowsStay DEF SameEvent, IdsAreUnique
  <1>4. e.at \in Nat /\ f.at = e.at /\ ~InWindow(e, now)
    BY <1>1, <1>2, <1>3 DEF TimesInv, SameEvent
  <1> QED BY <1>4, ClockGoesOn, WindowMoves

(* The first question finds nothing only if there is nothing to find.      *)
LEMMA FirstQuestion ==
  ASSUME NEW r \in Reqs, asked[r] = 0, {} \in Answers(Questions[asked[r] + 1])
  PROVE  \A e \in events : ~InWindow(e, now)
  <1>1. Questions[asked[r] + 1] = "TotalEvents"
    BY DEF Questions
  <1>2. About("TotalEvents") = events /\ "TotalEvents" \notin DOMAIN Top
    BY SiemAssumption DEF About
  <1> QED BY <1>1, <1>2 DEF Answers

LEMMA MockOfNext ==
  ASSUME TypeInv, TimesInv, QuestionsOK, [Next]_vars, NEW r \in Reqs, MockOf(r)
  PROVE  MockOf(r)'
  <1>1. Ids(events)' = Ids(events') /\ Ids(alerts)' = Ids(alerts')
    BY DEF Ids
  <1>2. ASSUME known'[r] = known[r], totalEvents'[r] = totalEvents[r],
               pc'[r] = "new" => pc[r] = "new" /\ missed'[r] = missed[r]
        PROVE  MockOf(r)'
    <2>1. known[r].events \subseteq Ids(events') /\ known[r].alerts \subseteq Ids(alerts')
      BY IdsStay DEF MockOf, TypeInv
    <2>2. ASSUME totalEvents[r] = "none"
          PROVE  \A f \in events' : f.id \in known[r].events => ~InWindow(f, now')
      BY <2>2, NoneBecomesRecent DEF MockOf, NoneRecent, TypeInv
    <2> QED BY <1>1, <1>2, <2>1, <2>2 DEF MockOf, NoneRecent, InWindow
  <1>3. ASSUME UNCHANGED storeVars, NEW j \in Jobs, Arrive(r, j) PROVE MockOf(r)'
    <2>1. /\ pc[r] = "new" /\ totalEvents' = totalEvents /\ pc'[r] # "new"
          /\ known'[r].events = Ids(events) /\ known'[r].alerts = Ids(alerts)
          /\ events' = events /\ alerts' = alerts
      BY <1>3 DEF Arrive, Arrives, Goto, TypeInv, RequestsInv, QuestionsOK, storeVars, overviewVars
    <2> QED BY <1>1, <2>1 DEF MockOf
  <1>4. ASSUME UNCHANGED storeVars, AskNext(r) PROVE MockOf(r)'
    <2>1. /\ known' = known /\ events' = events /\ alerts' = alerts /\ now' = now
          /\ pc' = pc /\ pc[r] = "ask"
      BY <1>4 DEF AskNext, storeVars
    <2>2. CASE asked[r] # 0
      <3>1. totalEvents' = totalEvents
        BY <1>4, <2>2 DEF AskNext
      <3> QED BY <1>2, <2>1, <3>1
    <2>3. CASE asked[r] = 0
      <3>1. ASSUME totalEvents'[r] = "none" PROVE \A e \in events : ~InWindow(e, now)
        <4>1. \/ \E answer \in Answers(Questions[asked[r] + 1]) :
                   totalEvents' = [totalEvents EXCEPT ![r] = IF answer = {} THEN "none" ELSE "some"]
              \/ totalEvents' = [totalEvents EXCEPT ![r] = "error"]
          BY <1>4, <2>3 DEF AskNext
        <4>2. {} \in Answers(Questions[asked[r] + 1])
          BY <3>1, <4>1 DEF QuestionsOK
        <4> QED BY <2>3, <4>2, FirstQuestion
      <3> QED BY <1>1, <2>1, <3>1 DEF MockOf, NoneRecent, InWindow
    <2> QED BY <2>2, <2>3
  <1>5. ASSUME AskSeries(r) \/ buildDailySeries(r) PROVE MockOf(r)'
    <2>1. known' = known /\ totalEvents' = totalEvents /\ pc'[r] # "new"
      BY <1>5 DEF AskSeries, buildDailySeries, Goto, TypeInv, RequestsInv
    <2> QED BY <1>2, <2>1
  <1>6. CASE OverviewSame(r)
    BY <1>2, <1>6 DEF OverviewSame
  <1> QED BY <1>3, <1>4, <1>5, <1>6, OverviewCases DEF OverviewStep

LEMMA MockInvAlways == Spec => []MockInv
  <1>1. Init => MockInv
    BY DEF Init, QueryInit, MockInv, QuestionsOK, MockOf
  <1>2. TypeInv /\ TimesInv /\ MockInv /\ [Next]_vars => MockInv'
    BY QuestionsOKNext, MockOfNext DEF MockInv
  <1> QED BY <1>1, <1>2, TypeInvAlways, TimesInvAlways, PTL DEF Spec

(* Made-up numbers are shown only for a system that has had no event in    *)
(* the window since the overview was asked for, unless the first of the    *)
(* questions failed: it does not matter whether the others did.            *)
THEOREM MockMeansEmpty == Spec => []MockOnlyWithoutEvents
  <1>1. MockInv => MockOnlyWithoutEvents
    BY DEF MockInv, MockOf, NoneRecent, MockOnlyWithoutEvents
  <1> QED BY <1>1, MockInvAlways, PTL
-----------------------------------------------------------------------------
(* The days of a series.  A turn of the loop reads the clock: what it adds *)
(* is no earlier than the day after the last one, and what lies between    *)
(* has been passed over.                                                   *)
Covered(day, days) == (\E k \in 1 .. Len(days) : days[k] = day) \/ PassedOver(day, days)

DaysOK(days, today) ==
  Len(days) > 0 =>
    /\ days[1] + Days <= today + 1
    /\ days[Len(days)] + Days <= today + Len(days)
    /\ \A day \in Int : days[1] <= day /\ day <= days[Len(days)] => Covered(day, days)

LEMMA PassedOverStays ==
  ASSUME NEW days \in Seq(Int), NEW x \in Int, NEW day \in Int, PassedOver(day, days)
  PROVE  PassedOver(day, Append(days, x))
  <1>1. PICK k \in 1 .. Len(days) - 1 : days[k] < day /\ day < days[k + 1]
    BY DEF PassedOver
  <1>2. Len(days) \in Nat /\ Len(Append(days, x)) = Len(days) + 1
    OBVIOUS
  <1>3. k \in 1 .. Len(Append(days, x)) - 1 /\ k \in 1 .. Len(days) /\ k + 1 \in 1 .. Len(days)
    BY <1>2
  <1>4. Append(days, x)[k] = days[k] /\ Append(days, x)[k + 1] = days[k + 1]
    BY <1>3
  <1> QED BY <1>1, <1>3, <1>4 DEF PassedOver

LEMMA CoveredStays ==
  ASSUME NEW days \in Seq(Int), NEW x \in Int, NEW day \in Int, Covered(day, days)
  PROVE  Covered(day, Append(days, x))
  <1>1. ASSUME NEW k \in 1 .. Len(days), days[k] = day PROVE Covered(day, Append(days, x))
    <2>1. k \in 1 .. Len(Append(days, x)) /\ Append(days, x)[k] = day
      BY <1>1
    <2> QED BY <2>1 DEF Covered
  <1> QED BY <1>1, PassedOverStays DEF Covered

LEMMA DaysGoOn ==
  ASSUME NEW days \in Seq(Int), NEW today \in Int, Len(days) < Days, DaysOK(days, today),
         NEW x, x = today - (Days - 1 - Len(days))
  PROVE  DaysOK(Append(days, x), today)
  <1> DEFINE n == Len(days)
             next == Append(days, x)
  <1>1. n \in Nat /\ Days \in Nat /\ x \in Int
    BY SiemAssumption
  <1>2. /\ next \in Seq(Int) /\ Len(next) = n + 1 /\ next[n + 1] = x
        /\ \A k \in 1 .. n : next[k] = days[k] /\ days[k] \in Int
    BY <1>1
  <1>3. x + Days = today + (n + 1)
    BY <1>1
  <1>4. CASE n = 0
    <2>1. Len(next) = 1 /\ next[1] = x /\ x + Days = today + 1
      BY <1>1, <1>2, <1>3, <1>4
    <2>2. ASSUME NEW day \in Int, x <= day, day <= x PROVE Covered(day, next)
      <3>1. 1 \in 1 .. Len(next) /\ next[1] = day
        BY <1>1, <2>1, <2>2
      <3> QED BY <3>1 DEF Covered
    <2> HIDE DEF next, n
    <2>3. DaysOK(next, today)
      BY <1>1, <2>1, <2>2 DEF DaysOK
    <2> QED BY <2>3 DEF next
  <1>5. CASE n > 0
    <2>1. /\ days[1] + Days <= today + 1 /\ days[n] + Days <= today + n
          /\ \A day \in Int : days[1] <= day /\ day <= days[n] => Covered(day, days)
      BY <1>5 DEF DaysOK
    <2>2. next[1] = days[1] /\ next[n] = days[n] /\ days[1] \in Int /\ days[n] \in Int
      BY <1>1, <1>2, <1>5
    <2>3. ASSUME NEW day \in Int, days[1] <= day, day <= x PROVE Covered(day, next)
      <3>1. CASE day <= days[n]
        BY <1>1, <2>1, <2>3, <3>1, CoveredStays
      <3>2. CASE day = x
        <4>1. n + 1 \in 1 .. Len(next)
          BY <1>1, <1>2
        <4> QED BY <1>2, <3>2, <4>1 DEF Covered
      <3>3. CASE days[n] < day /\ day < x
        <4>1. n \in 1 .. Len(next) - 1
          BY <1>1, <1>2, <1>5
        <4>2. next[n] < day /\ day < next[n + 1]
          BY <1>2, <2>2, <3>3
        <4> HIDE DEF next, n
        <4> QED BY <4>1, <4>2 DEF Covered, PassedOver
      <3> QED BY <1>1, <2>2, <2>3, <3>1, <3>2, <3>3
    <2> HIDE DEF next, n
    <2>4. DaysOK(next, today)
      BY <1>1, <1>2, <1>3, <2>1, <2>2, <2>3 DEF DaysOK
    <2> QED BY <2>4 DEF next
  <1> QED BY <1>1, <1>4, <1>5

LEMMA DaysStayOK ==
  ASSUME NEW days \in Seq(Int), NEW today \in Int, NEW later \in Int, today <= later,
         DaysOK(days, today)
  PROVE  DaysOK(days, later)
  <1>1. SUFFICES ASSUME Len(days) > 0
                 PROVE  /\ days[1] + Days <= later + 1
                        /\ days[Len(days)] + Days <= later + Len(days)
    BY DEF DaysOK
  <1>2. days[1] + Days <= today + 1 /\ days[Len(days)] + Days <= today + Len(days)
    BY <1>1 DEF DaysOK
  <1>3. days[1] \in Int /\ days[Len(days)] \in Int /\ Len(days) \in Nat /\ Days \in Nat
    BY <1>1, SiemAssumption
  <1> QED BY <1>2, <1>3

(* When the loop has ended every one of the last days is there, or has     *)
(* been passed over.                                                       *)
LEMMA DaysAtEnd ==
  ASSUME NEW days \in Seq(Int), NEW today \in Int, Len(days) + 1 = Days, DaysOK(days, today),
         NEW day \in Int, day <= today, day + Days > today
  PROVE  Covered(day, Append(days, today))
  <1> DEFINE next == Append(days, today)
  <1>1. Len(days) \in Nat /\ Days \in Nat /\ today = today - (Days - 1 - Len(days))
    BY SiemAssumption
  <1>2. DaysOK(next, today)
    BY <1>1, DaysGoOn
  <1>3. Len(next) > 0 /\ next[Len(next)] = today /\ next[1] \in Int
    BY <1>1
  <1> HIDE DEF next
  <1>4. next[1] + Days <= today + 1
    BY <1>2, <1>3 DEF DaysOK
  <1>5. next[1] <= day
    BY <1>1, <1>3, <1>4
  <1>6. Covered(day, next)
    BY <1>2, <1>3, <1>5 DEF DaysOK
  <1> QED BY <1>6 DEF next
-----------------------------------------------------------------------------
(* The loop of a series: it begins with nothing, and while it runs, what   *)
(* the client may ask for has been counted.                                *)
SeriesIdle(r) ==
  pc[r] \in {"new", "ask", "label"} =>
    \A i \in 1 .. 8 :
      Questions[i] \in Series /\ (i > asked[r] + 1 \/ (i = asked[r] + 1 /\ pc[r] # "label"))
      => series[r][Questions[i]] = <<>>

CountedOf(r) ==
  \A e \in events : e.id \in known[r].events /\ InWindow(e, now) => e.id \in counted[r]

InLoop(r, question) ==
  /\ asked[r] + 1 \in 1 .. 8 /\ question \in Series
  /\ Len(series[r][question]) < Days /\ DaysOK(series[r][question], Day(now))
  /\ r \in troubled \/ CountedOf(r)
LoopOf(r) == SeriesIdle(r) /\ (pc[r] = "label" => InLoop(r, Questions[asked[r] + 1]))

(* One turn of the loop, which is about one question.                      *)
AskedNow(r) == Questions[asked[r] + 1]
TurnDay(days) == Day(now) - (Days - 1 - Len(days))
EndsSeries(r, question, days) ==
  /\ pc'[r] = "ask" /\ asked'[r] = asked[r] + 1
  /\ missed'[r] = missed[r] \cup ({question} \X Ids(Missing(r, question, Ids(Shown(r, days)))))

Turn(r, question, old, day) ==
  /\ asked[r] + 1 \in 1 .. 8 /\ question \in Series
  /\ old \in Seq(Int) /\ Day(now) \in Nat
  /\ Len(old) < Days /\ DaysOK(old, Day(now))
  /\ r \in troubled \/ CountedOf(r)
  /\ series'[r][question] = Append(old, day) /\ day \in Int
  /\ \A other \in Series \ {question} : series'[r][other] = series[r][other]
  /\ \/ /\ Len(old) + 1 = Days /\ day = Day(now)
        /\ EndsSeries(r, question, Append(old, day))
     \/ Len(old) + 1 < Days /\ UNCHANGED <<pc, asked, counted, missed>>

LEMMA OneTurn ==
  ASSUME TypeInv, QuestionsOK, NEW r \in Reqs, LoopOf(r), buildDailySeries(r)
  PROVE  Turn(r, AskedNow(r), series[r][AskedNow(r)], TurnDay(series[r][AskedNow(r)]))
  <1>1. PICK question : question = AskedNow(r)
    OBVIOUS
  <1>2. PICK old : old = series[r][question]
    OBVIOUS
  <1>3. PICK day : day = TurnDay(old)
    OBVIOUS
  <1> DEFINE n == Len(old)
             i == Days - 1 - n
             days == Append(old, day)
  <1>4. InLoop(r, question)
    BY <1>1 DEF LoopOf, buildDailySeries, AskedNow
  <1>5. series[r] \in [Series -> Seq(Int)] /\ question \in Series
    BY <1>4 DEF QuestionsOK, InLoop
  <1>6. old \in Seq(Int) /\ Days \in Nat /\ Day(now) \in Nat
    BY <1>5, <1>2, DayIsNat, SiemAssumption DEF TypeInv, StoreInv
  <1>7. n \in Nat
    BY <1>6
  <1>8. day = Day(now) - i
    BY <1>3 DEF TurnDay
  <1>9. series' = [series EXCEPT ![r][question] = days]
    BY <1>1, <1>2, <1>8 DEF buildDailySeries, AskedNow
  <1>10. IF i = LastTurn
           THEN /\ Goto(r, "ask") /\ asked' = [asked EXCEPT ![r] = @ + 1]
                /\ missed' = [missed EXCEPT ![r] = @ \cup
                     ({question} \X Ids(Missing(r, question, Ids(Shown(r, days)))))]
           ELSE UNCHANGED <<pc, asked, counted, missed>>
    BY <1>1, <1>2, <1>8 DEF buildDailySeries, AskedNow
  <1>11. /\ series'[r][question] = days
        /\ \A other \in Series \ {question} : series'[r][other] = series[r][other]
    <2>1. series'[r] = [series[r] EXCEPT ![question] = days]
      BY <1>9 DEF QuestionsOK
    <2> QED BY <1>5, <1>2, <2>1
  <1>12. n < Days /\ DaysOK(old, Day(now)) /\ (r \in troubled \/ CountedOf(r))
        /\ asked[r] + 1 \in 1 .. 8
    BY <1>4, <1>2 DEF InLoop
  <1> HIDE DEF n
  <1>13. day \in Int
    BY <1>6, <1>7, <1>8
  <1>14. ASSUME i = 0 PROVE Turn(r, question, old, day)
    <2>1. EndsSeries(r, question, days)
      BY <1>10, <1>14 DEF LastTurn, EndsSeries, Goto, TypeInv, RequestsInv, QuestionsOK
    <2>2. n + 1 = Days /\ day = Day(now)
      BY <1>6, <1>7, <1>8, <1>14
    <2> QED BY <1>5, <1>6, <1>11, <1>12, <1>13, <2>1, <2>2 DEF n, Turn
  <1>15. ASSUME i # 0 PROVE Turn(r, question, old, day)
    <2>1. UNCHANGED <<pc, asked, counted, missed>>
      BY <1>10, <1>15 DEF LastTurn
    <2>2. n + 1 < Days
      BY <1>6, <1>7, <1>12, <1>15
    <2> QED BY <1>5, <1>6, <1>11, <1>12, <1>13, <2>1, <2>2 DEF n, Turn
  <1>16. Turn(r, question, old, day)
    BY <1>14, <1>15
  <1> QED BY <1>1, <1>2, <1>3, <1>16

LEMMA CountedStays ==
  ASSUME TypeInv, TimesInv, [Next]_vars, NEW r \in Reqs, MockOf(r), CountedOf(r),
         known'[r] = known[r], counted'[r] = counted[r]
  PROVE  CountedOf(r)'
  <1> SUFFICES ASSUME NEW f \in events', f.id \in known[r].events, InWindow(f, now')
               PROVE  f.id \in counted[r]
    BY DEF CountedOf, InWindow
  <1>1. PICK e \in events : e.id = f.id
    BY DEF MockOf, Ids
  <1>2. PICK g \in events' : SameEvent(e, g)
    BY RowsStay DEF TypeInv
  <1>3. g = f
    BY <1>1, <1>2, RowsStay DEF SameEvent, IdsAreUnique, TypeInv
  <1>4. InWindow(e, now)
    <2>1. e.at \in Nat /\ f.at = e.at
      BY <1>2, <1>3 DEF SameEvent, TimesInv
    <2> QED BY <2>1, ClockGoesOn, WindowMoves DEF TypeInv
  <1> QED BY <1>1, <1>4 DEF CountedOf

LEMMA LoopStays ==
  ASSUME TypeInv, TimesInv, QuestionsOK, [Next]_vars, NEW r \in Reqs, MockOf(r), LoopOf(r),
         OverviewSame(r)
  PROVE  LoopOf(r)'
  <1>1. SeriesIdle(r)'
    BY DEF SeriesIdle, LoopOf, OverviewSame
  <1>2. ASSUME pc'[r] = "label" PROVE InLoop(r, Questions[asked[r] + 1])'
    <2>1. PICK question : question = Questions[asked[r] + 1]
      OBVIOUS
    <2>2. InLoop(r, question)
      BY <1>2, <2>1 DEF LoopOf, OverviewSame
    <2>3. series[r][question] \in Seq(Int)
      BY <2>2 DEF InLoop, QuestionsOK
    <2>4. DaysOK(series[r][question], Day(now'))
      <3>1. Day(now) \in Nat /\ Day(now') \in Nat /\ Day(now) <= Day(now')
        BY ClockGoesOn, LaterDay DEF TypeInv
      <3> QED BY <2>2, <2>3, <3>1, DaysStayOK DEF InLoop
    <2>5. r \in troubled' \/ CountedOf(r)'
      BY <2>2, TroubleStays, CountedStays DEF InLoop, OverviewSame, TypeInv
    <2>6. DaysOK(series[r][question], Day(now))' = DaysOK(series'[r][question], Day(now'))
      BY DEF DaysOK, Covered, PassedOver, Day
    <2> QED BY <2>1, <2>2, <2>4, <2>5, <2>6 DEF InLoop, OverviewSame
  <1> QED BY <1>1, <1>2 DEF LoopOf

LEMMA AskSeriesLoop ==
  ASSUME TypeInv, QuestionsOK, NEW r \in Reqs, LoopOf(r), UNCHANGED storeVars, AskSeries(r)
  PROVE  LoopOf(r)'
  <1>1. /\ pc[r] = "ask" /\ asked[r] < Len(Questions) /\ UNCHANGED <<asked, series, known>>
        /\ Goto(r, "label")
    BY DEF AskSeries
  <1>2. pc'[r] = "label" /\ asked[r] \in Nat /\ asked[r] + 1 \in 1 .. 8
    BY <1>1, QuestionsDiffer DEF Goto, TypeInv, RequestsInv, QuestionsOK
  <1>3. PICK question : question = Questions[asked[r] + 1]
    OBVIOUS
  <1>4. question \in Series
    BY <1>3 DEF AskSeries
  <1>5. series[r][question] = <<>>
    BY <1>1, <1>2, <1>3, <1>4 DEF LoopOf, SeriesIdle
  <1>6. Len(series[r][question]) < Days /\ DaysOK(series[r][question], Day(now))
    BY <1>5, SiemAssumption DEF DaysOK
  <1>7. r \in troubled' \/ CountedOf(r)'
    <2>1. CASE InTrouble(r)
      BY <2>1 DEF InTrouble
    <2>2. CASE ~InTrouble(r)
      <3>1. PICK answer \in Answers(question) : counted' = [counted EXCEPT ![r] = Ids(answer)]
        BY <1>3, <2>2 DEF AskSeries
      <3>2. counted'[r] = Ids(answer)
        BY <3>1 DEF QuestionsOK
      <3>3. About(question) = events /\ question \notin DOMAIN Top
        BY <1>4, SiemAssumption DEF Series, About
      <3>4. answer = {row \in events : InWindow(row, now)}
        BY <3>1, <3>3 DEF Answers
      <3>5. \A e \in events : InWindow(e, now) => e.id \in counted'[r]
        BY <3>2, <3>4 DEF Ids
      <3> QED BY <3>5 DEF CountedOf, InWindow, storeVars
    <2> QED BY <2>1, <2>2
  <1>8. SeriesIdle(r)'
    BY <1>1, <1>2 DEF LoopOf, SeriesIdle
  <1>9. DaysOK(series[r][question], Day(now))' = DaysOK(series'[r][question], Day(now'))
    BY DEF DaysOK, Covered, PassedOver, Day
  <1>10. now' = now
    BY DEF storeVars
  <1>11. InLoop(r, question)'
    BY <1>1, <1>2, <1>4, <1>6, <1>7, <1>9, <1>10 DEF InLoop
  <1> QED BY <1>1, <1>3, <1>8, <1>11 DEF LoopOf

LEMMA TurnLoop ==
  ASSUME TypeInv, QuestionsOK, NEW r \in Reqs, LoopOf(r), UNCHANGED storeVars,
         buildDailySeries(r)
  PROVE  LoopOf(r)'
  <1>1. PICK question : question = AskedNow(r)
    OBVIOUS
  <1>2. PICK old : old = series[r][question]
    OBVIOUS
  <1>3. PICK day : day = TurnDay(old)
    OBVIOUS
  <1>4. /\ asked[r] + 1 \in 1 .. 8 /\ question \in Series
        /\ old \in Seq(Int) /\ Day(now) \in Nat
        /\ Len(old) < Days /\ DaysOK(old, Day(now))
        /\ r \in troubled \/ CountedOf(r)
        /\ series'[r][question] = Append(old, day) /\ day \in Int
        /\ \A other \in Series \ {question} : series'[r][other] = series[r][other]
        /\ \/ pc'[r] = "ask" /\ asked'[r] = asked[r] + 1
           \/ Len(old) + 1 < Days /\ UNCHANGED <<pc, asked, counted, missed>>
    <2>1. Turn(r, question, old, day)
      BY <1>1, <1>2, <1>3, OneTurn
    <2> QED BY <2>1 DEF Turn, EndsSeries
  <1>5. pc[r] = "label" /\ UNCHANGED <<known, now, events, troubled>> /\ asked[r] \in Nat
    BY DEF buildDailySeries, storeVars, QuestionsOK
  <1>6. ASSUME NEW i \in 1 .. 8, Questions[i] \in Series, i > asked[r] + 1
        PROVE  series'[r][Questions[i]] = <<>>
    <2>1. Questions[i] # question
      <3>1. PICK k : k = asked[r] + 1
        OBVIOUS
      <3>2. k \in 1 .. 8
        BY <1>4, <3>1
      <3>3. i # k
        BY <1>5, <1>6, <3>1
      <3>4. question = Questions[k]
        BY <1>1, <3>1 DEF AskedNow
      <3>5. Questions[i] # Questions[k]
        BY <1>6, <3>2, <3>3, QuestionsDiffer
      <3> QED BY <3>4, <3>5
    <2>2. series[r][Questions[i]] = <<>>
      BY <1>5, <1>6 DEF LoopOf, SeriesIdle
    <2> QED BY <1>4, <1>6, <2>1, <2>2
  <1>7. CASE pc'[r] = "ask" /\ asked'[r] = asked[r] + 1
    <2>1. SeriesIdle(r)'
      BY <1>5, <1>6, <1>7 DEF SeriesIdle
    <2> QED BY <1>7, <2>1 DEF LoopOf
  <1>8. CASE Len(old) + 1 < Days /\ UNCHANGED <<pc, asked, counted, missed>>
    <2>1. SeriesIdle(r)'
      BY <1>5, <1>6, <1>8 DEF SeriesIdle
    <2>2. Len(Append(old, day)) = Len(old) + 1
      BY <1>4
    <2>3. DaysOK(Append(old, day), Day(now))
      BY <1>3, <1>4, DaysGoOn DEF TurnDay
    <2>4. DaysOK(series[r][question], Day(now))' = DaysOK(series'[r][question], Day(now'))
      BY DEF DaysOK, Covered, PassedOver, Day
    <2>5. r \in troubled' \/ CountedOf(r)'
      BY <1>4, <1>5, <1>8 DEF CountedOf, InWindow
    <2>6. InLoop(r, question)'
      BY <1>4, <1>5, <1>8, <2>2, <2>3, <2>4, <2>5 DEF InLoop
    <2> QED BY <1>1, <1>8, <2>1, <2>6 DEF LoopOf, AskedNow
  <1> QED BY <1>4, <1>7, <1>8

LEMMA LoopOfNext ==
  ASSUME TypeInv, TimesInv, QuestionsOK, [Next]_vars, NEW r \in Reqs, MockOf(r), LoopOf(r)
  PROVE  LoopOf(r)'
  <1>1. CASE OverviewSame(r)
    BY <1>1, LoopStays
  <1>2. ASSUME NEW j \in Jobs, Arrive(r, j) PROVE LoopOf(r)'
    <2>1. /\ pc[r] = "new" /\ pc'[r] \in {"ask", "count"} /\ UNCHANGED <<asked, series>>
      BY <1>2 DEF Arrive, Arrives, Goto, TypeInv, RequestsInv, overviewVars
    <2> QED BY <2>1 DEF LoopOf, SeriesIdle
  <1>3. CASE AskNext(r)
    <2>1. /\ pc[r] = "ask" /\ UNCHANGED <<pc, series>> /\ asked[r] \in Nat
          /\ asked'[r] = asked[r] + 1
      BY <1>3 DEF AskNext, QuestionsOK
    <2>2. SeriesIdle(r)'
      <3> SUFFICES ASSUME NEW i \in 1 .. 8, Questions[i] \in Series, i > asked[r] + 1
                   PROVE  series'[r][Questions[i]] = <<>>
        BY <2>1 DEF SeriesIdle
      <3> QED BY <2>1 DEF LoopOf, SeriesIdle
    <2> QED BY <2>1, <2>2 DEF LoopOf
  <1> QED BY <1>1, <1>2, <1>3, AskSeriesLoop, TurnLoop, OverviewCases DEF OverviewStep

LEMMA LoopAlways == Spec => [](\A r \in Reqs : LoopOf(r))
  <1> DEFINE Loops == \A r \in Reqs : LoopOf(r)
  <1>1. Init => Loops
    BY DEF Init, RequestsInit, QueryInit, LoopOf, SeriesIdle
  <1>2. TypeInv /\ TimesInv /\ MockInv /\ Loops /\ [Next]_vars => Loops'
    BY LoopOfNext DEF MockInv
  <1>3. Loops => \A r \in Reqs : LoopOf(r)
    OBVIOUS
  <1> HIDE DEF Loops
  <1> QED BY <1>1, <1>2, <1>3, TypeInvAlways, TimesInvAlways, MockInvAlways, PTL DEF Spec
-----------------------------------------------------------------------------
(* What an answer of the overview leaves out.                              *)
Of(question) == IF question \in {"CriticalAlerts", "mitreTechniques"} THEN alerts ELSE events
KnownIds(r, question) ==
  IF question \in {"CriticalAlerts", "mitreTechniques"} THEN known[r].alerts ELSE known[r].events

LEMMA AboutIsOf == \A question : About(question) \subseteq Of(question)
  BY DEF About, Of

LEMMA KnownRows ==
  ASSUME NEW r, NEW question
  PROVE  Known(r, question) = {row \in About(question) : row.id \in KnownIds(r, question)}
  BY DEF Known, KnownIds

AlertTimesInv == \A a \in alerts : a.at \in Nat

LEMMA AlertTimesNext == ASSUME StoreInv, AlertTimesInv, [Next]_vars PROVE AlertTimesInv'
  <1>1. \A a \in alerts : IsAlert(a)
    BY DEF StoreInv, AlertsInv
  <1>2. ASSUME NEW rule \in rules, DeleteRule(rule) PROVE AlertTimesInv'
    <2>1. \A a \in alerts : [a EXCEPT !.rule = IF @ = rule.id THEN Null ELSE @].at = a.at
      BY <1>1 DEF IsAlert
    <2> QED BY <1>2, <2>1 DEF DeleteRule, AlertTimesInv
  <1>3. ASSUME NEW alert \in alerts, NEW status \in Statuses, UpdateAlertStatus(alert, status)
        PROVE  AlertTimesInv'
    <2>1. [alert EXCEPT !.status = status].at = alert.at
      BY <1>1 DEF IsAlert
    <2> QED BY <1>3, <2>1 DEF UpdateAlertStatus, AlertTimesInv
  <1>4. ASSUME NEW rule \in rules, NEW event \in events, NEW kind \in AlertKinds,
               RaiseAlert(rule, event, kind)
        PROVE  AlertTimesInv'
    BY <1>4 DEF RaiseAlert, AlertTimesInv, StoreInv
  <1>5. CASE UNCHANGED alerts
    BY <1>5 DEF AlertTimesInv
  <1>6. \/ \E rule \in rules : DeleteRule(rule)
        \/ \E alert \in alerts, status \in Statuses : UpdateAlertStatus(alert, status)
        \/ \E rule \in rules, event \in events, kind \in AlertKinds :
             RaiseAlert(rule, event, kind)
        \/ UNCHANGED alerts
    BY DEF Next, vars, storeVars, Write, Tick, Statement, CreateLogSource, DeleteLogSource,
           CreateRule, UpdateRule, InsertEvent
  <1> QED BY <1>2, <1>3, <1>4, <1>5, <1>6

LEMMA RowsAreNumbered ==
  ASSUME StoreInv, NEW question
  PROVE  /\ IsFiniteSet(Of(question)) /\ IdsAreUnique(Of(question))
         /\ IsFiniteSet(About(question)) /\ IdsAreUnique(About(question))
  <1>1. IsFiniteSet(Of(question)) /\ IdsAreUnique(Of(question))
    BY DEF Of, StoreInv, EventsInv, AlertsInv, Numbered
  <1>2. About(question) \in SUBSET Of(question)
    BY AboutIsOf
  <1> QED BY <1>1, <1>2, FS_Subset DEF IdsAreUnique

(* Fewer rows have fewer ids, and no more groups than there are rows.      *)
LEMMA FewerIds ==
  ASSUME NEW rows, IsFiniteSet(rows), NEW ids, ids \subseteq Ids(rows)
  PROVE  /\ IsFiniteSet(ids)
         /\ Cardinality(ids) \in Nat /\ Cardinality(ids) <= Cardinality(Ids(rows))
         /\ Cardinality(Ids(rows)) \in Nat
  <1> DEFINE f == [row \in rows |-> row.id]
  <1>1. f \in Surjection(rows, Ids(rows))
    BY DEF Surjection, Ids
  <1> HIDE DEF f
  <1>2. IsFiniteSet(Ids(rows))
    BY <1>1, FS_Surjection
  <1> QED BY <1>2, FS_Subset, FS_CardinalityType

LEMMA FewGroups ==
  ASSUME NEW question, NEW rows, IsFiniteSet(rows)
  PROVE  IsFiniteSet({Group(question, row) : row \in rows})
  <1> DEFINE groups == {Group(question, row) : row \in rows}
             f == [row \in rows |-> Group(question, row)]
  <1>1. f \in Surjection(rows, groups)
    BY DEF Surjection
  <1> HIDE DEF f
  <1> QED BY <1>1, FS_Surjection

(* What a question is about stays so, in its group.                        *)
SameRow(question, row, new) ==
  /\ new.id = row.id /\ new.at = row.at
  /\ question \in DOMAIN Top => Group(question, new) = Group(question, row)

LEMMA AboutStays ==
  ASSUME StoreInv, [Next]_vars, NEW question
  PROVE  /\ \A row \in About(question) : \E new \in About(question)' : SameRow(question, row, new)
         /\ \A new \in About(question)' : new.id \in Ids(Of(question)) =>
              \E row \in About(question) : SameRow(question, row, new)
         /\ Ids(Of(question)) \subseteq Ids(Of(question))'
  <1>1. DOMAIN Top = {"mitreTechniques", "topAgents"}
    BY SiemAssumption
  <1>2. /\ \A e \in events : \E f \in events' : SameEvent(e, f)
        /\ \A a \in alerts : \E b \in alerts' : SameAlert(a, b)
        /\ IdsAreUnique(events') /\ IdsAreUnique(alerts')
    BY RowsStay
  <1>3. CASE question \in {"CriticalAlerts", "mitreTechniques"}
    <2>1. /\ Of(question) = alerts /\ Of(question)' = alerts'
          /\ About(question) \subseteq alerts /\ About(question)' \subseteq alerts'
      BY <1>3 DEF Of, About
    <2>2. ASSUME NEW a \in alerts, NEW b \in alerts', SameAlert(a, b)
          PROVE  /\ a \in About(question) <=> b \in About(question)'
                 /\ SameRow(question, a, b)
      BY <1>1, <1>3, <2>2 DEF About, SameAlert, SameRow, Group
    <2>3. ASSUME NEW b \in About(question)', b.id \in Ids(alerts)
          PROVE  \E a \in About(question) : SameRow(question, a, b)
      <3>1. PICK a \in alerts : a.id = b.id
        BY <2>3 DEF Ids
      <3>2. PICK c \in alerts' : SameAlert(a, c)
        BY <1>2
      <3>3. c = b
        BY <1>2, <2>1, <3>1, <3>2 DEF SameAlert, IdsAreUnique
      <3> QED BY <2>2, <3>2, <3>3
    <2>4. \A row \in About(question) : \E new \in About(question)' : SameRow(question, row, new)
      BY <1>2, <2>1, <2>2
    <2>5. Ids(Of(question)) \subseteq Ids(Of(question))'
      BY <2>1, IdsStay DEF Ids
    <2> QED BY <2>1, <2>3, <2>4, <2>5
  <1>4. CASE question \notin {"CriticalAlerts", "mitreTechniques"}
    <2>1. /\ Of(question) = events /\ Of(question)' = events'
          /\ About(question) \subseteq events /\ About(question)' \subseteq events'
      BY <1>4 DEF Of, About
    <2>2. ASSUME NEW e \in events, NEW f \in events', SameEvent(e, f)
          PROVE  /\ e \in About(question) <=> f \in About(question)'
                 /\ SameRow(question, e, f)
      BY <1>1, <1>4, <2>2 DEF About, SameEvent, SameRow, Group
    <2>3. ASSUME NEW f \in About(question)', f.id \in Ids(events)
          PROVE  \E e \in About(question) : SameRow(question, e, f)
      <3>1. PICK e \in events : e.id = f.id
        BY <2>3 DEF Ids
      <3>2. PICK g \in events' : SameEvent(e, g)
        BY <1>2
      <3>3. g = f
        BY <1>2, <2>1, <3>1, <3>2 DEF SameEvent, IdsAreUnique
      <3> QED BY <2>2, <3>2, <3>3
    <2>4. \A row \in About(question) : \E new \in About(question)' : SameRow(question, row, new)
      BY <1>2, <2>1, <2>2
    <2>5. Ids(Of(question)) \subseteq Ids(Of(question))'
      BY <2>1, IdsStay DEF Ids
    <2> QED BY <2>1, <2>3, <2>4, <2>5
  <1> QED BY <1>3, <1>4

LEMMA AboutTimes ==
  ASSUME StoreInv, TimesInv, AlertTimesInv, NEW question, NEW row \in About(question)
  PROVE  row.at \in Nat
  BY AboutIsOf DEF Of, TimesInv, AlertTimesInv

(* What has gone out of the window does not come back, so the groups that  *)
(* are not smaller than another one remain so.                             *)
LEMMA StillRecent ==
  ASSUME StoreInv, TimesInv, AlertTimesInv, [Next]_vars, NEW question,
         NEW row \in About(question), NEW new, SameRow(question, row, new), InWindow(new, now')
  PROVE  InWindow(row, now)
  BY AboutTimes, ClockGoesOn, WindowMoves DEF SameRow

LEMMA NotSmallerStays ==
  ASSUME StoreInv, StoreInv', TimesInv, AlertTimesInv, [Next]_vars, NEW r \in Reqs,
         NEW question \in DOMAIN Top, NEW g, known'[r] = known[r],
         KnownIds(r, question) \subseteq Ids(Of(question))
  PROVE  /\ NotSmaller(r, question, g) \subseteq NotSmaller(r, question, g)'
         /\ IsFiniteSet(NotSmaller(r, question, g)')
  <1> DEFINE rows == About(question)
             after == About(question)'
             Of2(some, h) == Ids(Members(question, some, h))
             old == Ids(Recent(r, question, g))
             new == Ids(Recent(r, question, g))'
  <1>1. /\ \A row \in rows : \E o \in after : SameRow(question, row, o)
        /\ \A o \in after : o.id \in Ids(Of(question)) =>
             \E row \in rows : SameRow(question, row, o)
    BY AboutStays
  <1>2. IsFiniteSet(rows) /\ IsFiniteSet(after)
    <2>1. after \in SUBSET events' \/ after \in SUBSET alerts'
      BY DEF About
    <2>2. IsFiniteSet(events') /\ IsFiniteSet(alerts')
      BY DEF StoreInv, EventsInv, AlertsInv, Numbered
    <2> QED BY <2>1, <2>2, RowsAreNumbered, FS_Subset
  <1>3. new \subseteq old
    <2> SUFFICES ASSUME NEW o \in after, Group(question, o) = g, InWindow(o, now'),
                        o.id \in KnownIds(r, question)
                 PROVE  o.id \in old
      BY DEF Recent, Members, Known, KnownIds, Ids, InWindow, Group
    <2>1. PICK row \in rows : SameRow(question, row, o)
      BY <1>1
    <2>2. InWindow(row, now)
      BY <2>1, StillRecent
    <2>3. row.id = o.id /\ Group(question, row) = g
      BY <2>1 DEF SameRow
    <2>4. row \in Recent(r, question, g)
      BY <2>2, <2>3, KnownRows DEF Recent, Members
    <2> QED BY <2>3, <2>4 DEF Ids
  <1>4. ASSUME NEW h PROVE Of2(rows, h) \subseteq Of2(after, h)
    BY <1>1 DEF Members, Ids, SameRow
  <1>5. ASSUME NEW some, IsFiniteSet(some), NEW h
        PROVE  Cardinality(Of2(some, h)) \in Nat /\ IsFiniteSet(Members(question, some, h))
    <2>1. Members(question, some, h) \in SUBSET some
      BY DEF Members
    <2>2. IsFiniteSet(Members(question, some, h))
      BY <1>5, <2>1, FS_Subset
    <2> QED BY <2>2, FewerIds
  <1>6. /\ Cardinality(old) \in Nat /\ Cardinality(new) \in Nat
        /\ Cardinality(new) <= Cardinality(old)
    <2>1. Recent(r, question, g) \in SUBSET rows
      BY DEF Recent, Members, Known
    <2>2. IsFiniteSet(Recent(r, question, g))
      BY <1>2, <2>1, FS_Subset
    <2> QED BY <1>3, <2>2, FewerIds
  <1>7. ASSUME NEW h \in NotSmaller(r, question, g) PROVE h \in NotSmaller(r, question, g)'
    <2>1. h # g /\ Cardinality(Of2(rows, h)) >= Cardinality(old)
      BY <1>7 DEF NotSmaller
    <2>2. PICK row \in rows : h = Group(question, row)
      BY <1>7 DEF NotSmaller
    <2>3. PICK o \in after : SameRow(question, row, o)
      BY <1>1
    <2>4. h = Group(question, o)
      BY <2>2, <2>3 DEF SameRow
    <2>5. /\ Cardinality(Of2(rows, h)) <= Cardinality(Of2(after, h))
          /\ Cardinality(Of2(rows, h)) \in Nat /\ Cardinality(Of2(after, h)) \in Nat
      BY <1>2, <1>4, <1>5, FewerIds
    <2>6. Cardinality(Of2(after, h)) >= Cardinality(new)
      <3> HIDE DEF Of2, old, new
      <3> QED BY <1>6, <2>1, <2>5
    <2>7. Cardinality(Of2(rows, h))' = Cardinality(Of2(after, h))
      BY DEF Ids, Members, Group
    <2> QED BY <2>1, <2>3, <2>4, <2>6, <2>7 DEF NotSmaller, Group
  <1>8. IsFiniteSet(NotSmaller(r, question, g)')
    <2>1. IsFiniteSet({Group(question, row) : row \in after})
      BY <1>2, FewGroups
    <2>2. NotSmaller(r, question, g)' \in SUBSET {Group(question, row) : row \in after}
      BY DEF NotSmaller, Group
    <2> QED BY <2>1, <2>2, FS_Subset
  <1> QED BY <1>7, <1>8
-----------------------------------------------------------------------------
LeftOut(r, question, id) ==
  /\ id \in Ids(Of(question))
  /\ \A row \in About(question) :
       row.id = id /\ InWindow(row, now) => MayBeMissed(r, question, row)
MissedOf(r) ==
  r \in troubled \/ \A p \in missed[r] : p = <<p[1], p[2]>> /\ LeftOut(r, p[1], p[2])

LEMMA KnownAreThere ==
  ASSUME NEW r, MockOf(r), NEW question
  PROVE  KnownIds(r, question) \subseteq Ids(Of(question))
  BY DEF MockOf, KnownIds, Of

LEMMA LeftOutStays ==
  ASSUME StoreInv, TimesInv, AlertTimesInv, [Next]_vars, NEW r \in Reqs, MockOf(r),
         NEW question, NEW id, LeftOut(r, question, id), known'[r] = known[r],
         \A day \in Int : question \in Series /\ PassedOver(day, series[r][question])
                            => PassedOver(day, series'[r][question])
  PROVE  LeftOut(r, question, id)'
  <1>1. StoreInv'
    BY StoreInvNext
  <1>2. id \in Ids(Of(question))'
    BY AboutStays DEF LeftOut
  <1>3. ASSUME NEW new \in About(question)', new.id = id, InWindow(new, now')
        PROVE  MayBeMissed(r, question, new)'
    <2>1. PICK row \in About(question) : SameRow(question, row, new)
      BY <1>3, AboutStays DEF LeftOut
    <2>2. InWindow(row, now) /\ row.id = id /\ new.at = row.at
      BY <1>3, <2>1, StillRecent DEF SameRow
    <2>3. MayBeMissed(r, question, row)
      BY <2>2 DEF LeftOut
    <2>4. CASE /\ question \in Series
               /\ OfLastDays(row) => PassedOver(Day(row.at), series[r][question])
      <3>1. /\ Day(row.at) \in Nat /\ Day(now) \in Nat /\ Day(now') \in Nat
            /\ Day(now) <= Day(now') /\ Days \in Nat
        BY AboutTimes, ClockGoesOn, LaterDay, DayIsNat, SiemAssumption
      <3>2. ASSUME Day(new.at) + Days > Day(now')
            PROVE  PassedOver(Day(new.at), series'[r][question])
        <4>1. Day(row.at) + Days > Day(now)
          BY <2>2, <3>1, <3>2
        <4> QED BY <2>2, <2>4, <3>1, <4>1 DEF OfLastDays
      <3>3. OfLastDays(new)' <=> Day(new.at) + Days > Day(now')
        BY DEF OfLastDays, Day
      <3>4. PassedOver(Day(new.at), series[r][question])'
              <=> PassedOver(Day(new.at), series'[r][question])
        BY DEF PassedOver, Day
      <3> QED BY <2>4, <3>2, <3>3, <3>4 DEF MayBeMissed
    <2>5. CASE /\ question \in DOMAIN Top
               /\ Cardinality(NotSmaller(r, question, Group(question, row))) >= Top[question]
      <3>1. PICK g : g = Group(question, row)
        OBVIOUS
      <3>2. Group(question, new) = g
        BY <2>1, <2>5, <3>1 DEF SameRow
      <3>3. /\ NotSmaller(r, question, g) \subseteq NotSmaller(r, question, g)'
            /\ IsFiniteSet(NotSmaller(r, question, g)')
        BY <1>1, <2>5, KnownAreThere, NotSmallerStays
      <3>4. /\ Cardinality(NotSmaller(r, question, g)) <= Cardinality(NotSmaller(r, question, g)')
            /\ Cardinality(NotSmaller(r, question, g)) \in Nat
            /\ Cardinality(NotSmaller(r, question, g)') \in Nat /\ Top[question] \in Nat
        BY <2>5, <3>3, FS_Subset, FS_CardinalityType, SiemAssumption
      <3>5. Cardinality(NotSmaller(r, question, g)') >= Top[question]
        BY <2>5, <3>1, <3>4
      <3>6. NotSmaller(r, question, Group(question, new))' = NotSmaller(r, question, g)'
        BY <3>2 DEF NotSmaller, Group, Recent, Members
      <3> QED BY <2>5, <3>5, <3>6 DEF MayBeMissed
    <2> QED BY <2>3, <2>4, <2>5 DEF MayBeMissed
  <1> QED BY <1>2, <1>3 DEF LeftOut, InWindow

(* A question that is answered by one statement leaves out what is not in  *)
(* the window, or the groups behind the LIMIT.                             *)
LEMMA AnswerLeaves ==
  ASSUME StoreInv, NEW r \in Reqs, NEW question, NEW answer \in Answers(question),
         NEW row \in About(question), row.id \notin Ids(answer), InWindow(row, now)
  PROVE  MayBeMissed(r, question, row)
  <1> DEFINE rows == {o \in About(question) : InWindow(o, now)}
             groups == {Group(question, o) : o \in rows}
             Of2(some, h) == Ids(Members(question, some, h))
  <1>1. row \in rows /\ row \notin answer
    BY DEF Ids
  <1>2. question \in DOMAIN Top
    BY <1>1 DEF Answers
  <1>3. PICK top \in Largest(question, rows) :
          answer = UNION {Members(question, rows, g) : g \in top}
    BY <1>2 DEF Answers
  <1>4. PICK g : g = Group(question, row)
    OBVIOUS
  <1>5. g \in groups /\ g \notin top
    <2>1. row \in Members(question, rows, g)
      BY <1>1, <1>4 DEF Members
    <2> QED BY <1>1, <1>3, <1>4, <2>1
  <1>6. /\ top \in SUBSET groups
        /\ Cardinality(top) = IF Top[question] < Cardinality(groups)
                              THEN Top[question] ELSE Cardinality(groups)
        /\ \A h \in top : Cardinality(Of2(rows, h)) >= Cardinality(Of2(rows, g))
    BY <1>3, <1>5 DEF Largest, kSubset
  <1>7. IsFiniteSet(About(question)) /\ IsFiniteSet(rows) /\ IsFiniteSet(groups)
    <2>1. rows \in SUBSET About(question)
      OBVIOUS
    <2>2. IsFiniteSet(About(question)) /\ IsFiniteSet(rows)
      BY <2>1, RowsAreNumbered, FS_Subset
    <2> QED BY <2>2, FewGroups
  <1>8. Cardinality(top) = Top[question]
    <2>1. Cardinality(top) # Cardinality(groups)
      BY <1>5, <1>6, <1>7, FS_Subset
    <2> QED BY <1>6, <2>1
  <1>9. ASSUME NEW h \in top PROVE h \in NotSmaller(r, question, g)
    <2>1. h # g /\ \E o \in About(question) : h = Group(question, o)
      BY <1>5, <1>6
    <2>2. /\ Of2(rows, h) \subseteq Of2(About(question), h)
          /\ Ids(Recent(r, question, g)) \subseteq Of2(rows, g)
      BY DEF Ids, Members, Recent, Known
    <2>3. IsFiniteSet(Members(question, About(question), h))
          /\ IsFiniteSet(Members(question, rows, g))
      <3>1. Members(question, About(question), h) \in SUBSET About(question)
            /\ Members(question, rows, g) \in SUBSET rows
        BY DEF Members
      <3> QED BY <1>7, <3>1, FS_Subset
    <2>4. /\ Cardinality(Of2(rows, h)) \in Nat
          /\ Cardinality(Of2(About(question), h)) \in Nat
          /\ Cardinality(Of2(rows, h)) <= Cardinality(Of2(About(question), h))
      BY <2>2, <2>3, FewerIds
    <2>5. /\ Cardinality(Ids(Recent(r, question, g))) \in Nat
          /\ Cardinality(Of2(rows, g)) \in Nat
          /\ Cardinality(Ids(Recent(r, question, g))) <= Cardinality(Of2(rows, g))
      BY <2>2, <2>3, FewerIds
    <2>6. Cardinality(Of2(rows, h)) >= Cardinality(Of2(rows, g))
      BY <1>6
    <2> HIDE DEF Of2
    <2>7. Cardinality(Of2(About(question), h)) >= Cardinality(Ids(Recent(r, question, g)))
      BY <2>4, <2>5, <2>6
    <2> QED BY <2>1, <2>7 DEF NotSmaller, Of2
  <1>10. IsFiniteSet(NotSmaller(r, question, g))
    <2>1. IsFiniteSet({Group(question, o) : o \in About(question)})
      BY <1>7, FewGroups
    <2>2. NotSmaller(r, question, g) \in SUBSET {Group(question, o) : o \in About(question)}
      BY DEF NotSmaller
    <2> QED BY <2>1, <2>2, FS_Subset
  <1>11. top \in SUBSET NotSmaller(r, question, g)
    BY <1>9
  <1>12. Cardinality(top) <= Cardinality(NotSmaller(r, question, g))
         /\ Cardinality(NotSmaller(r, question, g)) \in Nat /\ Top[question] \in Nat
    BY <1>2, <1>10, <1>11, FS_Subset, FS_CardinalityType, SiemAssumption
  <1> QED BY <1>2, <1>4, <1>8, <1>12 DEF MayBeMissed

(* A series leaves out what it passes over, when its loop ends.            *)
LEMMA SeriesLeaves ==
  ASSUME NEW r \in Reqs, NEW question \in Series, NEW old \in Seq(Int), Len(old) + 1 = Days,
         NEW days, days = Append(old, Day(now)), series'[r][question] = days,
         Day(now) \in Nat, DaysOK(old, Day(now)), CountedOf(r),
         NEW row \in Known(r, question), row.at \in Nat, now \in Nat, row.at <= now,
         row.id \notin Ids(Shown(r, days)), InWindow(row, now), OfLastDays(row)
  PROVE  PassedOver(Day(row.at), series'[r][question])
  <1>1. row \in events /\ row.id \in known[r].events
    BY DEF Known, About, Series
  <1>2. row.id \in counted[r]
    BY <1>1 DEF CountedOf
  <1>3. Day(row.at) \in Nat /\ Day(row.at) <= Day(now) /\ Day(row.at) + Days > Day(now)
    BY LaterDay DEF OfLastDays
  <1>4. Covered(Day(row.at), days)
    BY <1>3, DaysAtEnd
  <1>5. \A k \in 1 .. Len(days) : days[k] # Day(row.at)
    BY <1>1, <1>2 DEF Shown, Ids
  <1> QED BY <1>4, <1>5 DEF Covered
-----------------------------------------------------------------------------
LEMMA TurnMisses ==
  ASSUME TypeInv, TimesInv, AlertTimesInv, QuestionsOK, [Next]_vars, UNCHANGED storeVars,
         NEW r \in Reqs, MockOf(r), LoopOf(r), MissedOf(r), buildDailySeries(r)
  PROVE  MissedOf(r)'
  <1>1. PICK question : question = AskedNow(r)
    OBVIOUS
  <1>2. PICK old : old = series[r][question]
    OBVIOUS
  <1>3. PICK day : day = TurnDay(old)
    OBVIOUS
  <1>4. /\ question \in Series /\ old \in Seq(Int) /\ Day(now) \in Nat
        /\ DaysOK(old, Day(now)) /\ (r \in troubled \/ CountedOf(r))
        /\ series'[r][question] = Append(old, day) /\ day \in Int
        /\ \A other \in Series \ {question} : series'[r][other] = series[r][other]
        /\ \/ /\ Len(old) + 1 = Days /\ day = Day(now)
              /\ EndsSeries(r, question, Append(old, day))
           \/ missed' = missed
    <2>1. Turn(r, question, old, day)
      BY <1>1, <1>2, <1>3, OneTurn
    <2> QED BY <2>1 DEF Turn
  <1>5. troubled' = troubled /\ known' = known /\ now' = now
    BY DEF buildDailySeries, storeVars
  <1> SUFFICES ASSUME r \notin troubled PROVE MissedOf(r)'
    BY <1>5 DEF MissedOf
  <1>6. ASSUME NEW q, NEW id, LeftOut(r, q, id) PROVE LeftOut(r, q, id)'
    <2>1. \A d \in Int : q \in Series /\ PassedOver(d, series[r][q])
                           => PassedOver(d, series'[r][q])
      BY <1>2, <1>4, PassedOverStays
    <2> QED BY <1>5, <1>6, <2>1, LeftOutStays DEF TypeInv
  <1>7. CASE missed' = missed
    BY <1>6, <1>7 DEF MissedOf
  <1>8. CASE /\ Len(old) + 1 = Days /\ day = Day(now)
             /\ EndsSeries(r, question, Append(old, day))
    <2>1. PICK days : days = Append(old, Day(now))
      OBVIOUS
    <2> DEFINE left == Missing(r, question, Ids(Shown(r, days)))
    <2>2. series'[r][question] = days
      BY <1>4, <1>8, <2>1
    <2>3. missed'[r] = missed[r] \cup ({question} \X Ids(left))
      BY <1>8, <2>1 DEF EndsSeries
    <2>4. ASSUME NEW row \in left PROVE LeftOut(r, question, row.id)'
      <3>1. /\ row \in Known(r, question) /\ row \in About(question) /\ row.at <= now
            /\ row.id \notin Ids(Shown(r, days))
        BY <2>4 DEF Missing, Known
      <3>2. row.at \in Nat /\ now \in Nat /\ IdsAreUnique(About(question)) /\ row \in Of(question)
        BY <3>1, AboutTimes, AboutIsOf, RowsAreNumbered DEF TypeInv, StoreInv
      <3>3. InWindow(row, now) /\ OfLastDays(row) => PassedOver(Day(row.at), series'[r][question])
        BY <1>4, <1>8, <2>1, <2>2, <3>1, <3>2, SeriesLeaves
      <3>4. /\ About(question)' = About(question) /\ Ids(Of(question))' = Ids(Of(question))
        BY DEF About, Of, Ids, storeVars
      <3>5. ASSUME InWindow(row, now) PROVE MayBeMissed(r, question, row)'
        <4>1. OfLastDays(row)' <=> OfLastDays(row)
          BY <1>5 DEF OfLastDays, Day
        <4>2. PassedOver(Day(row.at), series[r][question])'
                <=> PassedOver(Day(row.at), series'[r][question])
          BY DEF PassedOver, Day
        <4> QED BY <1>4, <3>3, <3>5, <4>1, <4>2 DEF MayBeMissed
      <3>6. row.id \in Ids(Of(question))
        BY <3>2 DEF Ids
      <3>7. \A other \in About(question)' : other.id = row.id => other = row
        BY <3>1, <3>2, <3>4 DEF IdsAreUnique
      <3> QED BY <1>5, <3>4, <3>5, <3>6, <3>7 DEF LeftOut, InWindow
    <2> HIDE DEF left
    <2>5. ASSUME NEW p \in missed'[r] PROVE p = <<p[1], p[2]>> /\ LeftOut(r, p[1], p[2])'
      <3>1. CASE p \in missed[r]
        BY <1>6, <3>1 DEF MissedOf
      <3>2. CASE p \in {question} \X Ids(left)
        <4>1. PICK row \in left : p = <<question, row.id>>
          BY <3>2 DEF Ids
        <4> QED BY <2>4, <4>1
      <3> QED BY <2>3, <2>5, <3>1, <3>2
    <2> QED BY <2>5 DEF MissedOf
  <1> QED BY <1>4, <1>7, <1>8

LEMMA AskMisses ==
  ASSUME TypeInv, TimesInv, AlertTimesInv, QuestionsOK, [Next]_vars, UNCHANGED storeVars,
         NEW r \in Reqs, MockOf(r), MissedOf(r), AskNext(r)
  PROVE  MissedOf(r)'
  <1>1. PICK question : question = Questions[asked[r] + 1]
    OBVIOUS
  <1>2. known' = known /\ series' = series /\ troubled \subseteq troubled'
    BY TroubleStays DEF AskNext, TypeInv
  <1> SUFFICES ASSUME r \notin troubled' PROVE MissedOf(r)'
    BY DEF MissedOf
  <1>3. PICK answer \in Answers(question) :
          missed' = [missed EXCEPT ![r] =
                       @ \cup ({question} \X Ids(Missing(r, question, Ids(answer))))]
    BY <1>1 DEF AskNext, InTrouble
  <1> DEFINE left == Missing(r, question, Ids(answer))
  <1>4. missed'[r] = missed[r] \cup ({question} \X Ids(left))
    BY <1>3 DEF QuestionsOK
  <1>5. ASSUME NEW q, NEW id, LeftOut(r, q, id) PROVE LeftOut(r, q, id)'
    BY <1>2, <1>5, LeftOutStays DEF TypeInv
  <1>6. ASSUME NEW row \in left PROVE LeftOut(r, question, row.id)
    <2>1. row \in About(question) /\ row.id \notin Ids(answer)
      BY <1>6 DEF Missing, Known
    <2>2. row \in Of(question) /\ IdsAreUnique(About(question))
      BY <2>1, AboutIsOf, RowsAreNumbered DEF TypeInv
    <2>3. InWindow(row, now) => MayBeMissed(r, question, row)
      BY <2>1, AnswerLeaves DEF TypeInv
    <2> QED BY <2>1, <2>2, <2>3 DEF LeftOut, Ids, IdsAreUnique
  <1> HIDE DEF left
  <1>7. ASSUME NEW p \in missed'[r] PROVE p = <<p[1], p[2]>> /\ LeftOut(r, p[1], p[2])'
    <2>1. CASE p \in missed[r]
      BY <1>2, <1>5, <2>1 DEF MissedOf
    <2>2. CASE p \in {question} \X Ids(left)
      <3>1. PICK row \in left : p = <<question, row.id>>
        BY <2>2 DEF Ids
      <3> QED BY <1>5, <1>6, <3>1
    <2> QED BY <1>4, <1>7, <2>1, <2>2
  <1> QED BY <1>7 DEF MissedOf

LEMMA MissedOfNext ==
  ASSUME TypeInv, TimesInv, AlertTimesInv, QuestionsOK, [Next]_vars, NEW r \in Reqs,
         MockOf(r), LoopOf(r), MissedOf(r)
  PROVE  MissedOf(r)'
  <1>1. troubled \subseteq troubled'
    BY TroubleStays DEF TypeInv
  <1>2. ASSUME known'[r] = known[r], series'[r] = series[r], missed'[r] = missed[r]
        PROVE  MissedOf(r)'
    <2>1. \A q, id : LeftOut(r, q, id) => LeftOut(r, q, id)'
      BY <1>2, LeftOutStays DEF TypeInv
    <2> QED BY <1>1, <1>2, <2>1 DEF MissedOf
  <1>3. CASE OverviewSame(r)
    BY <1>2, <1>3 DEF OverviewSame
  <1>4. ASSUME NEW j \in Jobs, Arrive(r, j) PROVE MissedOf(r)'
    <2>1. missed[r] = {} /\ missed' = missed
      BY <1>4 DEF Arrive, Arrives, MockOf, overviewVars
    <2> QED BY <2>1 DEF MissedOf
  <1>5. CASE AskSeries(r)
    <2>1. known' = known /\ series' = series /\ missed' = missed
      BY <1>5 DEF AskSeries
    <2> QED BY <1>2, <2>1
  <1> QED BY <1>3, <1>4, <1>5, AskMisses, TurnMisses, OverviewCases DEF OverviewStep

(* Whatever the number of days, their length and the LIMITs: while the     *)
(* database works, no part of the overview leaves out what it must count,  *)
(* but for the days that a midnight in the loop passes over, and for the   *)
(* groups behind the LIMIT (overview.go:254-255, 156, 192).                *)
THEOREM OverviewIsComplete == Spec => []RecentIsCounted
  <1> DEFINE Loops == \A r \in Reqs : LoopOf(r)
             Misses == \A r \in Reqs : MissedOf(r)
  <1>1. Init => AlertTimesInv /\ Misses
    BY DEF Init, StoreInit, QueryInit, AlertTimesInv, MissedOf
  <1>2. /\ TypeInv /\ TimesInv /\ AlertTimesInv /\ MockInv /\ Loops /\ Misses /\ [Next]_vars
        => (AlertTimesInv /\ Misses)'
    BY AlertTimesNext, MissedOfNext DEF TypeInv, MockInv
  <1>3. Misses => RecentIsCounted
    <2> SUFFICES ASSUME Misses, NEW r \in Reqs, Responded(r), NEW i \in 1 .. Len(Questions),
                        NEW row \in About(Questions[i]), InWindow(row, now),
                        <<Questions[i], row.id>> \in missed[r]
                 PROVE  MayBeMissed(r, Questions[i], row)
      BY DEF RecentIsCounted
    <2>1. LeftOut(r, Questions[i], row.id)
      BY DEF MissedOf, Responded
    <2> QED BY <2>1 DEF LeftOut
  <1>4. Spec => []Loops
    BY LoopAlways
  <1> HIDE DEF Loops, Misses
  <1> QED BY <1>1, <1>2, <1>3, <1>4, TypeInvAlways, TimesInvAlways, MockInvAlways, PTL DEF Spec
-----------------------------------------------------------------------------
(* The lists, page by page.                                                *)
(* Rows that are not among the newest are older than all of these.         *)
LEMMA NewestLeaves ==
  ASSUME NEW rows, IsFiniteSet(rows), NEW n \in Nat, NEW top \in Newest(rows, n),
         NEW row \in rows \ top
  PROVE  Cardinality(top) = n /\ \A t \in top : t.at >= row.at
  <1>1. /\ top \in SUBSET rows
        /\ Cardinality(top) = IF n < Cardinality(rows) THEN n ELSE Cardinality(rows)
        /\ \A t \in top : t.at >= row.at
    BY DEF Newest, kSubset
  <1>2. Cardinality(top) # Cardinality(rows)
    BY <1>1, FS_Subset
  <1> QED BY <1>1, <1>2

(* Behind a first page there are the older rows only.                      *)
LEMMA FirstPage ==
  ASSUME NEW rows, IsFiniteSet(rows), NEW page \in PageOf(rows, 1), NEW row \in rows \ page
  PROVE  Cardinality(page) = Limit /\ \A t \in page : t.at >= row.at
  <1>1. Limit \in Nat /\ (1 - 1) * Limit = 0
    BY SiemAssumption
  <1>2. PICK skipped \in Newest(rows, 0) : page \in Newest(rows \ skipped, Limit)
    BY <1>1 DEF PageOf
  <1>3. skipped \in SUBSET rows /\ Cardinality(skipped) = 0
    <2>1. Cardinality(rows) \in Nat
      BY FS_CardinalityType
    <2> QED BY <1>2, <2>1 DEF Newest, kSubset
  <1>4. skipped = {}
    BY <1>3, FS_Subset, FS_EmptySet
  <1>5. rows \ skipped = rows
    BY <1>4
  <1> QED BY <1>1, <1>2, <1>5, NewestLeaves

(* Behind the second page too, if they are older than all of what had been *)
(* read as a first page, however many rows have been added to it.          *)
LEMMA SecondPage ==
  ASSUME NEW rows, IsFiniteSet(rows), \A t \in rows : t.at \in Nat,
         NEW first \in SUBSET rows, Cardinality(first) = Limit,
         NEW page \in PageOf(rows, 2), NEW row \in rows \ page,
         \A t \in first : t.at > row.at
  PROVE  Cardinality(page) = Limit /\ \A t \in page : t.at >= row.at
  <1>1. Limit \in Nat /\ (2 - 1) * Limit = Limit
    BY SiemAssumption
  <1>2. PICK skipped \in Newest(rows, Limit) : page \in Newest(rows \ skipped, Limit)
    BY <1>1 DEF PageOf
  <1>3. /\ skipped \in SUBSET rows
        /\ Cardinality(skipped) = IF Limit < Cardinality(rows) THEN Limit ELSE Cardinality(rows)
        /\ \A t \in skipped : \A o \in rows \ skipped : t.at >= o.at
    BY <1>2 DEF Newest, kSubset
  <1>4. row \notin skipped
    <2> SUFFICES ASSUME row \in skipped PROVE FALSE
      OBVIOUS
    <2>1. row \notin first
      OBVIOUS
    <2>2. IsFiniteSet(skipped) /\ Cardinality(skipped) <= Limit
      <3>1. IsFiniteSet(skipped) /\ Cardinality(rows) \in Nat
        BY <1>3, FS_Subset, FS_CardinalityType
      <3> QED BY <1>1, <1>3, <3>1
    <2>3. PICK t \in first : t \notin skipped
      <3>1. ASSUME first \in SUBSET skipped PROVE FALSE
        <4>1. Cardinality(first) <= Cardinality(skipped) /\ Cardinality(skipped) \in Nat
          BY <2>2, <3>1, FS_Subset, FS_CardinalityType
        <4>2. Cardinality(first) = Cardinality(skipped)
          BY <1>1, <2>2, <4>1
        <4>3. first = skipped
          BY <2>2, <3>1, <4>2, FS_Subset
        <4> QED BY <2>1, <4>3
      <3> QED BY <3>1
    <2>4. row.at >= t.at /\ t.at > row.at /\ row.at \in Nat /\ t.at \in Nat
      BY <1>3, <2>3
    <2> QED BY <2>4
  <1>5. IsFiniteSet(rows \ skipped) /\ row \in (rows \ skipped) \ page
    BY <1>4, FS_Difference
  <1> QED BY <1>1, <1>2, <1>5, NewestLeaves
-----------------------------------------------------------------------------
(* A client that has read a first page, and then the next one: which of    *)
(* the rows that it knew of it has not seen.                               *)
FirstRead(rows, ids, old) ==
  /\ ids \subseteq Ids(rows)
  /\ \A row \in rows : row.id \in old \ ids =>
       /\ Cardinality(ids) = Limit
       /\ \A t \in rows : t.id \in ids => t.at >= row.at
NextRead(rows, first, ids, old) ==
  /\ ids \subseteq Ids(rows)
  /\ \A row \in rows :
       (/\ row.id \in old \ (first \cup ids)
        /\ \A t \in rows : t.id \in first => t.at > row.at)
       => /\ Cardinality(ids) = Limit
          /\ \A t \in rows : t.id \in ids => t.at >= row.at

(* Rows that stay, among others that are new.                              *)
Stay(rows, after, ids) ==
  /\ Ids(rows) \subseteq ids
  /\ \A row \in rows : \E new \in after : new.id = row.id /\ new.at = row.at
  /\ \A new \in after : new.id \in ids =>
       \E row \in rows : row.id = new.id /\ row.at = new.at

LEMMA FirstReadStays ==
  ASSUME NEW rows, NEW after, NEW all, Stay(rows, after, all),
         NEW ids, NEW old, old \subseteq all, FirstRead(rows, ids, old)
  PROVE  FirstRead(after, ids, old)
  <1>1. ids \subseteq Ids(after) /\ ids \subseteq all
    BY DEF Stay, FirstRead, Ids
  <1>2. ASSUME NEW new \in after, new.id \in old \ ids
        PROVE  /\ Cardinality(ids) = Limit
               /\ \A t \in after : t.id \in ids => t.at >= new.at
    <2>1. PICK row \in rows : row.id = new.id /\ row.at = new.at
      BY <1>2 DEF Stay
    <2>2. Cardinality(ids) = Limit /\ \A t \in rows : t.id \in ids => t.at >= row.at
      BY <1>2, <2>1 DEF FirstRead
    <2>3. ASSUME NEW t \in after, t.id \in ids PROVE t.at >= new.at
      <3>1. PICK o \in rows : o.id = t.id /\ o.at = t.at
        BY <1>1, <2>3 DEF Stay
      <3> QED BY <2>1, <2>2, <2>3, <3>1
    <2> QED BY <2>2, <2>3
  <1> QED BY <1>1, <1>2 DEF FirstRead

LEMMA NextReadStays ==
  ASSUME NEW rows, NEW after, NEW all, Stay(rows, after, all),
         NEW first, NEW ids, NEW old, old \subseteq all, NextRead(rows, first, ids, old)
  PROVE  NextRead(after, first, ids, old)
  <1>1. ids \subseteq Ids(after) /\ ids \subseteq all
    BY DEF Stay, NextRead, Ids
  <1>2. ASSUME NEW new \in after, new.id \in old \ (first \cup ids),
               \A t \in after : t.id \in first => t.at > new.at
        PROVE  /\ Cardinality(ids) = Limit
               /\ \A t \in after : t.id \in ids => t.at >= new.at
    <2>1. PICK row \in rows : row.id = new.id /\ row.at = new.at
      BY <1>2 DEF Stay
    <2>2. \A t \in rows : t.id \in first => t.at > row.at
      BY <1>2, <2>1 DEF Stay
    <2>3. Cardinality(ids) = Limit /\ \A t \in rows : t.id \in ids => t.at >= row.at
      BY <1>2, <2>1, <2>2 DEF NextRead
    <2>4. ASSUME NEW t \in after, t.id \in ids PROVE t.at >= new.at
      <3>1. PICK o \in rows : o.id = t.id /\ o.at = t.at
        BY <1>1, <2>4 DEF Stay
      <3> QED BY <2>1, <2>3, <2>4, <3>1
    <2> QED BY <2>3, <2>4
  <1> QED BY <1>1, <1>2 DEF NextRead

(* The rows of a list do so, unless it asks for a status.                  *)
ByStatus(j) == j.list = "alerts" /\ j.filter # Null

LEMMA MatchingStays ==
  ASSUME StoreInv, [Next]_vars, NEW j \in List, ~ByStatus(j)
  PROVE  /\ Stay(Matching(j), Matching(j)', Ids(Table(j.list)))
         /\ Ids(Table(j.list)) \subseteq Ids(Table(j.list))'
  <1> DEFINE rows == Matching(j)
             after == Matching(j)'
             ids == Ids(Table(j.list))
  <1>1. CASE j.list = "alerts"
    <2>1. rows = alerts /\ after = alerts' /\ ids = Ids(alerts)
          /\ Ids(Table(j.list))' = Ids(alerts')
      BY <1>1 DEF Matching, Matches, Table, ByStatus, Ids
    <2>2. /\ \A a \in alerts : \E b \in alerts' : b.id = a.id /\ b.at = a.at
          /\ IdsAreUnique(alerts')
      BY RowsStay DEF SameAlert
    <2>3. \A new \in alerts' : new.id \in Ids(alerts) =>
            \E row \in alerts : row.id = new.id /\ row.at = new.at
      BY <2>2 DEF Ids, IdsAreUnique
    <2> HIDE DEF rows, after, ids
    <2>4. Stay(rows, after, ids)
      BY <2>1, <2>2, <2>3 DEF Stay
    <2>5. Ids(alerts) \subseteq Ids(alerts')
      BY <2>2 DEF Ids
    <2> QED BY <2>1, <2>4, <2>5 DEF rows, after, ids
  <1>2. CASE j.list # "alerts"
    <2>1. /\ rows = {e \in events : j.filter = Null \/ e.level = j.filter}
          /\ after = {e \in events' : j.filter = Null \/ e.level = j.filter}
          /\ ids = Ids(events) /\ Ids(Table(j.list))' = Ids(events')
      BY <1>2 DEF Matching, Matches, Table, Ids
    <2>2. /\ \A e \in events : \E f \in events' :
               f.id = e.id /\ f.at = e.at /\ f.level = e.level
          /\ IdsAreUnique(events')
      BY RowsStay DEF SameEvent
    <2>3. \A row \in rows : \E new \in after : new.id = row.id /\ new.at = row.at
      BY <2>1, <2>2
    <2>4. \A new \in after : new.id \in Ids(events) =>
            \E row \in rows : row.id = new.id /\ row.at = new.at
      <3> SUFFICES ASSUME NEW new \in after, NEW e \in events, e.id = new.id
                   PROVE  \E row \in rows : row.id = new.id /\ row.at = new.at
        BY DEF Ids
      <3>1. PICK f \in events' : f.id = e.id /\ f.at = e.at /\ f.level = e.level
        BY <2>2
      <3>2. new = f
        BY <2>1, <2>2, <3>1 DEF IdsAreUnique
      <3> QED BY <2>1, <3>1, <3>2
    <2>5. Ids(rows) \subseteq Ids(events)
      BY <2>1 DEF Ids
    <2> HIDE DEF rows, after, ids
    <2>6. Stay(rows, after, ids)
      BY <2>1, <2>3, <2>4, <2>5 DEF Stay
    <2>7. Ids(events) \subseteq Ids(events')
      BY <2>2 DEF Ids
    <2> QED BY <2>1, <2>6, <2>7 DEF rows, after, ids
  <1> QED BY <1>1, <1>2

LEMMA TableStays ==
  ASSUME StoreInv, [Next]_vars, NEW list
  PROVE  Ids(Table(list)) \subseteq Ids(Table(list))'
  <1>1. Ids(events) \subseteq Ids(events') /\ Ids(alerts) \subseteq Ids(alerts')
    BY IdsStay
  <1> QED BY <1>1 DEF Table, Ids
-----------------------------------------------------------------------------
(* What a request for a list knows of what it may not have seen of it.     *)
PagesFor(r, j) ==
  /\ known[r][j.list] \subseteq Ids(Table(j.list))
  /\ ~ByStatus(j) /\ r \notin troubled =>
       /\ pc[r] = "done" /\ j.page = 1 =>
            FirstRead(Matching(j), items[r], known[r][j.list])
       /\ j.page = 2 /\ before[r] # {} =>
            /\ FirstRead(Matching(j), before[r], known[r][j.list])
            /\ pc[r] = "done" =>
                 NextRead(Matching(j), before[r], items[r], known[r][j.list])
PagesOf(r) ==
  /\ pc[r] = "new" => before[r] = {}
  /\ pc[r] # "new" /\ job[r] \in List => PagesFor(r, job[r])
PagesInv == before = [r \in Reqs |-> before[r]] /\ \A r \in Reqs : PagesOf(r)

LEMMA PagesStay ==
  ASSUME TypeInv, [Next]_vars, NEW r \in Reqs, NEW j \in List, PagesFor(r, j),
         before'[r] = before[r], known'[r] = known[r],
         pc'[r] = "done" => pc[r] = "done" /\ items'[r] = items[r]
  PROVE  PagesFor(r, j)'
  <1>1. troubled \subseteq troubled'
    BY TroubleStays DEF TypeInv
  <1>2. /\ ~ByStatus(j) => Stay(Matching(j), Matching(j)', Ids(Table(j.list)))
        /\ known[r][j.list] \subseteq Ids(Table(j.list))'
    <2>1. Ids(Table(j.list)) \subseteq Ids(Table(j.list))'
      BY TableStays DEF TypeInv
    <2> QED BY <2>1, MatchingStays DEF TypeInv, PagesFor
  <1> DEFINE old == known[r][j.list]
  <1>3. old \subseteq Ids(Table(j.list))
    BY DEF PagesFor
  <1>4. \A ids : ~ByStatus(j) /\ FirstRead(Matching(j), ids, old)
                   => FirstRead(Matching(j)', ids, old)
    BY <1>2, <1>3, FirstReadStays
  <1>5. \A first, ids : ~ByStatus(j) /\ NextRead(Matching(j), first, ids, old)
                          => NextRead(Matching(j)', first, ids, old)
    BY <1>2, <1>3, NextReadStays
  <1> QED BY <1>1, <1>2, <1>4, <1>5 DEF PagesFor, ByStatus

(* The rows of a list, and the ids of some of them.                        *)
LEMMA RowsOfList ==
  ASSUME StoreInv, TimesInv, AlertTimesInv, NEW j \in List
  PROVE  /\ IsFiniteSet(Matching(j)) /\ IdsAreUnique(Matching(j))
         /\ \A row \in Matching(j) : row.at \in Nat
         /\ \A rows \in SUBSET Matching(j) :
              /\ Cardinality(Ids(rows)) = Cardinality(rows)
              /\ \A row \in Matching(j) : row.id \in Ids(rows) <=> row \in rows
  <1>1. Matching(j) \in (SUBSET events) \cup (SUBSET alerts)
    BY DEF Matching, Table
  <1>2. /\ IsFiniteSet(events) /\ IdsAreUnique(events)
        /\ IsFiniteSet(alerts) /\ IdsAreUnique(alerts)
    BY DEF StoreInv, EventsInv, AlertsInv, Numbered
  <1>3. IsFiniteSet(Matching(j)) /\ IdsAreUnique(Matching(j))
    BY <1>1, <1>2, FS_Subset DEF IdsAreUnique
  <1>4. \A row \in Matching(j) : row.at \in Nat
    BY <1>1 DEF TimesInv, AlertTimesInv
  <1>5. ASSUME NEW rows \in SUBSET Matching(j)
        PROVE  /\ Cardinality(Ids(rows)) = Cardinality(rows)
               /\ \A row \in Matching(j) : row.id \in Ids(rows) <=> row \in rows
    <2>1. IsFiniteSet(rows) /\ IdsAreUnique(rows)
      BY <1>3, FS_Subset DEF IdsAreUnique
    <2>2. \A row \in Matching(j) : row.id \in Ids(rows) <=> row \in rows
      BY <1>3 DEF IdsAreUnique, Ids
    <2> QED BY <2>1, <2>2, AsManyIds
  <1> QED BY <1>3, <1>4, <1>5

LEMMA PageIsRead ==
  ASSUME StoreInv, TimesInv, AlertTimesInv, NEW j \in List, NEW old,
         NEW page \in PageOf(Matching(j), j.page)
  PROVE  /\ j.page = 1 => FirstRead(Matching(j), Ids(page), old)
         /\ \A first : j.page = 2 /\ FirstRead(Matching(j), first, old)
                         => NextRead(Matching(j), first, Ids(page), old)
  <1> DEFINE rows == Matching(j)
  <1>1. /\ IsFiniteSet(rows) /\ IdsAreUnique(rows) /\ \A row \in rows : row.at \in Nat
        /\ \A some \in SUBSET rows :
              /\ Cardinality(Ids(some)) = Cardinality(some)
              /\ \A row \in rows : row.id \in Ids(some) <=> row \in some
    BY RowsOfList
  <1>2. page \in SUBSET rows
    BY PageRows
  <1>3. Ids(page) \subseteq Ids(rows)
    BY <1>2 DEF Ids
  <1>4. page \in PageOf(rows, j.page)
    OBVIOUS
  <1> HIDE DEF rows
  <1>5. ASSUME j.page = 1 PROVE FirstRead(rows, Ids(page), old)
    <2>1. \A row \in rows \ page : Cardinality(page) = Limit /\ \A t \in page : t.at >= row.at
      BY <1>1, <1>4, <1>5, FirstPage
    <2> QED BY <1>1, <1>2, <1>3, <2>1 DEF FirstRead
  <1>6. ASSUME NEW first, j.page = 2, FirstRead(rows, first, old)
        PROVE  NextRead(rows, first, Ids(page), old)
    <2> SUFFICES ASSUME NEW row \in rows, row.id \in old \ (first \cup Ids(page)),
                        \A t \in rows : t.id \in first => t.at > row.at
                 PROVE  Cardinality(page) = Limit /\ \A t \in page : t.at >= row.at
      BY <1>1, <1>2, <1>3 DEF NextRead
    <2> DEFINE some == {t \in rows : t.id \in first}
    <2>1. some \in SUBSET rows /\ Ids(some) = first /\ \A t \in some : t.at > row.at
      BY <1>6 DEF FirstRead, Ids
    <2>2. Cardinality(some) = Limit
      BY <1>1, <1>6, <2>1 DEF FirstRead
    <2>3. row \in rows \ page
      BY <1>1, <1>2
    <2> HIDE DEF some
    <2> QED BY <1>1, <1>4, <1>6, <2>1, <2>2, <2>3, SecondPage
  <1> QED BY <1>5, <1>6 DEF rows
-----------------------------------------------------------------------------
(* What is new for the client when a page has been read.                   *)
LEMMA SelectPages ==
  ASSUME TypeInv, Results, TimesInv, AlertTimesInv, [Next]_vars, NEW r \in Reqs, PagesOf(r),
         UNCHANGED storeVars, Select(r)
  PROVE  PagesOf(r)'
  <1>1. /\ pc[r] = "select" /\ job' = job /\ before' = before /\ known' = known
        /\ events' = events /\ alerts' = alerts /\ job[r] \in List
    BY DEF Select, storeVars, TypeInv, RequestsInv
  <1>2. PICK j \in List : j = job[r]
    BY <1>1
  <1>3. /\ Matching(j)' = Matching(j) /\ Ids(Table(j.list))' = Ids(Table(j.list))
        /\ job'[r] = j
    BY <1>1, <1>2 DEF Matching, Matches, Table, Ids
  <1>4. PagesFor(r, j)
    BY <1>1, <1>2 DEF PagesOf
  <1>5. pc'[r] \in {"done", "failed"} /\ troubled \subseteq troubled'
    BY TroubleStays DEF Select, Goto, TypeInv, RequestsInv
  <1>6. ASSUME r \notin troubled', pc'[r] = "done"
        PROVE  \E page \in PageOf(Matching(j), j.page) : items'[r] = Ids(page)
    <2>1. ~InTrouble(r) /\ ~Goto(r, "failed")
      BY <1>6 DEF InTrouble, Goto, TypeInv, RequestsInv
    <2>2. PICK page \in PageOf(Matching(job[r]), job[r].page) :
            items' = [items EXCEPT ![r] = Ids(page)]
      BY <2>1, SelectEnds
    <2> QED BY <1>2, <2>2 DEF Results
  <1> DEFINE old == known[r][j.list]
             rows == Matching(j)
  <1>7. \A page \in PageOf(rows, j.page) :
          /\ j.page = 1 => FirstRead(rows, Ids(page), old)
          /\ \A first : j.page = 2 /\ FirstRead(rows, first, old)
                          => NextRead(rows, first, Ids(page), old)
    BY PageIsRead DEF TypeInv
  <1>8. PagesFor(r, j)'
    BY <1>1, <1>3, <1>4, <1>5, <1>6, <1>7 DEF PagesFor, ByStatus
  <1> QED BY <1>1, <1>2, <1>3, <1>5, <1>8 DEF PagesOf

(* A request that arrives has read nothing yet; one that asks for the next *)
(* page has read the one before.                                           *)
LEMMA ArrivePages ==
  ASSUME TypeInv, QuestionsOK, NEW r \in Reqs, PagesOf(r), UNCHANGED storeVars,
         NEW j \in Jobs, Arrive(r, j)
  PROVE  PagesOf(r)'
  <1>1. /\ before[r] = {} /\ before' = before /\ events' = events /\ alerts' = alerts
        /\ job'[r] = j /\ pc'[r] = (IF j = Overview THEN "ask" ELSE "count")
        /\ known'[r] = [events |-> Ids(events), alerts |-> Ids(alerts)]
    BY DEF Arrive, Arrives, Goto, TypeInv, RequestsInv, QuestionsOK, storeVars, PagesOf
  <1>2. ASSUME j \in List PROVE PagesFor(r, j)'
    <2>1. known'[r][j.list] = Ids(Table(j.list))' /\ j # Overview
      <3>1. j.list \in {"events", "alerts"} /\ Overview.list = "overview"
        BY <1>2 DEF List, Overview
      <3> QED BY <1>1, <3>1 DEF Table, Ids
    <2> QED BY <1>1, <2>1 DEF PagesFor
  <1> QED BY <1>1, <1>2 DEF PagesOf

LEMMA NextPages ==
  ASSUME TypeInv, Results, NEW r \in Reqs, PagesOf(r), before = [q \in Reqs |-> before[q]],
         UNCHANGED storeVars, AskNextPage(r)
  PROVE  PagesOf(r)'
  <1>1. PICK j \in List : j = job[r]
    BY DEF AskNextPage, TypeInv, RequestsInv
  <1> DEFINE new == [j EXCEPT !.page = j.page + 1]
  <1>2. /\ pc[r] = "done" /\ pc'[r] = "count" /\ job'[r] = new /\ known' = known
        /\ events' = events /\ alerts' = alerts /\ troubled' = troubled
        /\ before'[r] = items[r]
    BY <1>1 DEF AskNextPage, Goto, TypeInv, RequestsInv, storeVars
  <1>3. /\ new.list = j.list /\ new.filter = j.filter
        /\ new.page = j.page + 1 /\ j.page \in Nat \ {0}
    BY <1>1, SiemAssumption DEF List
  <1>4. PagesFor(r, j)
    BY <1>1, <1>2 DEF PagesOf
  <1> HIDE DEF new
  <1>5. /\ Matching(new)' = Matching(j) /\ Ids(Table(new.list))' = Ids(Table(j.list))
        /\ known'[r][new.list] = known[r][j.list] /\ ByStatus(new) = ByStatus(j)
    BY <1>2, <1>3 DEF Matching, Matches, Table, Ids, ByStatus
  <1>6. new.page = 2 => j.page = 1
    BY <1>3
  <1>7. PagesFor(r, new)'
    BY <1>2, <1>3, <1>4, <1>5, <1>6 DEF PagesFor, ByStatus
  <1> QED BY <1>2, <1>7 DEF PagesOf

(* In every other step the client learns nothing.                          *)
LEMMA PagesOfStay ==
  ASSUME TypeInv, [Next]_vars, NEW r \in Reqs, PagesOf(r),
         UNCHANGED <<job[r], before[r], known[r]>>,
         pc'[r] = "done" /\ job[r] # Overview => pc[r] = "done" /\ items'[r] = items[r],
         pc'[r] = "new" <=> pc[r] = "new"
  PROVE  PagesOf(r)'
  <1>1. CASE pc[r] # "new" /\ job[r] \in List
    <2>1. PICK j \in List : j = job[r]
      BY <1>1
    <2>2. j # Overview
      BY DEF List, Overview
    <2>3. PagesFor(r, j)'
      BY <1>1, <2>1, <2>2, PagesStay DEF PagesOf
    <2> QED BY <1>1, <2>1, <2>3 DEF PagesOf
  <1>2. CASE pc[r] = "new" \/ job[r] \notin List
    BY <1>2 DEF PagesOf
  <1> QED BY <1>1, <1>2

LEMMA OthersPages ==
  ASSUME TypeInv, QuestionsOK, before = [p \in Reqs |-> before[p]],
         NEW r \in Reqs, NEW q \in Reqs \ {r},
         Step(q) \/ AskNextPage(q) \/ \E j \in Jobs : Arrive(q, j)
  PROVE  before'[r] = before[r] /\ known'[r] = known[r]
  <1>1. CASE AskNextPage(q)
    BY <1>1 DEF AskNextPage
  <1>2. ASSUME NEW j \in Jobs, Arrive(q, j) PROVE before'[r] = before[r] /\ known'[r] = known[r]
    BY <1>2 DEF Arrive, QuestionsOK
  <1>3. CASE Step(q)
    BY <1>3 DEF Step, Count, Select, AskNext, AskSeries, buildDailySeries, Respond, queryVars
  <1> QED BY <1>1, <1>2, <1>3

LEMMA PagesOfNext ==
  ASSUME TypeInv, Results, QuestionsOK, TimesInv, AlertTimesInv, [Next]_vars,
         before = [p \in Reqs |-> before[p]], NEW r \in Reqs, PagesOf(r)
  PROVE  PagesOf(r)'
  <1>1. CASE UNCHANGED <<requestVars, queryVars>>
    BY <1>1, PagesOfStay DEF requestVars, queryVars
  <1>2. ASSUME UNCHANGED storeVars, NEW j \in Jobs, Arrive(r, j) PROVE PagesOf(r)'
    BY <1>2, ArrivePages
  <1>3. CASE UNCHANGED storeVars /\ AskNextPage(r)
    BY <1>3, NextPages
  <1>4. CASE UNCHANGED storeVars /\ Select(r)
    BY <1>4, SelectPages
  <1>5. CASE Count(r)
    <2>1. pc[r] = "count" /\ pc'[r] \in {"select", "failed"}
      BY <1>5 DEF Count, Goto, TypeInv, RequestsInv
    <2>2. UNCHANGED <<job, before, known>>
      BY <1>5 DEF Count
    <2> QED BY <2>1, <2>2, PagesOfStay
  <1>6. CASE AskNext(r) \/ AskSeries(r) \/ buildDailySeries(r)
    <2>1. pc[r] \in {"ask", "label"} /\ pc'[r] \in {"ask", "label"}
      BY <1>6 DEF AskNext, AskSeries, buildDailySeries, Goto, TypeInv, RequestsInv
    <2>2. UNCHANGED <<job, before, known>>
      BY <1>6 DEF AskNext, AskSeries, buildDailySeries
    <2> QED BY <2>1, <2>2, PagesOfStay
  <1>7. CASE Respond(r)
    <2>1. pc[r] = "ask" /\ pc'[r] = "done" /\ job[r] = Overview
      BY <1>7 DEF Respond, Goto, TypeInv, RequestsInv
    <2>2. UNCHANGED <<job, before, known>>
      BY <1>7 DEF Respond, queryVars
    <2> QED BY <2>1, <2>2, PagesOfStay
  <1>8. CASE Elsewhere
    <2>1. UNCHANGED <<job, items, before, known>>
      BY <1>8 DEF Elsewhere, queryVars
    <2>2. pc'[r] \in {pc[r], "failed"} /\ (pc'[r] = "failed" => pc[r] # "new")
      BY <1>8 DEF Elsewhere, Disconnect, Exit, Open, TypeInv, RequestsInv
    <2> QED BY <2>1, <2>2, PagesOfStay
  <1>9. ASSUME NEW q \in Reqs \ {r},
               Step(q) \/ AskNextPage(q) \/ \E j \in Jobs : Arrive(q, j)
        PROVE  PagesOf(r)'
    <2>1. Same(r) /\ before'[r] = before[r] /\ known'[r] = known[r]
      BY <1>9, OnlyOneSteps, OthersPages DEF TypeInv
    <2> QED BY <2>1, PagesOfStay DEF Same
  <1> QED BY <1>1, <1>2, <1>3, <1>4, <1>5, <1>6, <1>7, <1>8, <1>9 DEF Next, vars, Step

LEMMA BeforeStays ==
  ASSUME before = [p \in Reqs |-> before[p]], [Next]_vars
  PROVE  before' = [p \in Reqs |-> before'[p]]
  <1>1. ASSUME NEW r \in Reqs, AskNextPage(r) PROVE before' = [p \in Reqs |-> before'[p]]
    BY <1>1 DEF AskNextPage
  <1>2. UNCHANGED before \/ \E r \in Reqs : AskNextPage(r)
    BY DEF Next, vars, queryVars, Step, Count, Select, AskNext, AskSeries, buildDailySeries,
           Respond, Arrive, Elsewhere
  <1> QED BY <1>1, <1>2

(* What a client may miss of a list that it reads page by page, while rows *)
(* are added and references are lost: ties only, whatever the size of a    *)
(* page and however many clients, filters and rows there are.              *)
THEOREM PagesAreComplete == Spec => []PagesOmitOnlyTies
  <1> DEFINE Inv == AlertTimesInv /\ QuestionsOK /\ PagesInv
  <1>1. Init => Inv
    BY DEF Init, StoreInit, RequestsInit, QueryInit, AlertTimesInv, QuestionsOK, PagesInv, PagesOf
  <1>2. ListInv /\ TimesInv /\ Inv /\ [Next]_vars => Inv'
    BY AlertTimesNext, QuestionsOKNext, BeforeStays, PagesOfNext DEF ListInv, TypeInv, PagesInv
  <1>3. TypeInv /\ Inv => PagesOmitOnlyTies
    <2> SUFFICES ASSUME TypeInv, Inv, NEW r \in Reqs,
                        Listed(r), job[r].page = 2, before[r] # {}, ~Filtered(r, "alerts"),
                        NEW row \in Matching(job[r]),
                        row.id \in known[r][job[r].list] \ (before[r] \cup items[r]),
                        \A id \in before[r] : RowOf(r, id).at > row.at
                 PROVE  /\ Cardinality(items[r]) = Limit
                        /\ \A id \in items[r] : RowOf(r, id).at >= row.at
      BY DEF PagesOmitOnlyTies
    <2>1. PICK j \in List : j = job[r]
      BY DEF Listed, TypeInv, RequestsInv
    <2>2. ~ByStatus(j) /\ r \notin troubled /\ pc[r] = "done" /\ j.page = 2 /\ j \in List
      BY <2>1 DEF Listed, Filtered, ByStatus
    <2> DEFINE rows == Matching(j)
               old == known[r][j.list]
    <2>3. FirstRead(rows, before[r], old) /\ NextRead(rows, before[r], items[r], old)
      BY <2>1, <2>2 DEF PagesInv, PagesOf, PagesFor
    <2>4. \A t \in rows : RowOf(r, t.id) = t
      <3>1. IdsAreUnique(Table(j.list)) /\ rows \subseteq Table(j.list)
        BY DEF Table, Matching, TypeInv, StoreInv, EventsInv, AlertsInv, Numbered
      <3> QED BY <2>1, <3>1 DEF RowOf, IdsAreUnique
    <2>5. row \in rows /\ row.id \in old \ (before[r] \cup items[r])
      BY <2>1
    <2> HIDE DEF rows, old
    <2>6. \A t \in rows : t.id \in before[r] => t.at > row.at
      BY <2>4
    <2>7. Cardinality(items[r]) = Limit /\ \A t \in rows : t.id \in items[r] => t.at >= row.at
      BY <2>3, <2>5, <2>6 DEF NextRead
    <2>8. \A id \in items[r] : \E t \in rows : t.id = id
      BY <2>3 DEF NextRead, Ids
    <2> QED BY <2>4, <2>7, <2>8
  <1> HIDE DEF Inv
  <1> QED BY <1>1, <1>2, <1>3, ListInvAlways, TypeInvAlways, TimesInvAlways, PTL DEF Spec
=============================================================================
