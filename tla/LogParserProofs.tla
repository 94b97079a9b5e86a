-------------------------- MODULE LogParserProofs ---------------------------
(***************************************************************************)
(* What holds of LogParser for every set of sources, every window of the   *)
(* query and every number of rows, restarts and faults.                    *)
(***************************************************************************)
EXTENDS LogParser, TLAPS

-----------------------------------------------------------------------------
(* The sequence of raw_logs never hands out an id twice.                   *)
RawIds ==
  /\ \A r, q \in raw : r.id = q.id => r = q
  /\ \A r \in raw : r.id < nextRow

(* The marked ids are the ids events have been made of, one event each,    *)
(* also when the row, or the source of the event, is gone since.           *)
Fates ==
  /\ \A i \in processed : i < nextRow /\ \E e \in events : e.raw = i
  /\ \A e \in events : e.raw \in processed
  /\ \A e1, e2 \in events : e1.raw = e2.raw => e1 = e2

(* A row the process has in hand is not marked; it is still there, or was  *)
(* taken away together with its source.                                    *)
Fresh(r) ==
  /\ r.id \notin processed /\ r.id < nextRow
  /\ r \in raw \/ r.sid \notin live

InTx == pc \in {"begun", "inserted", "marked"}

Work ==
  /\ \A r \in todo : Fresh(r)
  /\ \A r, q \in todo : r.id = q.id => r = q
  /\ InTx => cur \in Row /\ Fresh(cur) /\ \A r \in todo : r.id # cur.id
  /\ pc \in {"inserted", "marked"} => cur \in raw /\ cur.sid \in live

ParserInv == TypeOK /\ RawIds /\ Fates /\ Work
-----------------------------------------------------------------------------
LEMMA ParserInvInit == Init => ParserInv
  <1> SUFFICES ASSUME Init PROVE ParserInv
    OBVIOUS
  <1>1. TypeOK
    BY RowBoundAssumption DEF Init, TypeOK
  <1> QED BY <1>1 DEF Init, ParserInv, RawIds, Fates, Work, InTx

(* Steps that leave the tables alone and at most drop rows in hand.        *)
LEMMA DropKeepsWork ==
  ASSUME ParserInv, UNCHANGED dbVars,
         todo' \subseteq todo,
         pc' \notin {"begun", "inserted", "marked"}
  PROVE  RawIds' /\ Fates' /\ Work'
  <1> USE DEF ParserInv, dbVars
  <1>1. RawIds' /\ Fates'
    BY DEF RawIds, Fates
  <1>2. \A r \in todo' : Fresh(r)'
    BY DEF Work, Fresh
  <1>3. \A r, q \in todo' : r.id = q.id => r = q
    BY DEF Work
  <1> QED BY <1>1, <1>2, <1>3 DEF Work, InTx

-----------------------------------------------------------------------------
LEMMA InsertRawStep ==
  ASSUME ParserInv, NEW s \in Sources, NEW b \in Body, InsertRaw(s, b)
  PROVE  ParserInv'
  <1> DEFINE n == [id |-> nextRow, sid |-> s, body |-> b]
  <1>1. /\ nextRow \in RowId /\ s \in live
        /\ raw' = raw \cup {n} /\ nextRow' = nextRow + 1
        /\ UNCHANGED <<live, processed, events, nextEvent, boots, faults, pc, todo, cur>>
    BY DEF InsertRaw
  <1>2. nextRow \in Nat /\ n \in Row /\ n.id = nextRow
    BY <1>1 DEF Row, RowId
  <1>3. \A r \in raw : r.id \in Nat /\ r.id < nextRow
    BY DEF ParserInv, TypeOK, RawIds, Row, RowId
  <1> HIDE DEF n
  <1>4. TypeOK'
    <2>1. raw' \subseteq Row
      BY <1>1, <1>2 DEF ParserInv, TypeOK
    <2>2. nextRow' \in 1 .. MaxRow + 1
      BY <1>1, RowBoundAssumption DEF RowId
    <2> QED BY <1>1, <2>1, <2>2 DEF ParserInv, TypeOK
  <1>5. RawIds'
    <2>1. ASSUME NEW r \in raw', NEW q \in raw', r.id = q.id PROVE r = q
      BY <2>1, <1>1, <1>2, <1>3 DEF ParserInv, RawIds
    <2>2. ASSUME NEW r \in raw' PROVE r.id < nextRow'
      BY <1>1, <1>2, <1>3
    <2> QED BY <2>1, <2>2 DEF RawIds
  <1>6. Fates'
    <2>1. \A i \in processed : i \in Nat /\ i < nextRow'
      BY <1>1, <1>2 DEF ParserInv, TypeOK, Fates, RowId
    <2> QED BY <1>1, <2>1 DEF ParserInv, Fates
  <1>7. ASSUME NEW r \in Row, Fresh(r) PROVE Fresh(r)'
    <2>1. r.id \in Nat
      BY DEF Row, RowId
    <2> QED BY <1>1, <1>2, <1>7, <2>1 DEF Fresh
  <1>8. Work'
    <2>1. \A r \in todo' : Fresh(r)'
      BY <1>1, <1>7 DEF ParserInv, TypeOK, Work
    <2>2. InTx' => cur' \in Row /\ Fresh(cur)' /\ \A r \in todo' : r.id # cur'.id
      BY <1>1, <1>7 DEF ParserInv, Work, InTx
    <2> QED BY <1>1, <2>1, <2>2 DEF ParserInv, Work
  <1> QED BY <1>4, <1>5, <1>6, <1>8 DEF ParserInv

LEMMA DeleteSourceStep ==
  ASSUME ParserInv, NEW s \in Sources, DeleteSource(s)
  PROVE  ParserInv'
  <1> DEFINE cut(e) == IF e.sid = s THEN [e EXCEPT !.sid = NullSource] ELSE e
  <1> DEFINE Event == [id : Nat, raw : RowId, sid : Sources \cup {NullSource},
                       kind : {"parsed", "fallback"}]
  <1>1. /\ s \in live /\ s \notin Locked /\ live' = live \ {s}
        /\ raw' = {r \in raw : r.sid # s}
        /\ events' = {cut(e) : e \in events}
        /\ UNCHANGED <<nextRow, processed, nextEvent, boots, faults, pc, todo, cur>>
    BY DEF DeleteSource
  <1>2. \A e \in Event : cut(e) \in Event /\ cut(e).raw = e.raw
    OBVIOUS
  <1>3. events \subseteq Event
    BY DEF ParserInv, TypeOK
  <1> HIDE DEF cut, Event
  <1>4. TypeOK'
    <2>1. events' \subseteq Event
      BY <1>1, <1>2, <1>3
    <2> QED BY <1>1, <2>1 DEF ParserInv, TypeOK, Event
  <1>5. RawIds'
    BY <1>1 DEF ParserInv, RawIds
  <1>6. Fates'
    <2>1. ASSUME NEW i \in processed' PROVE i < nextRow' /\ \E e \in events' : e.raw = i
      <3>1. i < nextRow' /\ \E e \in events : e.raw = i
        BY <1>1 DEF ParserInv, Fates
      <3>2. PICK e \in events : e.raw = i
        BY <3>1
      <3>3. cut(e) \in events' /\ cut(e).raw = i
        BY <1>1, <1>2, <1>3, <3>2
      <3> QED BY <3>1, <3>3
    <2>2. ASSUME NEW e \in events' PROVE e.raw \in processed'
      BY <1>1, <1>2, <1>3 DEF ParserInv, Fates
    <2>3. ASSUME NEW e1 \in events', NEW e2 \in events', e1.raw = e2.raw PROVE e1 = e2
      <3>1. PICK d1 \in events : e1 = cut(d1)
        BY <1>1
      <3>2. PICK d2 \in events : e2 = cut(d2)
        BY <1>1
      <3>3. d1.raw = d2.raw
        BY <1>2, <1>3, <2>3, <3>1, <3>2
      <3>4. d1 = d2
        BY <3>3 DEF ParserInv, Fates
      <3> QED BY <3>1, <3>2, <3>4
    <2> QED BY <2>1, <2>2, <2>3 DEF Fates
  <1>7. ASSUME NEW r, Fresh(r) PROVE Fresh(r)'
    BY <1>1, <1>7 DEF Fresh
  <1>8. Work'
    <2>1. \A r \in todo' : Fresh(r)'
      BY <1>1, <1>7 DEF ParserInv, Work
    <2>2. InTx' => cur' \in Row /\ Fresh(cur)' /\ \A r \in todo' : r.id # cur'.id
      BY <1>1, <1>7 DEF ParserInv, Work, InTx
    <2>3. pc' \in {"inserted", "marked"} => cur' \in raw' /\ cur'.sid \in live'
      BY <1>1 DEF ParserInv, Work, Locked
    <2> QED BY <1>1, <2>1, <2>2, <2>3 DEF ParserInv, Work
  <1> QED BY <1>4, <1>5, <1>6, <1>8 DEF ParserInv
-----------------------------------------------------------------------------
LEMMA StartStep == ASSUME ParserInv, Start PROVE ParserInv'
  <1>1. /\ boots < MaxBoot /\ pc' = "poll" /\ boots' = boots + 1
        /\ UNCHANGED dbVars /\ UNCHANGED <<faults, todo, cur>>
    BY DEF Start
  <1>2. TypeOK'
    BY <1>1, RowBoundAssumption DEF ParserInv, TypeOK, dbVars
  <1> QED BY <1>1, <1>2, DropKeepsWork DEF ParserInv

LEMMA StopStep == ASSUME ParserInv, Stop PROVE ParserInv'
  <1>1. /\ pc' = "down" /\ todo' = {} /\ cur' = NoRow
        /\ UNCHANGED dbVars /\ UNCHANGED <<boots, faults>>
    BY DEF Stop
  <1>2. TypeOK'
    BY <1>1 DEF ParserInv, TypeOK, dbVars
  <1> QED BY <1>1, <1>2, DropKeepsWork DEF ParserInv

LEMMA QueryStep == ASSUME ParserInv, Query PROVE ParserInv'
  <1>1. /\ pc' = "next" /\ todo' = Selected
        /\ UNCHANGED dbVars /\ UNCHANGED <<boots, faults, cur>>
    BY DEF Query
  <1>2. todo' \subseteq raw /\ \A r \in todo' : r.id \notin processed
    BY <1>1 DEF Selected, Unprocessed
  <1>3. TypeOK'
    BY <1>1, <1>2 DEF ParserInv, TypeOK, dbVars
  <1>4. RawIds' /\ Fates'
    BY <1>1 DEF ParserInv, RawIds, Fates, dbVars
  <1>5. Work'
    <2>1. \A r \in todo' : Fresh(r)'
      BY <1>1, <1>2 DEF ParserInv, RawIds, Fresh, dbVars
    <2>2. \A r, q \in todo' : r.id = q.id => r = q
      BY <1>2 DEF ParserInv, RawIds
    <2> QED BY <1>1, <2>1, <2>2 DEF Work, InTx
  <1> QED BY <1>3, <1>4, <1>5 DEF ParserInv

LEMMA BeginTxStep ==
  ASSUME ParserInv, NEW r \in todo, BeginTx(r)
  PROVE  ParserInv'
  <1>1. /\ pc' = "begun" /\ todo' = todo \ {r} /\ cur' = r
        /\ UNCHANGED dbVars /\ UNCHANGED <<boots, faults>>
    BY DEF BeginTx
  <1>2. TypeOK'
    BY <1>1 DEF ParserInv, TypeOK, dbVars
  <1>3. RawIds' /\ Fates'
    BY <1>1 DEF ParserInv, RawIds, Fates, dbVars
  <1>4. Work'
    <2>1. \A q \in todo : Fresh(q)'
      BY <1>1 DEF ParserInv, Work, Fresh, dbVars
    <2>2. \A q \in todo' : q \in todo /\ q.id # r.id
      BY <1>1 DEF ParserInv, Work
    <2>3. cur' \in Row /\ Fresh(cur)'
      <3>1. r \in Row
        BY DEF ParserInv, TypeOK
      <3>2. Fresh(r)'
        BY <2>1
      <3> QED BY <1>1, <3>1, <3>2 DEF Fresh
    <2>4. \A p, q \in todo' : p.id = q.id => p = q
      BY <2>2 DEF ParserInv, Work
    <2> QED BY <1>1, <2>1, <2>2, <2>3, <2>4 DEF Work
  <1> QED BY <1>2, <1>3, <1>4 DEF ParserInv

LEMMA FaultType == ASSUME TypeOK, Fault PROVE faults' \in 0 .. MaxFault
  BY RowBoundAssumption DEF TypeOK, Fault

LEMMA SkipRowStep ==
  ASSUME ParserInv, NEW r \in todo, SkipRow(r)
  PROVE  ParserInv'
  <1>1. /\ pc = "next" /\ Fault /\ todo' = todo \ {r}
        /\ UNCHANGED dbVars /\ UNCHANGED <<boots, pc, cur>>
    BY DEF SkipRow
  <1>2. TypeOK'
    BY <1>1, FaultType DEF ParserInv, TypeOK, dbVars
  <1> QED BY <1>1, <1>2, DropKeepsWork DEF ParserInv

LEMMA EndOfRowsStep == ASSUME ParserInv, EndOfRows PROVE ParserInv'
  <1>1. /\ faults' = faults \/ Fault
        /\ pc' = "poll" /\ todo' = {}
        /\ UNCHANGED dbVars /\ UNCHANGED <<boots, cur>>
    BY DEF EndOfRows
  <1>2. TypeOK'
    BY <1>1, FaultType DEF ParserInv, TypeOK, dbVars
  <1> QED BY <1>1, <1>2, DropKeepsWork DEF ParserInv

LEMMA RollbackStep == ASSUME ParserInv, Rollback PROVE ParserInv'
  <1>1. /\ faults' = faults \/ Fault
        /\ pc' = "next" /\ cur' = NoRow
        /\ UNCHANGED dbVars /\ UNCHANGED <<boots, todo>>
    BY DEF Rollback
  <1>2. TypeOK'
    BY <1>1, FaultType DEF ParserInv, TypeOK, dbVars
  <1> QED BY <1>1, <1>2, DropKeepsWork DEF ParserInv

(* The foreign key holds and the source cannot be deleted any more: the    *)
(* row is still there.                                                     *)
LEMMA InsertEventStep == ASSUME ParserInv, InsertEvent PROVE ParserInv'
  <1>1. /\ pc = "begun" /\ cur.sid \in live /\ pc' = "inserted"
        /\ UNCHANGED dbVars /\ UNCHANGED <<boots, faults, todo, cur>>
    BY DEF InsertEvent
  <1>2. TypeOK'
    BY <1>1 DEF ParserInv, TypeOK, dbVars
  <1>3. RawIds' /\ Fates'
    BY <1>1 DEF ParserInv, RawIds, Fates, dbVars
  <1>4. cur \in Row /\ Fresh(cur) /\ \A r \in todo : r.id # cur.id
    BY <1>1 DEF ParserInv, Work, InTx
  <1>5. cur \in raw
    BY <1>1, <1>4 DEF Fresh
  <1>6. Work'
    <2>1. (\A r \in todo' : Fresh(r)') /\ Fresh(cur)'
      BY <1>1, <1>4 DEF ParserInv, Work, Fresh, dbVars
    <2> QED BY <1>1, <1>4, <1>5, <2>1 DEF ParserInv, Work, dbVars
  <1> QED BY <1>2, <1>3, <1>6 DEF ParserInv

LEMMA MarkProcessedStep == ASSUME ParserInv, MarkProcessed PROVE ParserInv'
  <1>1. /\ pc = "inserted" /\ pc' = "marked"
        /\ UNCHANGED dbVars /\ UNCHANGED <<boots, faults, todo, cur>>
    BY DEF MarkProcessed
  <1>2. TypeOK'
    BY <1>1 DEF ParserInv, TypeOK, dbVars
  <1>3. RawIds' /\ Fates'
    BY <1>1 DEF ParserInv, RawIds, Fates, dbVars
  <1>4. cur \in Row /\ Fresh(cur) /\ (\A r \in todo : r.id # cur.id) /\ cur \in raw /\ cur.sid \in live
    BY <1>1 DEF ParserInv, Work, InTx
  <1>5. Work'
    <2>1. (\A r \in todo' : Fresh(r)') /\ Fresh(cur)'
      BY <1>1, <1>4 DEF ParserInv, Work, Fresh, dbVars
    <2> QED BY <1>1, <1>4, <2>1 DEF ParserInv, Work, dbVars
  <1> QED BY <1>2, <1>3, <1>5 DEF ParserInv

LEMMA CommitStep == ASSUME ParserInv, Commit PROVE ParserInv'
  <1> DEFINE n == [id |-> nextEvent, raw |-> cur.id, sid |-> cur.sid,
                   kind |-> KindOf(cur.body)]
  <1>1. /\ pc = "marked" /\ events' = events \cup {n} /\ nextEvent' = nextEvent + 1
        /\ processed' = processed \cup {r.id : r \in {q \in raw : q.id = cur.id}}
        /\ pc' = "next" /\ cur' = NoRow
        /\ UNCHANGED <<live, raw, nextRow, boots, faults, todo>>
    BY DEF Commit
  <1>2. cur \in Row /\ Fresh(cur) /\ (\A r \in todo : r.id # cur.id) /\ cur \in raw /\ cur.sid \in live
    BY <1>1 DEF ParserInv, Work, InTx
  <1>3. n.raw = cur.id
    OBVIOUS
  <1>4. processed' = processed \cup {cur.id}
    BY <1>1, <1>2
  <1>5. TypeOK'
    <2>1. n \in [id : Nat, raw : RowId, sid : Sources \cup {NullSource},
                 kind : {"parsed", "fallback"}]
      BY <1>2 DEF ParserInv, TypeOK, Row, KindOf
    <2>2. cur.id \in RowId
      BY <1>2 DEF Row
    <2> HIDE DEF n
    <2>3. events' \subseteq [id : Nat, raw : RowId, sid : Sources \cup {NullSource},
                             kind : {"parsed", "fallback"}]
      BY <1>1, <2>1 DEF ParserInv, TypeOK
    <2> QED BY <1>1, <1>4, <2>2, <2>3 DEF ParserInv, TypeOK
  <1> HIDE DEF n
  <1>6. RawIds'
    BY <1>1 DEF ParserInv, RawIds
  <1>7. Fates'
    <2>1. cur.id < nextRow /\ \A e \in events : e.raw # cur.id
      BY <1>2 DEF ParserInv, Fates, Fresh
    <2>2. ASSUME NEW i \in processed' PROVE i < nextRow' /\ \E e \in events' : e.raw = i
      BY <1>1, <1>3, <1>4, <2>1 DEF ParserInv, Fates
    <2>3. ASSUME NEW e \in events' PROVE e.raw \in processed'
      BY <1>1, <1>3, <1>4 DEF ParserInv, Fates
    <2>4. ASSUME NEW e1 \in events', NEW e2 \in events', e1.raw = e2.raw PROVE e1 = e2
      BY <1>1, <1>3, <2>1, <2>4 DEF ParserInv, Fates
    <2> QED BY <2>2, <2>3, <2>4 DEF Fates
  <1>8. Work'
    <2>1. \A r \in todo' : Fresh(r)'
      BY <1>1, <1>2, <1>4 DEF ParserInv, Work, Fresh
    <2>2. \A r, q \in todo' : r.id = q.id => r = q
      BY <1>1 DEF ParserInv, Work
    <2> QED BY <1>1, <2>1, <2>2 DEF Work, InTx
  <1> QED BY <1>5, <1>6, <1>7, <1>8 DEF ParserInv
-----------------------------------------------------------------------------
LEMMA ParserInvStep == ParserInv /\ [Next]_vars => ParserInv'
  <1> SUFFICES ASSUME ParserInv, [Next]_vars PROVE ParserInv'
    OBVIOUS
  <1>1. CASE Environment
    BY <1>1, InsertRawStep, DeleteSourceStep DEF Environment
  <1>2. CASE Start
    BY <1>2, StartStep
  <1>3. CASE Stop
    BY <1>3, StopStep
  <1>4. CASE Process
    BY <1>4, QueryStep, EndOfRowsStep, InsertEventStep, MarkProcessedStep, CommitStep,
       RollbackStep, BeginTxStep, SkipRowStep DEF Process
  <1>5. CASE UNCHANGED vars
    <2>1. UNCHANGED dbVars /\ UNCHANGED <<boots, faults, pc, todo, cur>>
      BY <1>5 DEF vars
    <2>2. TypeOK'
      BY <2>1 DEF ParserInv, TypeOK, dbVars
    <2>3. RawIds' /\ Fates'
      BY <2>1 DEF ParserInv, RawIds, Fates, dbVars
    <2>4. Work'
      BY <2>1 DEF ParserInv, Work, Fresh, InTx, dbVars
    <2> QED BY <2>2, <2>3, <2>4 DEF ParserInv
  <1> QED BY <1>1, <1>2, <1>3, <1>4, <1>5 DEF Next

(* The four parts together are inductive. *)
THEOREM ParserInvariant == Spec => []ParserInv
  <1> QED BY ParserInvInit, ParserInvStep, PTL DEF Spec

(* Every variable of the parser and of its tables keeps its type.          *)
THEOREM TypeCorrect == Spec => []TypeOK
  <1>1. ParserInv => TypeOK
    BY DEF ParserInv
  <1> QED BY <1>1, ParserInvariant, PTL

(* A row is marked exactly when its line has become an event, and no line  *)
(* becomes two: for every crash, fault and deletion (processLine).         *)
THEOREM RowsBecomeOneEvent == Spec => []ExactlyOnce
  <1>1. ParserInv => ExactlyOnce
    BY DEF ParserInv, Fates, ExactlyOnce
  <1> QED BY <1>1, ParserInvariant, PTL

(* An event appears only while its raw line and its source exist: the      *)
(* foreign key lock holds between INSERT and COMMIT (processLine).         *)
THEOREM EventsHaveRows == Spec => EventsComeFromRows
  <1>1. ParserInv /\ [Next]_vars => [NewEventsHaveRows]_vars
    <2> SUFFICES ASSUME ParserInv, Next PROVE NewEventsHaveRows
      OBVIOUS
    <2>1. ASSUME events' = events PROVE NewEventsHaveRows
      BY <2>1 DEF NewEventsHaveRows
    <2>2. ASSUME NEW s \in Sources, DeleteSource(s) PROVE NewEventsHaveRows
      <3>1. events' = {IF e.sid = s THEN [e EXCEPT !.sid = NullSource] ELSE e : e \in events}
        BY <2>2 DEF DeleteSource
      <3>2. \A e \in events : e.id = (IF e.sid = s THEN [e EXCEPT !.sid = NullSource] ELSE e).id
        BY DEF ParserInv, TypeOK
      <3> QED BY <3>1, <3>2 DEF NewEventsHaveRows
    <2>3. CASE Commit
      <3> DEFINE n == [id |-> nextEvent, raw |-> cur.id, sid |-> cur.sid,
                       kind |-> KindOf(cur.body)]
      <3>1. /\ pc = "marked" /\ events' = events \cup {n}
            /\ live' = live /\ raw' = raw
        BY <2>3 DEF Commit
      <3>2. n.raw = cur.id /\ n.sid = cur.sid
        OBVIOUS
      <3> HIDE DEF n
      <3>3. cur \in raw /\ cur.sid \in live
        BY <3>1 DEF ParserInv, Work
      <3> QED BY <3>1, <3>2, <3>3 DEF NewEventsHaveRows
    <2>4. CASE Environment
      <3>1. ASSUME NEW s \in Sources, NEW b \in Body, InsertRaw(s, b) PROVE NewEventsHaveRows
        BY <2>1, <3>1 DEF InsertRaw
      <3> QED BY <2>2, <2>4, <3>1 DEF Environment
    <2>5. CASE Start
      BY <2>1, <2>5 DEF Start, dbVars
    <2>6. CASE Stop
      BY <2>1, <2>6 DEF Stop, dbVars
    <2>7. CASE Process
      <3>1. \/ Commit
            \/ UNCHANGED dbVars
        BY <2>7 DEF Process, Query, EndOfRows, InsertEvent, MarkProcessed, Rollback,
           BeginTx, SkipRow
      <3> QED BY <2>1, <2>3, <3>1 DEF dbVars
    <2> QED BY <2>4, <2>5, <2>6, <2>7 DEF Next
  <1> QED BY <1>1, ParserInvariant, PTL DEF Spec, EventsComeFromRows
=============================================================================
