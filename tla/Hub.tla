-------------------------------- MODULE Hub ---------------------------------
(***************************************************************************)
(* The WebSocket hub of the SIEM API (services/api/handlers/websocket.go). *)
(*                                                                         *)
(* One goroutine, Run, does everything: it admits and releases the         *)
(* clients, polls the tables events and alerts on every tick, and writes   *)
(* to the clients what it receives from the channel broadcast, into which  *)
(* its own polls put the rows they find.  Each connection has an HTTP      *)
(* handler that registers it and a goroutine that reads from it until its  *)
(* peer is gone and then unregisters it; both wait for Run to listen.      *)
(***************************************************************************)
EXTENDS Naturals, Sequences, FiniteSets

CONSTANTS
  Clients,      \* The connections there may ever be; a reconnect is another.
  Cap,          \* Capacity of broadcast (256 in the code).
  Limit,        \* LIMIT of the polls (50 in the code).
  MaxRow,       \* Bound: how many rows the two tables get.
  MaxBoot,      \* Bound: how often the process is started.
  MaxFault      \* Bound: how often a query fails.

ASSUME CapAssumption == Cap \in Nat \ {0} /\ Limit \in Nat \ {0}
ASSUME BoundAssumption == MaxRow \in Nat /\ MaxBoot \in Nat /\ MaxFault \in Nat

(* The two tables the hub polls, in this order.                            *)
Feed == {"event", "alert"}
RowId == 1 .. MaxRow
Message == [feed : Feed, id : RowId]

VARIABLES
  count,        \* count[f]: table f has the rows 1 .. count[f].
  orphans,      \* Rows whose source_id, rule_id or event_id has become NULL.
  boots,        \* How often the process has been started.
  faults,       \* How often a query has failed.
  hub,          \* Where Run is.
  feed,         \* The table that is being polled.
  cursor,       \* lastEventID and lastAlertID.
  result,       \* The rest of a poll's result: ids and whether Scan fails.
  maxID,        \* The largest id this poll has sent.
  broadcast,    \* The channel of messages.
  message,      \* The message Run is writing to the clients, or none.
  toWrite,      \* The clients it has not been written to yet.
  clients,      \* Hub.clients.
  conn,         \* conn[c]: what has become of connection c.
  since,        \* History: the cursors when c was admitted.
  got,          \* History: what has been written to c.
  unscanned     \* History: the rows a poll could not scan.

tableVars == <<count, orphans>>
procVars == <<boots, faults>>
pollVars == <<feed, cursor, result, maxID>>
sendVars == <<broadcast, message, toWrite>>
clientVars == <<clients, conn, since>>
vars == <<tableVars, procVars, hub, pollVars, sendVars, clientVars, got, unscanned>>

ConnState == {"none", "registering", "open", "stalled", "leaving", "closed"}

TypeOK ==
  /\ count \in [Feed -> 0 .. MaxRow]
  /\ orphans \in [Feed -> SUBSET RowId]
  /\ boots \in 0 .. MaxBoot /\ faults \in 0 .. MaxFault
  /\ hub \in {"down", "select", "query", "rows", "write"}
  /\ feed \in Feed
  /\ cursor \in [Feed -> 0 .. MaxRow]
  /\ result \in Seq([id : RowId, null : BOOLEAN]) /\ Len(result) <= Limit
  /\ maxID \in 0 .. MaxRow
  /\ broadcast \in Seq(Message) /\ Len(broadcast) <= Cap
  /\ message \in Message \cup {<<>>}
  /\ toWrite \subseteq clients
  /\ clients \subseteq Clients
  /\ conn \in [Clients -> ConnState]
  /\ since \in [Clients -> [Feed -> 0 .. MaxRow]]
  /\ got \in [Clients -> Seq(Message)]
  /\ unscanned \in [Feed -> SUBSET RowId]

NoRows == [f \in Feed |-> {}]
Zero == [f \in Feed |-> 0]

Init ==
  /\ count = Zero /\ orphans = NoRows
  /\ boots = 0 /\ faults = 0
  /\ hub = "down" /\ feed = "event" /\ cursor = Zero /\ result = <<>> /\ maxID = 0
  /\ broadcast = <<>> /\ message = <<>> /\ toWrite = {}
  /\ clients = {} /\ conn = [c \in Clients |-> "none"]
  /\ since = [c \in Clients |-> Zero] /\ got = [c \in Clients |-> <<>>]
  /\ unscanned = NoRows
-----------------------------------------------------------------------------
(* The log parser, or the rule engine, commits a row.                      *)
InsertRow(f) ==
  /\ count["event"] + count["alert"] < MaxRow
  /\ count' = [count EXCEPT ![f] = @ + 1]
  /\ UNCHANGED <<orphans, procVars, hub, pollVars, sendVars, clientVars, got, unscanned>>

(* What a row refers to is deleted (ON DELETE SET NULL).  Each row has a   *)
(* log source or a rule of its own: any set of rows can lose theirs.       *)
OrphanRow(f, i) ==
  /\ i <= count[f] /\ i \notin orphans[f]
  /\ orphans' = [orphans EXCEPT ![f] = @ \cup {i}]
  /\ UNCHANGED <<count, procVars, hub, pollVars, sendVars, clientVars, got, unscanned>>
-----------------------------------------------------------------------------
(* The first rows after the cursor.  Scan cannot put NULL into an int64.   *)
Window(f) ==
  LET n == IF cursor[f] + Limit < count[f] THEN Limit ELSE count[f] - cursor[f]
  IN  [k \in 1 .. n |-> [id |-> cursor[f] + k, null |-> cursor[f] + k \in orphans[f]]]

(* Go on with the alerts after the events, with the select after those.    *)
NextFeed ==
  /\ hub' = IF feed = "event" THEN "query" ELSE "select"
  /\ feed' = IF feed = "event" THEN "alert" ELSE "event"
  /\ result' = <<>> /\ maxID' = 0

Fault == faults < MaxFault /\ faults' = faults + 1
-----------------------------------------------------------------------------
(* Mistakes a change of this code could make, one per property; each takes *)
(* the place of the action it is named after in a mutation run.            *)

(* The cursor takes the table's last id, not the last id sent.             *)
EndOfRowsTakesLast ==
  /\ hub = "rows"
  /\ IF result = <<>> THEN UNCHANGED faults ELSE Fault
  /\ cursor' = [cursor EXCEPT ![feed] = count[feed]]
  /\ NextFeed
  /\ UNCHANGED <<tableVars, boots, sendVars, clientVars, got, unscanned>>

(* The cursor stays where it is, so that every tick sends all rows again.  *)
EndOfRowsForgets ==
  /\ hub = "rows"
  /\ IF result = <<>> THEN UNCHANGED faults ELSE Fault
  /\ NextFeed
  /\ UNCHANGED <<tableVars, boots, cursor, sendVars, clientVars, got, unscanned>>

(* Run takes only connections that are still in the map from unregister.   *)
UnregisterMapped(c) ==
  /\ hub = "select" /\ conn[c] = "leaving" /\ c \in clients
  /\ conn' = [conn EXCEPT ![c] = "closed"] /\ clients' = clients \ {c}
  /\ UNCHANGED <<tableVars, procVars, hub, pollVars, sendVars, since, got, unscanned>>

(* A row that cannot be scanned is the last of its poll.                   *)
ScanFailsBreaks ==
  /\ hub = "rows" /\ result # <<>> /\ Head(result).null
  /\ unscanned' = [unscanned EXCEPT ![feed] = @ \cup {Head(result).id}]
  /\ result' = <<>>
  /\ UNCHANGED <<tableVars, procVars, hub, feed, cursor, maxID, sendVars, clientVars, got>>
-----------------------------------------------------------------------------
(* Run begins.  It ignores a failure of the queries for the last ids: the  *)
(* id is 0 then, and the polls go through the whole table.                 *)
Boot ==
  /\ hub = "down" /\ boots < MaxBoot
  /\ boots' = boots + 1
  /\ hub' = "select"
  /\ cursor' \in {k \in [Feed -> 0 .. MaxRow] : \A f \in Feed : k[f] \in {0, count[f]}}
  /\ UNCHANGED <<tableVars, faults, feed, result, maxID, sendVars, clientVars, got, unscanned>>

(* The process ends, after a signal or in a crash, and with it every       *)
(* connection.                                                             *)
Exit ==
  /\ hub # "down"
  /\ hub' = "down" /\ feed' = "event" /\ cursor' = Zero /\ result' = <<>> /\ maxID' = 0
  /\ broadcast' = <<>> /\ message' = <<>> /\ toWrite' = {}
  /\ clients' = {}
  /\ conn' = [c \in Clients |-> IF conn[c] = "none" THEN "none" ELSE "closed"]
  /\ UNCHANGED <<tableVars, procVars, since, got, unscanned>>
-----------------------------------------------------------------------------
(* HandleWebSocket has upgraded a connection and sends it to register.     *)
Connect(c) ==
  /\ hub # "down" /\ conn[c] = "none"
  /\ conn' = [conn EXCEPT ![c] = "registering"]
  /\ UNCHANGED <<tableVars, procVars, hub, pollVars, sendVars, clients, since, got, unscanned>>

(* The peer stops to read, and with full buffers a write to it blocks;     *)
(* or it goes on.                                                          *)
Stall(c) ==
  /\ conn[c] \in {"open", "stalled"}
  /\ conn' = [conn EXCEPT ![c] = IF @ = "open" THEN "stalled" ELSE "open"]
  /\ UNCHANGED <<tableVars, procVars, hub, pollVars, sendVars, clients, since, got, unscanned>>

(* The peer is gone: ReadMessage fails, and the read loop's goroutine      *)
(* sends the connection to unregister.                                     *)
Leave(c) ==
  /\ conn[c] \in {"open", "stalled"}
  /\ conn' = [conn EXCEPT ![c] = "leaving"]
  /\ UNCHANGED <<tableVars, procVars, hub, pollVars, sendVars, clients, since, got, unscanned>>

(* The cases of Run's select.                                              *)
Register(c) ==
  /\ hub = "select" /\ conn[c] = "registering"
  /\ conn' = [conn EXCEPT ![c] = "open"] /\ clients' = clients \cup {c}
  /\ since' = [since EXCEPT ![c] = cursor]
  /\ UNCHANGED <<tableVars, procVars, hub, pollVars, sendVars, got, unscanned>>

Unregister(c) ==
  /\ hub = "select" /\ conn[c] = "leaving"
  /\ conn' = [conn EXCEPT ![c] = "closed"] /\ clients' = clients \ {c}
  /\ UNCHANGED <<tableVars, procVars, hub, pollVars, sendVars, since, got, unscanned>>

TakeMessage ==
  /\ hub = "select" /\ broadcast # <<>>
  /\ hub' = "write" /\ message' = Head(broadcast) /\ broadcast' = Tail(broadcast)
  /\ toWrite' = clients
  /\ UNCHANGED <<tableVars, procVars, pollVars, clientVars, got, unscanned>>

Tick ==
  /\ hub = "select"
  /\ hub' = "query"
  /\ UNCHANGED <<tableVars, procVars, pollVars, sendVars, clientVars, got, unscanned>>
-----------------------------------------------------------------------------
(* WriteMessage to the next client of the map, in no particular order.     *)
Write(c) ==
  /\ hub = "write" /\ c \in toWrite /\ conn[c] # "stalled"
  /\ toWrite' = toWrite \ {c}
  /\ got' = [got EXCEPT ![c] = Append(@, message)]
  /\ UNCHANGED <<tableVars, procVars, hub, pollVars, broadcast, message, clientVars, unscanned>>

(* The peer is gone, and the client is closed and deleted; its read loop   *)
(* sends it to unregister nevertheless.                                    *)
WriteFails(c) ==
  /\ hub = "write" /\ c \in toWrite /\ conn[c] = "leaving"
  /\ toWrite' = toWrite \ {c} /\ clients' = clients \ {c}
  /\ UNCHANGED <<tableVars, procVars, hub, pollVars, broadcast, message, conn, since, got, unscanned>>

Written ==
  /\ hub = "write" /\ toWrite = {}
  /\ hub' = "select" /\ message' = <<>>
  /\ UNCHANGED <<tableVars, procVars, pollVars, broadcast, toWrite, clientVars, got, unscanned>>
-----------------------------------------------------------------------------
(* pollEvents and pollAlerts.                                              *)
Query ==
  /\ hub = "query"
  /\ hub' = "rows" /\ result' = Window(feed) /\ maxID' = 0
  /\ UNCHANGED <<tableVars, procVars, feed, cursor, sendVars, clientVars, got, unscanned>>

QueryFails ==
  /\ hub = "query" /\ Fault
  /\ NextFeed
  /\ UNCHANGED <<tableVars, boots, cursor, sendVars, clientVars, got, unscanned>>

(* h.broadcast <- bytes, by the goroutine that alone receives from it.     *)
SendRow ==
  /\ hub = "rows" /\ result # <<>> /\ ~Head(result).null
  /\ Len(broadcast) < Cap
  /\ broadcast' = Append(broadcast, [feed |-> feed, id |-> Head(result).id])
  /\ maxID' = Head(result).id /\ result' = Tail(result)
  /\ UNCHANGED <<tableVars, procVars, hub, feed, cursor, message, toWrite, clientVars,
                 got, unscanned>>

(* Scan fails: continue.                                                   *)
ScanFails ==
  /\ hub = "rows" /\ result # <<>> /\ Head(result).null
  /\ unscanned' = [unscanned EXCEPT ![feed] = @ \cup {Head(result).id}]
  /\ result' = Tail(result)
  /\ UNCHANGED <<tableVars, procVars, hub, feed, cursor, maxID, sendVars, clientVars, got>>

(* The result ends, or breaks off, which looks the same.                   *)
EndOfRows ==
  /\ hub = "rows"
  /\ IF result = <<>> THEN UNCHANGED faults ELSE Fault
  /\ cursor' = [cursor EXCEPT ![feed] = IF maxID > @ THEN maxID ELSE @]
  /\ NextFeed
  /\ UNCHANGED <<tableVars, boots, sendVars, clientVars, got, unscanned>>
-----------------------------------------------------------------------------
Tables ==
  \E f \in Feed : InsertRow(f) \/ \E i \in RowId : OrphanRow(f, i)

Peers == \E c \in Clients : Connect(c) \/ Stall(c) \/ Leave(c)

Select == Tick \/ TakeMessage \/ \E c \in Clients : Register(c) \/ Unregister(c)

Poll == Query \/ QueryFails \/ SendRow \/ ScanFails \/ EndOfRows

Broadcast == Written \/ \E c \in Clients : Write(c) \/ WriteFails(c)

Next == Tables \/ Peers \/ Boot \/ Exit \/ Select \/ Poll \/ Broadcast

Spec == Init /\ [][Next]_vars

(* Go's select chooses at random among the cases that are ready, so that   *)
(* none of them is passed over forever; the goroutine runs when it can.    *)
Fairness ==
  /\ SF_vars(Tick) /\ SF_vars(TakeMessage)
  /\ \A c \in Clients : SF_vars(Register(c)) /\ SF_vars(Unregister(c))
  /\ WF_vars(Poll) /\ WF_vars(Broadcast)

FairSpec == Spec /\ Fairness
-----------------------------------------------------------------------------
(* The rows of table f that c has been sent.                               *)
Sent(c, f) == {got[c][k].id : k \in {k \in 1 .. Len(got[c]) : got[c][k].feed = f}}

(* Per table a client gets the rows in the order of their ids, and none    *)
(* twice, over all ticks, failed polls and queued messages (the cursors).  *)
PushedInOrder ==
  \A c \in Clients : \A j, k \in 1 .. Len(got[c]) :
    j < k /\ got[c][j].feed = got[c][k].feed => got[c][j].id < got[c][k].id

(* m waits in the channel or is being written.                             *)
OnItsWay(c, m) ==
  \/ \E k \in 1 .. Len(broadcast) : broadcast[k] = m
  \/ m = message /\ c \in toWrite

(* No row is passed over: what the cursor has gone past since a client was *)
(* admitted has been written to it, is on its way, or could not be scanned *)
(* (pollEvents and pollAlerts against the register case).                  *)
NothingSkipped ==
  \A c \in clients, f \in Feed : \A i \in since[c][f] + 1 .. cursor[f] :
    \/ i \in unscanned[f]
    \/ i \in Sent(c, f)
    \/ OnItsWay(c, [feed |-> f, id |-> i])

(* A connection that has been released is not in the map: the hub neither  *)
(* writes to it nor keeps it in memory, whichever of the write error and   *)
(* the read error is handled first (unregister and broadcast cases).       *)
NoDeadClient == \A c \in Clients : conn[c] = "closed" => c \notin clients

(* Run waits for itself: it is the only receiver from the full channel it  *)
(* sends to.  Or it waits in WriteMessage for a peer that does not read.   *)
Stuck ==
  /\ hub = "rows" /\ result # <<>> /\ ~Head(result).null
  /\ Len(broadcast) = Cap
WaitsForPeer == hub = "write" /\ \E c \in toWrite : conn[c] = "stalled"
Held == Stuck \/ WaitsForPeer \/ hub = "down"

(* Every row of the poll's window refers to something deleted: the cursor  *)
(* cannot pass them.                                                       *)
Starved(f) ==
  Cardinality({i \in orphans[f] : i > cursor[f] /\ i <= cursor[f] + Limit}) = Limit

(* A new row is polled and its turn comes, unless Run is held up or the    *)
(* window has nothing but rows it cannot scan (pollEvents, pollAlerts).    *)
RowIsPolled ==
  \A f \in Feed, i \in RowId :
    (count[f] >= i /\ cursor[f] < i /\ hub # "down")
      ~> (cursor[f] >= i \/ i \in unscanned[f] \/ Starved(f) \/ Held)

(* A new connection is admitted, and one whose peer is gone is released,   *)
(* so that no goroutine waits forever, unless Run is held up (register and *)
(* the read loop's deferred unregister in HandleWebSocket).                *)
ClientIsServed ==
  \A c \in Clients, s \in {"registering", "leaving"} : conn[c] = s ~> conn[c] # s \/ Held

(* "WebSocket server memeriksa event baru setiap 500ms" (PENJELASAN.md:    *)
(* 658), it looks for new events every 500 ms: a poll comes to its end, so *)
(* that there can be another one.                                          *)
PollReturns == hub \in {"query", "rows"} ~> hub \in {"select", "down"}
=============================================================================
