------------------------------ MODULE HubProofs -----------------------------
(***************************************************************************)
(* What holds of Hub for every number of connections and rows, every       *)
(* capacity of the channel and every limit of the polls.                   *)
(***************************************************************************)
EXTENDS Hub, SequenceTheorems, TLAPS

-----------------------------------------------------------------------------
Row == [id : RowId, null : BOOLEAN]

LEMMA HeadTail ==
  ASSUME NEW S, NEW s \in Seq(S), s # <<>>
  PROVE  /\ Head(s) \in S /\ Head(s) = s[1]
         /\ Tail(s) \in Seq(S) /\ Len(s) \in Nat \ {0} /\ Len(Tail(s)) = Len(s) - 1
         /\ \A k \in 1 .. Len(Tail(s)) : k + 1 \in 1 .. Len(s) /\ Tail(s)[k] = s[k + 1]
  BY HeadTailProperties

LEMMA AppendParts ==
  ASSUME NEW S, NEW s \in Seq(S), NEW e \in S
  PROVE  /\ Append(s, e) \in Seq(S) /\ Len(Append(s, e)) = Len(s) + 1 /\ Len(s) \in Nat
         /\ \A k \in 1 .. Len(s) : Append(s, e)[k] = s[k]
         /\ Append(s, e)[Len(s) + 1] = e
  OBVIOUS

(* The type invariant, and what it rests on: a poll never looks past the   *)
(* end of a table, and Run writes to clients in one of its cases only.     *)
TypesOK ==
  /\ count \in [Feed -> 0 .. MaxRow] /\ orphans \in [Feed -> SUBSET RowId]
  /\ boots \in 0 .. MaxBoot /\ faults \in 0 .. MaxFault
  /\ hub \in {"down", "select", "query", "rows", "write"} /\ feed \in Feed
  /\ cursor \in [Feed -> 0 .. MaxRow] /\ maxID \in 0 .. MaxRow
  /\ unscanned \in [Feed -> SUBSET RowId]
PipeOK ==
  /\ result \in Seq(Row) /\ Len(result) <= Limit
  /\ broadcast \in Seq(Message) /\ Len(broadcast) <= Cap
  /\ IF hub = "write" THEN message \in Message ELSE message = <<>> /\ toWrite = {}
  /\ hub = "down" => broadcast = <<>>
ClientsOK ==
  /\ toWrite \subseteq clients /\ clients \subseteq Clients
  /\ conn \in [Clients -> ConnState]
  /\ since \in [Clients -> [Feed -> 0 .. MaxRow]]
  /\ got \in [Clients -> Seq(Message)]
  /\ hub = "down" => clients = {}
  /\ \A c \in clients : conn[c] \in {"open", "stalled", "leaving"}
  /\ \A c \in Clients : conn[c] \in {"none", "registering"} => got[c] = <<>>
CursorsOK ==
  /\ \A f \in Feed : cursor[f] <= count[f]
  /\ hub = "rows" =>
       maxID <= count[feed] /\ \A k \in 1 .. Len(result) : result[k].id <= count[feed]

TypeInv == TypesOK /\ PipeOK /\ ClientsOK /\ CursorsOK

LEMMA TypeInvImplies == TypeInv => TypeOK /\ NoDeadClient
  BY DEF TypeInv, TypesOK, PipeOK, ClientsOK, TypeOK, NoDeadClient, Row

LEMMA TypeInvInit == Init => TypeInv
  <1> SUFFICES ASSUME Init PROVE TypeInv
    OBVIOUS
  <1>1. Zero \in [Feed -> 0 .. MaxRow] /\ \A f \in Feed : Zero[f] = 0
    BY BoundAssumption DEF Zero
  <1>2. TypesOK
    BY <1>1, BoundAssumption DEF Init, TypesOK, NoRows, Feed
  <1>3. PipeOK
    BY CapAssumption DEF Init, PipeOK
  <1>4. ClientsOK
    BY <1>1 DEF Init, ClientsOK, ConnState
  <1>5. CursorsOK
    BY <1>1 DEF Init, CursorsOK
  <1> QED BY <1>2, <1>3, <1>4, <1>5 DEF TypeInv

(* The steps that concern the tables, the peers and the select leave a     *)
(* poll and its rows alone; each kind of step touches one part.            *)
LEMMA WindowType ==
  ASSUME TypeInv, NEW f \in Feed
  PROVE  /\ Window(f) \in Seq(Row) /\ Len(Window(f)) <= Limit
         /\ cursor[f] + Len(Window(f)) <= count[f] /\ Len(Window(f)) \in Nat
         /\ \A k \in 1 .. Len(Window(f)) : Window(f)[k].id = cursor[f] + k
  <1> DEFINE n == IF cursor[f] + Limit < count[f] THEN Limit ELSE count[f] - cursor[f]
  <1>1. /\ cursor[f] \in Nat /\ count[f] \in 0 .. MaxRow /\ cursor[f] <= count[f]
        /\ Limit \in Nat /\ MaxRow \in Nat
    BY CapAssumption, BoundAssumption DEF TypeInv, TypesOK, CursorsOK
  <1>2. n \in Nat /\ n <= Limit /\ cursor[f] + n <= count[f]
    BY <1>1
  <1> HIDE DEF n
  <1>3. \A k \in 1 .. n : cursor[f] + k \in RowId
    BY <1>1, <1>2 DEF RowId
  <1>4. Window(f) = [k \in 1 .. n |-> [id |-> cursor[f] + k, null |-> cursor[f] + k \in orphans[f]]]
    BY DEF Window, n
  <1>5. Window(f) \in [1 .. n -> Row]
    BY <1>3, <1>4 DEF Row
  <1> QED BY <1>2, <1>4, <1>5

LEMMA NextFeedType ==
  ASSUME TypeInv, NextFeed
  PROVE  /\ hub' \in {"query", "select"} /\ feed' \in Feed /\ maxID' \in 0 .. MaxRow
         /\ result' \in Seq(Row) /\ Len(result') <= Limit
  BY CapAssumption, BoundAssumption DEF TypeInv, TypesOK, NextFeed, Feed

LEMMA TypeInvNext ==
  ASSUME TypeInv, [Next]_vars
  PROVE  TypeInv'
  <1> USE DEF TypeInv
  <1>0. MaxRow \in Nat /\ MaxBoot \in Nat /\ MaxFault \in Nat /\ Cap \in Nat /\ Limit \in Nat
    BY CapAssumption, BoundAssumption
  <1>1. CASE UNCHANGED vars
    BY <1>1 DEF vars, tableVars, procVars, pollVars, sendVars, clientVars,
                TypesOK, PipeOK, ClientsOK, CursorsOK
  <1>2. ASSUME NEW f \in Feed, InsertRow(f) PROVE TypeInv'
    <2>1. /\ count[f] + 1 \in 0 .. MaxRow /\ count' = [count EXCEPT ![f] = count[f] + 1]
          /\ UNCHANGED <<orphans, procVars, hub, pollVars, sendVars, clientVars, got, unscanned>>
      <3>1. f = "event" \/ f = "alert"
        BY DEF Feed
      <3>2. count["event"] \in Nat /\ count["alert"] \in Nat
        BY <1>0 DEF TypesOK, Feed
      <3> QED BY <1>0, <1>2, <3>1, <3>2 DEF InsertRow
    <2>2. TypesOK'
      BY <2>1 DEF TypesOK, procVars, pollVars
    <2>3. PipeOK' /\ ClientsOK'
      BY <2>1 DEF PipeOK, ClientsOK, pollVars, sendVars, clientVars
    <2>4. CursorsOK'
      <3>1. \A g \in Feed : count[g] <= count'[g] /\ count[g] \in Nat /\ count'[g] \in Nat
        BY <1>0, <2>1 DEF TypesOK
      <3>2. maxID \in Nat /\ \A g \in Feed : cursor[g] \in Nat
        BY <1>0 DEF TypesOK
      <3>3. \A k \in 1 .. Len(result) : result[k].id \in Nat
        <4>1. \A k \in 1 .. Len(result) : result[k] \in Row
          BY DEF PipeOK
        <4>2. \A x \in Row : x.id \in Nat
          BY <1>0 DEF Row, RowId
        <4> QED BY <4>1, <4>2
      <3>4. UNCHANGED <<cursor, hub, feed, result, maxID>>
        BY <2>1 DEF pollVars
      <3>5. \A g \in Feed : cursor'[g] <= count'[g]
        BY <3>1, <3>2, <3>4 DEF CursorsOK
      <3>6. ASSUME hub = "rows"
            PROVE  maxID <= count'[feed] /\ \A k \in 1 .. Len(result) : result[k].id <= count'[feed]
        <4>1. feed \in Feed
          BY DEF TypesOK
        <4> QED BY <3>1, <3>2, <3>3, <3>6, <4>1 DEF CursorsOK
      <3> QED BY <3>4, <3>5, <3>6 DEF CursorsOK
    <2> QED BY <2>2, <2>3, <2>4
  <1>3. ASSUME NEW f \in Feed, NEW i \in RowId, OrphanRow(f, i) PROVE TypeInv'
    BY <1>3 DEF OrphanRow, TypesOK, PipeOK, ClientsOK, CursorsOK,
                procVars, pollVars, sendVars, clientVars
  <1>4. CASE Peers
    <2>1. /\ UNCHANGED <<tableVars, procVars, hub, pollVars, sendVars, clients, since, got, unscanned>>
          /\ conn' \in [Clients -> ConnState]
          /\ \A c \in clients : conn'[c] \in {"open", "stalled", "leaving"}
          /\ \A c \in Clients : conn'[c] \in {"none", "registering"} =>
               conn[c] \in {"none", "registering"}
      BY <1>4 DEF Peers, Connect, Stall, Leave, ClientsOK, ConnState
    <2> QED BY <2>1 DEF TypesOK, PipeOK, ClientsOK, CursorsOK, tableVars, procVars, pollVars, sendVars
  <1>5. CASE Boot
    <2>1. /\ boots' \in 0 .. MaxBoot /\ hub = "down" /\ hub' = "select"
          /\ cursor' \in [Feed -> 0 .. MaxRow] /\ \A f \in Feed : cursor'[f] \in {0, count[f]}
          /\ UNCHANGED <<tableVars, faults, feed, result, maxID, sendVars, clientVars, got, unscanned>>
      BY <1>0, <1>5 DEF Boot, TypesOK
    <2>2. CursorsOK'
      BY <1>0, <2>1 DEF CursorsOK, tableVars, TypesOK
    <2> QED BY <2>1, <2>2 DEF TypesOK, PipeOK, ClientsOK, tableVars, sendVars, clientVars
  <1>6. CASE Exit
    <2>1. Zero \in [Feed -> 0 .. MaxRow] /\ \A f \in Feed : Zero[f] = 0
      BY <1>0 DEF Zero
    <2>2. TypesOK' /\ CursorsOK'
      BY <1>0, <1>6, <2>1 DEF Exit, TypesOK, CursorsOK, tableVars, procVars, Feed
    <2>3. PipeOK'
      BY <1>0, <1>6 DEF Exit, PipeOK
    <2>4. ClientsOK'
      BY <1>6 DEF Exit, ClientsOK, ConnState
    <2> QED BY <2>2, <2>3, <2>4
  <1>7. ASSUME NEW c \in Clients, Register(c) PROVE TypeInv'
    BY <1>7 DEF Register, TypesOK, PipeOK, ClientsOK, CursorsOK, ConnState,
                tableVars, procVars, pollVars, sendVars
  <1>8. ASSUME NEW c \in Clients, Unregister(c) PROVE TypeInv'
    BY <1>8 DEF Unregister, TypesOK, PipeOK, ClientsOK, CursorsOK, ConnState,
                tableVars, procVars, pollVars, sendVars
  <1>9. CASE TakeMessage
    <2>1. /\ Head(broadcast) \in Message /\ Tail(broadcast) \in Seq(Message)
          /\ Len(Tail(broadcast)) <= Cap
      BY <1>0, <1>9, HeadTail DEF TakeMessage, PipeOK
    <2> QED BY <1>9, <2>1 DEF TakeMessage, TypesOK, PipeOK, ClientsOK, CursorsOK,
                              tableVars, procVars, pollVars, clientVars
  <1>10. CASE Tick
    BY <1>10 DEF Tick, TypesOK, PipeOK, ClientsOK, CursorsOK,
                 tableVars, procVars, pollVars, sendVars, clientVars
  <1>11. ASSUME NEW c \in Clients, Write(c) PROVE TypeInv'
    <2>1. message \in Message /\ c \in clients /\ got' = [got EXCEPT ![c] = Append(got[c], message)]
      BY <1>11 DEF Write, PipeOK, ClientsOK
    <2>2. Append(got[c], message) \in Seq(Message)
      BY <2>1 DEF ClientsOK
    <2>3. TypesOK' /\ PipeOK' /\ CursorsOK'
      BY <1>11, <2>1 DEF Write, TypesOK, PipeOK, CursorsOK, tableVars, procVars, pollVars
    <2>4. got' \in [Clients -> Seq(Message)] /\ \A d \in Clients : d # c => got'[d] = got[d]
      BY <2>1, <2>2 DEF ClientsOK
    <2>5. ClientsOK'
      BY <1>11, <2>1, <2>4 DEF Write, ClientsOK, clientVars
    <2> QED BY <2>3, <2>5
  <1>12. ASSUME NEW c \in Clients, WriteFails(c) PROVE TypeInv'
    BY <1>12 DEF WriteFails, TypesOK, PipeOK, ClientsOK, CursorsOK,
                 tableVars, procVars, pollVars
  <1>13. CASE Written
    BY <1>13 DEF Written, TypesOK, PipeOK, ClientsOK, CursorsOK,
                 tableVars, procVars, pollVars, clientVars
  <1>14. CASE Query
    <2>1. result' \in Seq(Row) /\ Len(result') <= Limit
      BY <1>14, WindowType DEF Query, TypesOK
    <2>2. CursorsOK'
      <3>1. /\ cursor[feed] + Len(result') <= count[feed] /\ Len(result') \in Nat
            /\ \A k \in 1 .. Len(result') : result'[k].id = cursor[feed] + k
        BY <1>14, WindowType DEF Query, TypesOK
      <3>2. cursor[feed] \in Nat /\ count[feed] \in Nat
        BY <1>0 DEF TypesOK
      <3>3. \A k \in 1 .. Len(result') : result'[k].id <= count[feed]
        BY <3>1, <3>2
      <3> QED BY <1>14, <3>2, <3>3 DEF Query, CursorsOK, tableVars
    <2> QED BY <1>0, <1>14, <2>1, <2>2 DEF Query, TypesOK, PipeOK, ClientsOK,
                                           tableVars, procVars, sendVars, clientVars
  <1>15. CASE QueryFails
    <2>1. faults' \in 0 .. MaxFault
      BY <1>0, <1>15 DEF QueryFails, Fault, TypesOK
    <2> QED BY <1>15, <2>1, NextFeedType DEF QueryFails, TypesOK, PipeOK, ClientsOK, CursorsOK,
                                             tableVars, sendVars, clientVars
  <1>16. CASE SendRow
    <2>1. /\ Head(result) \in Row /\ Tail(result) \in Seq(Row) /\ Len(Tail(result)) <= Limit
      BY <1>0, <1>16, HeadTail DEF SendRow, PipeOK
    <2>2. Head(result).id \in RowId /\ [feed |-> feed, id |-> Head(result).id] \in Message
      BY <2>1 DEF Row, Message, TypesOK
    <2>3. broadcast' \in Seq(Message) /\ Len(broadcast') <= Cap
      BY <1>0, <1>16, <2>2, AppendParts DEF SendRow, PipeOK
    <2>4. maxID' \in 0 .. MaxRow
      BY <1>0, <1>16, <2>2 DEF SendRow, RowId
    <2>5. CursorsOK'
      BY <1>16, HeadTail DEF SendRow, CursorsOK, PipeOK, tableVars
    <2> QED BY <1>16, <2>1, <2>3, <2>4, <2>5 DEF SendRow, TypesOK, PipeOK, ClientsOK,
                                                 tableVars, procVars, clientVars
  <1>17. CASE ScanFails
    <2>1. /\ Head(result) \in Row /\ Tail(result) \in Seq(Row) /\ Len(Tail(result)) <= Limit
      BY <1>0, <1>17, HeadTail DEF ScanFails, PipeOK
    <2>2. unscanned' \in [Feed -> SUBSET RowId]
      BY <1>17, <2>1 DEF ScanFails, Row, TypesOK
    <2>3. CursorsOK'
      BY <1>17, HeadTail DEF ScanFails, CursorsOK, PipeOK, tableVars
    <2> QED BY <1>17, <2>1, <2>2, <2>3 DEF ScanFails, TypesOK, PipeOK, ClientsOK,
                                           tableVars, procVars, sendVars, clientVars
  <1>18. CASE EndOfRows
    <2>1. faults' \in 0 .. MaxFault
      BY <1>0, <1>18 DEF EndOfRows, Fault, TypesOK
    <2>2. /\ NextFeed /\ UNCHANGED <<tableVars, boots, sendVars, clientVars, got, unscanned>>
          /\ cursor' = [cursor EXCEPT ![feed] = IF maxID > cursor[feed] THEN maxID ELSE cursor[feed]]
          /\ hub = "rows"
      BY <1>18 DEF EndOfRows
    <2>3. cursor' \in [Feed -> 0 .. MaxRow] /\ \A f \in Feed : cursor'[f] <= count[f]
      BY <1>0, <2>2 DEF TypesOK, CursorsOK
    <2>4. CursorsOK'
      BY <2>2, <2>3, NextFeedType DEF CursorsOK, tableVars
    <2> QED BY <2>1, <2>2, <2>3, <2>4, NextFeedType DEF TypesOK, PipeOK, ClientsOK,
                                                        tableVars, sendVars, clientVars
  <1> QED BY <1>1, <1>2, <1>3, <1>4, <1>5, <1>6, <1>7, <1>8, <1>9, <1>10, <1>11, <1>12, <1>13,
             <1>14, <1>15, <1>16, <1>17, <1>18
          DEF Next, Tables, Select, Poll, Broadcast

LEMMA TypeInvAlways == Spec => []TypeInv
  <1>1. TypeInv /\ [Next]_vars => TypeInv'
    BY TypeInvNext
  <1> QED BY <1>1, TypeInvInit, PTL DEF Spec

(* The types, and the bound of the channel.                                *)
THEOREM TypeCorrect == Spec => []TypeOK
  BY TypeInvAlways, TypeInvImplies, PTL

(* Whatever fails first, a connection that is closed is in the map no more. *)
THEOREM TheDeadAreReleased == Spec => []NoDeadClient
  BY TypeInvAlways, TypeInvImplies, PTL
-----------------------------------------------------------------------------
(* A row goes from the poll's result into the channel, from there to the   *)
(* message that is written, and then to the clients.  Per table the ids    *)
(* grow against that direction, and what was sent ends at Top.             *)
Top ==
  [f \in Feed |-> IF hub = "rows" /\ feed = f /\ maxID > cursor[f] THEN maxID ELSE cursor[f]]

(* m has been sent before n if they are of one table.                      *)
Ahead(m, n) == m.feed = n.feed => m.id < n.id

PollAt(pos) ==
  Top[feed] <= pos /\ \A k \in 1 .. Len(result) : result[k].id = pos + k

ResultOrder == hub = "rows" => \E pos \in Nat : PollAt(pos)
ChannelOrder ==
  /\ \A k \in 1 .. Len(broadcast) : broadcast[k].id <= Top[broadcast[k].feed]
  /\ \A j, k \in 1 .. Len(broadcast) : j < k => Ahead(broadcast[j], broadcast[k])
MessageOrder ==
  hub = "write" =>
    /\ message.id <= Top[message.feed]
    /\ \A k \in 1 .. Len(broadcast) : Ahead(message, broadcast[k])
GotOrder(c) ==
  \A j \in 1 .. Len(got[c]) :
    /\ got[c][j].id <= Top[got[c][j].feed]
    /\ \A k \in 1 .. Len(broadcast) : Ahead(got[c][j], broadcast[k])
    /\ c \in toWrite => Ahead(got[c][j], message)
GotInOrder(c) ==
  \A j, k \in 1 .. Len(got[c]) : j < k => Ahead(got[c][j], got[c][k])

OrderInv ==
  /\ ResultOrder /\ ChannelOrder /\ MessageOrder
  /\ \A c \in clients : GotOrder(c)
  /\ \A c \in Clients : GotInOrder(c)

LEMMA OrderInvImplies == OrderInv => PushedInOrder
  BY DEF OrderInv, GotInOrder, PushedInOrder, Ahead

LEMMA MessageFields ==
  ASSUME TypeInv
  PROVE  /\ \A m \in Message : m.feed \in Feed /\ m.id \in RowId /\ m.id \in Nat
         /\ \A k \in 1 .. Len(broadcast) : broadcast[k] \in Message
         /\ \A c \in Clients : \A k \in 1 .. Len(got[c]) : got[c][k] \in Message
         /\ hub = "write" => message \in Message
         /\ \A f \in Feed : Top[f] \in Nat /\ cursor[f] \in Nat /\ cursor[f] <= Top[f]
         /\ maxID \in Nat
  <1>1. \A m \in Message : m.feed \in Feed /\ m.id \in RowId /\ m.id \in Nat
    BY BoundAssumption DEF Message, RowId
  <1>2. \A k \in 1 .. Len(broadcast) : broadcast[k] \in Message
    BY DEF TypeInv, PipeOK
  <1>3. ASSUME NEW c \in Clients PROVE \A k \in 1 .. Len(got[c]) : got[c][k] \in Message
    <2>1. got[c] \in Seq(Message)
      BY DEF TypeInv, ClientsOK
    <2> QED BY <2>1
  <1>4. maxID \in Nat /\ \A f \in Feed : cursor[f] \in Nat
    BY BoundAssumption DEF TypeInv, TypesOK
  <1>5. \A f \in Feed : Top[f] \in Nat /\ cursor[f] <= Top[f]
    BY <1>4 DEF Top
  <1> QED BY <1>1, <1>2, <1>3, <1>4, <1>5 DEF TypeInv, PipeOK

(* Steps after which the rows on their way are where they were.            *)
LEMMA OrderKept ==
  ASSUME TypeInv, OrderInv, \A f \in Feed : Top'[f] = Top[f], UNCHANGED <<broadcast, got>>,
         hub' = "write" => hub = "write" /\ message' = message,
         toWrite' \subseteq toWrite, toWrite' # {} => message' = message,
         \A c \in clients' : c \in clients \/ got[c] = <<>>,
         ResultOrder'
  PROVE  OrderInv'
  <1>1. ChannelOrder' /\ MessageOrder'
    BY MessageFields DEF OrderInv, ChannelOrder, MessageOrder
  <1>2. ASSUME NEW c \in clients', c \in clients PROVE GotOrder(c)'
    <2>1. c \in Clients
      BY <1>2 DEF TypeInv, ClientsOK
    <2> QED BY <1>2, <2>1, MessageFields DEF OrderInv, GotOrder
  <1>3. ASSUME NEW c \in clients', got[c] = <<>> PROVE GotOrder(c)'
    BY <1>3 DEF GotOrder
  <1>4. \A c \in Clients : GotInOrder(c)'
    BY DEF OrderInv, GotInOrder
  <1> QED BY <1>1, <1>2, <1>3, <1>4 DEF OrderInv

LEMMA OrderTake ==
  ASSUME TypeInv, OrderInv, TakeMessage
  PROVE  OrderInv'
  <1>1. /\ message' = broadcast[1] /\ toWrite' = clients /\ clients' = clients /\ got' = got
        /\ hub' = "write" /\ \A k \in 1 .. Len(broadcast') :
                               k + 1 \in 1 .. Len(broadcast) /\ broadcast'[k] = broadcast[k + 1]
        /\ Len(broadcast) \in Nat \ {0} /\ 1 \in 1 .. Len(broadcast)
    BY HeadTail DEF TakeMessage, TypeInv, PipeOK, clientVars
  <1>2. \A f \in Feed : Top'[f] = Top[f]
    BY DEF TakeMessage, pollVars, Top
  <1>3. ChannelOrder'
    <2>1. \A k \in 1 .. Len(broadcast') : broadcast'[k].id <= Top'[broadcast'[k].feed]
      BY <1>1, <1>2, MessageFields DEF OrderInv, ChannelOrder
    <2>2. \A j, k \in 1 .. Len(broadcast') : j < k => Ahead(broadcast'[j], broadcast'[k])
      BY <1>1 DEF OrderInv, ChannelOrder
    <2> QED BY <2>1, <2>2 DEF ChannelOrder, Ahead
  <1>4. MessageOrder'
    <2>1. message'.id <= Top'[message'.feed]
      BY <1>1, <1>2, MessageFields DEF OrderInv, ChannelOrder
    <2>2. \A k \in 1 .. Len(broadcast') : Ahead(message', broadcast'[k])
      <3>1. \A k \in 1 .. Len(broadcast') : 1 < k + 1
        OBVIOUS
      <3> QED BY <1>1, <3>1 DEF OrderInv, ChannelOrder
    <2> QED BY <2>1, <2>2 DEF MessageOrder, Ahead
  <1>5. ASSUME NEW c \in clients PROVE GotOrder(c)'
    <2>1. c \in Clients
      BY DEF TypeInv, ClientsOK
    <2>2. \A j \in 1 .. Len(got[c]) : got[c][j].id <= Top'[got[c][j].feed]
      BY <1>2, <2>1, MessageFields DEF OrderInv, GotOrder
    <2> QED BY <1>1, <2>2 DEF OrderInv, GotOrder, Ahead
  <1>6. \A c \in Clients : GotInOrder(c)'
    BY <1>1 DEF OrderInv, GotInOrder, Ahead
  <1> QED BY <1>1, <1>3, <1>4, <1>5, <1>6 DEF OrderInv, ResultOrder

LEMMA OrderWrite ==
  ASSUME TypeInv, OrderInv, NEW c \in Clients, Write(c)
  PROVE  OrderInv'
  <1>1. /\ c \in toWrite /\ c \in clients /\ hub = "write" /\ message \in Message
        /\ got[c] \in Seq(Message) /\ got' = [got EXCEPT ![c] = Append(got[c], message)]
        /\ toWrite' = toWrite \ {c} /\ UNCHANGED <<hub, broadcast, message, clients>>
    BY DEF Write, TypeInv, PipeOK, ClientsOK, clientVars
  <1>2. \A f \in Feed : Top'[f] = Top[f]
    BY DEF Write, pollVars, Top
  <1>3. /\ got'[c] = Append(got[c], message) /\ Len(got'[c]) = Len(got[c]) + 1
        /\ Len(got[c]) \in Nat
        /\ \A j \in 1 .. Len(got[c]) : got'[c][j] = got[c][j]
        /\ got'[c][Len(got[c]) + 1] = message
        /\ \A d \in Clients : d # c => got'[d] = got[d]
    BY <1>1, AppendParts DEF TypeInv, ClientsOK
  <1>4. \A j \in 1 .. Len(got'[c]) : j \in 1 .. Len(got[c]) \/ j = Len(got[c]) + 1
    BY <1>3
  <1>5. ChannelOrder' /\ MessageOrder'
    BY <1>1, <1>2, MessageFields DEF OrderInv, ChannelOrder, MessageOrder, Ahead
  <1>6. ResultOrder'
    BY <1>1 DEF ResultOrder
  <1>7. ASSUME NEW d \in clients, d # c PROVE GotOrder(d)'
    <2>1. d \in Clients /\ got'[d] = got[d]
      BY <1>3, <1>7 DEF TypeInv, ClientsOK
    <2>2. \A j \in 1 .. Len(got[d]) : got[d][j].id <= Top'[got[d][j].feed]
      BY <1>2, <2>1, MessageFields DEF OrderInv, GotOrder
    <2>3. GotOrder(d) /\ (d \in toWrite' => d \in toWrite)
      BY <1>1 DEF OrderInv
    <2>4. \A j \in 1 .. Len(got[d]) :
            /\ \A k \in 1 .. Len(broadcast) : Ahead(got[d][j], broadcast[k])
            /\ d \in toWrite' => Ahead(got[d][j], message)
      BY <2>3 DEF GotOrder
    <2>5. broadcast' = broadcast /\ message' = message
      BY <1>1
    <2>6. \A j \in 1 .. Len(got'[d]) :
            /\ got'[d][j].id <= Top'[got'[d][j].feed]
            /\ \A k \in 1 .. Len(broadcast') : Ahead(got'[d][j], broadcast'[k])
            /\ d \in toWrite' => Ahead(got'[d][j], message')
      BY <2>1, <2>2, <2>4, <2>5
    <2> QED BY <2>6 DEF GotOrder, Ahead
  <1>8. GotOrder(c)'
    <2>1. ASSUME NEW j \in 1 .. Len(got'[c])
          PROVE  /\ got'[c][j].id <= Top'[got'[c][j].feed]
                 /\ \A k \in 1 .. Len(broadcast) : Ahead(got'[c][j], broadcast[k])
      <3>1. CASE j \in 1 .. Len(got[c])
        BY <1>1, <1>2, <1>3, <3>1, MessageFields DEF OrderInv, GotOrder
      <3>2. CASE j = Len(got[c]) + 1
        BY <1>1, <1>2, <1>3, <3>2, MessageFields DEF OrderInv, MessageOrder
      <3> QED BY <1>4, <3>1, <3>2
    <2> QED BY <1>1, <2>1 DEF GotOrder, Ahead
  <1>9. GotInOrder(c)'
    <2>1. ASSUME NEW j \in 1 .. Len(got'[c]), NEW k \in 1 .. Len(got'[c]), j < k
          PROVE  Ahead(got'[c][j], got'[c][k])
      <3>1. j \in 1 .. Len(got[c])
        BY <1>3, <2>1
      <3>2. CASE k \in 1 .. Len(got[c])
        BY <1>3, <2>1, <3>1, <3>2 DEF OrderInv, GotInOrder
      <3>3. CASE k = Len(got[c]) + 1
        BY <1>1, <1>3, <3>1, <3>3 DEF OrderInv, GotOrder
      <3> QED BY <1>4, <3>2, <3>3
    <2> QED BY <2>1 DEF GotInOrder, Ahead
  <1>10. \A d \in Clients : d # c => GotInOrder(d)'
    BY <1>3 DEF OrderInv, GotInOrder, Ahead
  <1> QED BY <1>1, <1>5, <1>6, <1>7, <1>8, <1>9, <1>10 DEF OrderInv

LEMMA OrderSend ==
  ASSUME TypeInv, OrderInv, SendRow
  PROVE  OrderInv'
  <1>1. PICK pos \in Nat : PollAt(pos)
    BY DEF SendRow, OrderInv, ResultOrder
  <1>2. PICK m \in Message :
          m = [feed |-> feed, id |-> result[1].id] /\ broadcast' = Append(broadcast, m)
    <2>1. Head(result) \in Row /\ Head(result) = result[1]
      BY HeadTail DEF SendRow, TypeInv, PipeOK
    <2> QED BY <2>1 DEF SendRow, Row, Message, TypeInv, TypesOK
  <1>3. /\ hub = "rows" /\ hub' = "rows" /\ feed' = feed /\ cursor' = cursor /\ feed \in Feed
        /\ maxID' = m.id /\ m.feed = feed /\ m.id = pos + 1
        /\ Len(result) \in Nat \ {0}
        /\ \A k \in 1 .. Len(result') : k + 1 \in 1 .. Len(result) /\ result'[k] = result[k + 1]
        /\ toWrite = {} /\ UNCHANGED <<message, toWrite, clients, got>>
    BY <1>1, <1>2, HeadTail DEF SendRow, PollAt, TypeInv, PipeOK, TypesOK, clientVars
  <1>4. /\ Top'[feed] = m.id /\ m.id \in Nat
        /\ \A f \in Feed : Top[f] <= Top'[f] /\ Top[f] \in Nat /\ Top'[f] \in Nat
        /\ Top[feed] < m.id
    BY <1>1, <1>3, MessageFields DEF Top, PollAt
  <1>5. ResultOrder'
    <2>1. \A k \in 1 .. Len(result') : result'[k].id = (pos + 1) + k
      <3>1. \A k \in 1 .. Len(result') : result'[k].id = pos + (k + 1)
        BY <1>1, <1>3 DEF PollAt
      <3> QED BY <3>1
    <2>2. PollAt(pos + 1)'
      BY <1>3, <1>4, <2>1 DEF PollAt
    <2> QED BY <2>2 DEF ResultOrder
  <1>6. /\ Len(broadcast') = Len(broadcast) + 1 /\ Len(broadcast) \in Nat
        /\ \A k \in 1 .. Len(broadcast) : broadcast'[k] = broadcast[k]
        /\ broadcast'[Len(broadcast) + 1] = m
        /\ \A k \in 1 .. Len(broadcast') : k \in 1 .. Len(broadcast) \/ k = Len(broadcast) + 1
    BY <1>2, AppendParts DEF TypeInv, PipeOK
  <1>7. ASSUME NEW n \in Message, n.id <= Top[n.feed]
        PROVE  Ahead(n, m) /\ n.id <= Top'[n.feed]
    BY <1>3, <1>4, <1>7, MessageFields DEF Ahead
  <1>8. ChannelOrder'
    <2>1. ASSUME NEW k \in 1 .. Len(broadcast') PROVE broadcast'[k].id <= Top'[broadcast'[k].feed]
      <3>1. CASE k \in 1 .. Len(broadcast)
        BY <1>6, <1>7, <3>1, MessageFields DEF OrderInv, ChannelOrder
      <3>2. CASE k = Len(broadcast) + 1
        BY <1>3, <1>4, <1>6, <3>2
      <3> QED BY <1>6, <3>1, <3>2
    <2>2. ASSUME NEW j \in 1 .. Len(broadcast'), NEW k \in 1 .. Len(broadcast'), j < k
          PROVE  Ahead(broadcast'[j], broadcast'[k])
      <3>1. j \in 1 .. Len(broadcast)
        BY <1>6, <2>2
      <3>2. CASE k \in 1 .. Len(broadcast)
        BY <1>6, <2>2, <3>1, <3>2 DEF OrderInv, ChannelOrder
      <3>3. CASE k = Len(broadcast) + 1
        BY <1>6, <1>7, <3>1, <3>3, MessageFields DEF OrderInv, ChannelOrder
      <3> QED BY <1>6, <3>2, <3>3
    <2> QED BY <2>1, <2>2 DEF ChannelOrder, Ahead
  <1>9. ASSUME NEW c \in clients PROVE GotOrder(c)'
    <2>1. c \in Clients
      BY DEF TypeInv, ClientsOK
    <2>2. ASSUME NEW j \in 1 .. Len(got[c])
          PROVE  /\ got[c][j].id <= Top'[got[c][j].feed]
                 /\ \A k \in 1 .. Len(broadcast') : Ahead(got[c][j], broadcast'[k])
      <3>1. Ahead(got[c][j], m) /\ got[c][j].id <= Top'[got[c][j].feed]
        BY <1>7, <2>1, MessageFields DEF OrderInv, GotOrder
      <3>2. \A k \in 1 .. Len(broadcast) : Ahead(got[c][j], broadcast'[k])
        BY <1>6 DEF OrderInv, GotOrder
      <3> QED BY <1>6, <3>1, <3>2
    <2> QED BY <1>3, <2>2 DEF GotOrder, Ahead
  <1>10. \A c \in Clients : GotInOrder(c)'
    BY <1>3 DEF OrderInv, GotInOrder, Ahead
  <1> QED BY <1>3, <1>5, <1>8, <1>9, <1>10 DEF OrderInv, MessageOrder

LEMMA TopSame ==
  ASSUME TypeInv,
         \/ UNCHANGED <<feed, cursor, maxID, hub>>
         \/ UNCHANGED pollVars /\ hub # "rows" /\ hub' # "rows"
         \/ Query \/ QueryFails \/ ScanFails \/ EndOfRows
  PROVE  \A f \in Feed : Top'[f] = Top[f]
  <1>1. /\ maxID \in Nat /\ feed \in Feed
        /\ cursor \in [Feed -> 0 .. MaxRow] /\ \A f \in Feed : cursor[f] \in Nat
    BY BoundAssumption DEF TypeInv, TypesOK
  <1>2. CASE UNCHANGED <<feed, cursor, maxID, hub>>
    BY <1>2 DEF Top
  <1>3. CASE UNCHANGED pollVars /\ hub # "rows" /\ hub' # "rows"
    BY <1>3 DEF Top, pollVars
  <1>4. CASE Query
    BY <1>1, <1>4 DEF Query, Top
  <1>5. CASE QueryFails
    BY <1>5 DEF QueryFails, NextFeed, Top
  <1>6. CASE ScanFails
    BY <1>6 DEF ScanFails, Top
  <1>7. CASE EndOfRows
    <2>1. hub = "rows" /\ hub' # "rows"
      BY <1>7 DEF EndOfRows, NextFeed
    <2>2. cursor' = [cursor EXCEPT ![feed] = IF maxID > cursor[feed] THEN maxID ELSE cursor[feed]]
      BY <1>7 DEF EndOfRows
    <2>3. \A f \in Feed :
            cursor'[f] = IF feed = f /\ maxID > cursor[f] THEN maxID ELSE cursor[f]
      BY <1>1, <2>2
    <2> QED BY <2>1, <2>3 DEF Top
  <1> QED BY <1>2, <1>3, <1>4, <1>5, <1>6, <1>7

LEMMA OrderInvNext ==
  ASSUME TypeInv, OrderInv, [Next]_vars
  PROVE  OrderInv'
  <1>1. CASE \/ UNCHANGED vars \/ Tables \/ Peers
    <2>1. UNCHANGED <<hub, pollVars, sendVars, clients, got>>
      BY <1>1 DEF vars, clientVars, Tables, InsertRow, OrphanRow, Peers, Connect, Stall, Leave
    <2>2. \A f \in Feed : Top'[f] = Top[f]
      BY <2>1, TopSame DEF pollVars
    <2>3. feed \in Feed
      BY DEF TypeInv, TypesOK
    <2>4. ResultOrder'
      BY <2>1, <2>2, <2>3 DEF OrderInv, ResultOrder, PollAt, pollVars
    <2> QED BY <2>1, <2>2, <2>4, OrderKept DEF sendVars
  <1>2. CASE Boot \/ Exit
    <2>1. broadcast' = <<>> /\ clients' = {} /\ hub' \notin {"rows", "write"} /\ got' = got
      BY <1>2 DEF Boot, Exit, TypeInv, PipeOK, ClientsOK, sendVars, clientVars
    <2> QED BY <2>1 DEF OrderInv, ResultOrder, ChannelOrder, MessageOrder, GotInOrder
  <1>3. CASE \E c \in Clients : Register(c) \/ Unregister(c)
    <2>1. PICK c \in Clients : Register(c) \/ Unregister(c)
      BY <1>3
    <2>2. /\ UNCHANGED <<hub, pollVars, sendVars, got>> /\ hub = "select"
          /\ \A d \in clients' : d \in clients \/ got[d] = <<>>
      BY <2>1 DEF Register, Unregister, TypeInv, ClientsOK
    <2>3. \A f \in Feed : Top'[f] = Top[f]
      BY <2>2, TopSame
    <2> QED BY <2>2, <2>3, OrderKept DEF sendVars, ResultOrder
  <1>4. CASE Tick \/ Written
    <2>1. /\ UNCHANGED <<pollVars, broadcast, toWrite, clients, got>> /\ toWrite = {}
          /\ hub \notin {"rows"} /\ hub' \notin {"rows", "write"}
      BY <1>4 DEF Tick, Written, TypeInv, PipeOK, sendVars, clientVars
    <2>2. \A f \in Feed : Top'[f] = Top[f]
      BY <2>1, TopSame
    <2> QED BY <2>1, <2>2, OrderKept DEF ResultOrder
  <1>5. CASE \E c \in Clients : WriteFails(c)
    <2>1. PICK c \in Clients : WriteFails(c)
      BY <1>5
    <2>2. /\ UNCHANGED <<hub, pollVars, broadcast, message, got>>
          /\ toWrite' \subseteq toWrite /\ clients' \subseteq clients /\ hub = "write"
      BY <2>1 DEF WriteFails
    <2>3. \A f \in Feed : Top'[f] = Top[f]
      BY <2>2, TopSame DEF pollVars
    <2> QED BY <2>2, <2>3, OrderKept DEF ResultOrder
  <1>6. CASE Query
    <2>1. /\ hub' = "rows" /\ feed' = feed /\ feed \in Feed /\ result' = Window(feed)
          /\ UNCHANGED <<sendVars, clients, got>> /\ hub = "query" /\ cursor[feed] \in Nat
      BY <1>6, MessageFields DEF Query, clientVars, TypeInv, TypesOK
    <2>2. \A f \in Feed : Top'[f] = Top[f]
      BY <1>6, TopSame
    <2>3. Top[feed] = cursor[feed]
      BY <2>1 DEF Top
    <2>4. PollAt(cursor[feed])'
      <3>1. Top'[feed'] <= cursor[feed]
        BY <2>1, <2>2, <2>3
      <3>2. \A k \in 1 .. Len(result') : result'[k].id = cursor[feed] + k
        BY <2>1, WindowType
      <3>3. cursor' = cursor
        BY <1>6 DEF Query
      <3> QED BY <2>1, <3>1, <3>2, <3>3 DEF PollAt
    <2>5. ResultOrder'
      <3>1. cursor' = cursor
        BY <1>6 DEF Query
      <3> QED BY <2>1, <2>4, <3>1 DEF ResultOrder
    <2> QED BY <2>1, <2>2, <2>5, OrderKept DEF sendVars
  <1>7. CASE QueryFails \/ EndOfRows
    <2>1. UNCHANGED <<sendVars, clients, got>> /\ hub' \notin {"rows", "write"}
      BY <1>7 DEF QueryFails, EndOfRows, NextFeed, clientVars
    <2>2. \A f \in Feed : Top'[f] = Top[f]
      BY <1>7, TopSame
    <2> QED BY <2>1, <2>2, OrderKept DEF sendVars, ResultOrder
  <1>8. CASE ScanFails
    <2>1. /\ UNCHANGED <<hub, feed, sendVars, clients, got>> /\ hub = "rows" /\ feed \in Feed
          /\ \A k \in 1 .. Len(result') : k + 1 \in 1 .. Len(result) /\ result'[k] = result[k + 1]
      BY <1>8, HeadTail DEF ScanFails, clientVars, TypeInv, TypesOK, PipeOK
    <2>2. \A f \in Feed : Top'[f] = Top[f]
      BY <1>8, TopSame
    <2>3. PICK pos \in Nat : PollAt(pos)
      BY <2>1 DEF OrderInv, ResultOrder
    <2>4. PollAt(pos + 1)'
      <3>1. Top'[feed] <= pos + 1
        BY <2>1, <2>2, <2>3, MessageFields DEF PollAt
      <3>2. \A k \in 1 .. Len(result') : result'[k].id = pos + (k + 1)
        BY <2>1, <2>3 DEF PollAt
      <3>3. \A k \in 1 .. Len(result') : result'[k].id = (pos + 1) + k
        BY <3>2
      <3> QED BY <2>1, <3>1, <3>3 DEF PollAt
    <2>5. ResultOrder'
      BY <2>4 DEF ResultOrder
    <2> QED BY <2>1, <2>2, <2>5, OrderKept DEF sendVars
  <1>9. CASE TakeMessage \/ SendRow \/ \E c \in Clients : Write(c)
    BY <1>9, OrderTake, OrderSend, OrderWrite
  <1> QED BY <1>1, <1>2, <1>3, <1>4, <1>5, <1>6, <1>7, <1>8, <1>9
          DEF Next, Select, Poll, Broadcast

LEMMA OrderInvAlways == Spec => []OrderInv
  <1>1. Init => OrderInv
    BY DEF Init, OrderInv, ResultOrder, ChannelOrder, MessageOrder, GotInOrder
  <1>2. TypeInv /\ OrderInv /\ [Next]_vars => OrderInv'
    BY OrderInvNext
  <1> QED BY <1>1, <1>2, TypeInvAlways, PTL DEF Spec

(* Per table every client gets the rows in order and none twice, however   *)
(* polls fail, channels fill and clients come and go.                      *)
THEOREM RowsComeInOrder == Spec => []PushedInOrder
  BY OrderInvAlways, OrderInvImplies, PTL
-----------------------------------------------------------------------------
(* A row that a poll has gone past has been sent to the client, is on its  *)
(* way to it, or could not be scanned.                                     *)
Has(c, m) == (\E k \in 1 .. Len(got[c]) : got[c][k] = m) \/ OnItsWay(c, m)
Passed(c, f, n) ==
  \A i \in since[c][f] + 1 .. n : i \in unscanned[f] \/ Has(c, [feed |-> f, id |-> i])

PollPassed(pos) == PollAt(pos) /\ \A c \in clients : Passed(c, feed, pos)
SkipInv ==
  /\ \A c \in clients, f \in Feed : Passed(c, f, cursor[f])
  /\ hub = "rows" => \E pos \in Nat : PollPassed(pos)

LEMMA SkipInvImplies == SkipInv => NothingSkipped
  <1> SUFFICES ASSUME SkipInv, NEW c \in clients, NEW f \in Feed,
                      NEW i \in since[c][f] + 1 .. cursor[f], i \notin unscanned[f],
                      ~OnItsWay(c, [feed |-> f, id |-> i])
               PROVE  i \in Sent(c, f)
    BY DEF NothingSkipped
  <1>1. PICK k \in 1 .. Len(got[c]) : got[c][k] = [feed |-> f, id |-> i]
    BY DEF SkipInv, Passed, Has
  <1>2. got[c][k].feed = f /\ got[c][k].id = i
    BY <1>1
  <1> QED BY <1>2 DEF Sent

LEMMA HasKept ==
  ASSUME TypeInv, [Next]_vars, NEW c \in clients, c \in clients', NEW m, Has(c, m)
  PROVE  Has(c, m)'
  <1>0. c \in Clients
    BY DEF TypeInv, ClientsOK
  <1>1. CASE UNCHANGED <<got, broadcast, message, toWrite>>
    BY <1>1 DEF Has, OnItsWay
  <1>2. CASE TakeMessage
    <2>1. /\ message' = broadcast[1] /\ toWrite' = clients /\ got' = got /\ toWrite = {}
          /\ Len(broadcast) \in Nat \ {0} /\ Len(broadcast') = Len(broadcast) - 1
          /\ \A k \in 1 .. Len(broadcast') : broadcast'[k] = broadcast[k + 1]
      BY <1>2, HeadTail DEF TakeMessage, TypeInv, PipeOK
    <2>2. CASE \E k \in 1 .. Len(broadcast) : broadcast[k] = m
      <3>1. PICK k \in 1 .. Len(broadcast) : broadcast[k] = m
        BY <2>2
      <3>2. CASE k = 1
        BY <2>1, <3>1, <3>2 DEF Has, OnItsWay
      <3>3. CASE k # 1
        <4>1. k - 1 \in 1 .. Len(broadcast') /\ (k - 1) + 1 = k
          BY <2>1, <3>3
        <4>2. broadcast'[k - 1] = m
          BY <2>1, <3>1, <4>1
        <4> QED BY <4>1, <4>2 DEF Has, OnItsWay
      <3> QED BY <3>2, <3>3
    <2>3. CASE \E k \in 1 .. Len(got[c]) : got[c][k] = m
      BY <2>1, <2>3 DEF Has
    <2> QED BY <2>1, <2>2, <2>3 DEF Has, OnItsWay
  <1>3. ASSUME NEW d \in Clients, Write(d) PROVE Has(c, m)'
    <2>1. /\ message \in Message /\ got' = [got EXCEPT ![d] = Append(got[d], message)]
          /\ toWrite' = toWrite \ {d} /\ broadcast' = broadcast /\ message' = message
      BY <1>3 DEF Write, TypeInv, PipeOK
    <2>2. CASE d = c
      <3>1. /\ Len(got'[c]) = Len(got[c]) + 1 /\ Len(got[c]) \in Nat
            /\ \A j \in 1 .. Len(got[c]) : got'[c][j] = got[c][j]
            /\ got'[c][Len(got[c]) + 1] = message
        BY <1>0, <2>1, <2>2, AppendParts DEF TypeInv, ClientsOK
      <3>2. Len(got[c]) + 1 \in 1 .. Len(got'[c]) /\ 1 .. Len(got[c]) \subseteq 1 .. Len(got'[c])
        BY <3>1
      <3>3. CASE m = message
        BY <3>1, <3>2, <3>3 DEF Has
      <3>4. CASE \E j \in 1 .. Len(got[c]) : got[c][j] = m
        BY <3>1, <3>2, <3>4 DEF Has
      <3>5. CASE \E k \in 1 .. Len(broadcast) : broadcast[k] = m
        BY <2>1, <3>5 DEF Has, OnItsWay
      <3> QED BY <3>3, <3>4, <3>5 DEF Has, OnItsWay
    <2>3. CASE d # c
      <3>1. got'[c] = got[c] /\ (c \in toWrite => c \in toWrite')
        BY <1>0, <2>1, <2>3 DEF TypeInv, ClientsOK
      <3> QED BY <2>1, <3>1 DEF Has, OnItsWay
    <2> QED BY <2>2, <2>3
  <1>4. ASSUME NEW d \in Clients, WriteFails(d) PROVE Has(c, m)'
    <2>1. d # c /\ got' = got /\ toWrite' = toWrite \ {d} /\ UNCHANGED <<broadcast, message>>
      BY <1>4 DEF WriteFails
    <2> QED BY <2>1 DEF Has, OnItsWay
  <1>5. CASE Written
    <2>1. toWrite = {} /\ toWrite' = {} /\ UNCHANGED <<got, broadcast>>
      BY <1>5 DEF Written
    <2> QED BY <2>1 DEF Has, OnItsWay
  <1>6. CASE SendRow
    <2>1. \E e \in Message : broadcast' = Append(broadcast, e)
      <3>1. Head(result) \in Row
        BY <1>6, HeadTail DEF SendRow, TypeInv, PipeOK
      <3>2. [feed |-> feed, id |-> Head(result).id] \in Message
        BY <3>1 DEF Row, Message, TypeInv, TypesOK
      <3> QED BY <1>6, <3>2 DEF SendRow
    <2>2. \A k \in 1 .. Len(broadcast) : k \in 1 .. Len(broadcast') /\ broadcast'[k] = broadcast[k]
      BY <2>1, AppendParts DEF TypeInv, PipeOK
    <2>3. UNCHANGED <<got, message, toWrite>>
      BY <1>6 DEF SendRow
    <2> QED BY <2>2, <2>3 DEF Has, OnItsWay
  <1>7. CASE Exit
    BY <1>7 DEF Exit
  <1> QED BY <1>1, <1>2, <1>3, <1>4, <1>5, <1>6, <1>7
          DEF Next, vars, sendVars, Tables, InsertRow, OrphanRow, Peers, Connect, Stall, Leave,
              Boot, Select, Tick, Register, Unregister, Poll, Query, QueryFails, ScanFails,
              EndOfRows, Broadcast

LEMMA PassedKept ==
  ASSUME TypeInv, [Next]_vars, NEW c \in clients, c \in clients', NEW f \in Feed, NEW n \in Nat,
         Passed(c, f, n)
  PROVE  Passed(c, f, n)'
  <1>1. since'[c] = since[c]
    <2>1. c \in Clients /\ conn[c] # "registering"
      BY DEF TypeInv, ClientsOK
    <2>2. CASE \E d \in Clients : Register(d)
      BY <2>1, <2>2 DEF Register, TypeInv, ClientsOK
    <2>3. CASE since' = since
      BY <2>3
    <2> QED BY <2>2, <2>3
            DEF Next, vars, clientVars, Tables, InsertRow, OrphanRow, Peers, Connect, Stall,
                Leave, Boot, Exit, Select, Tick, TakeMessage, Unregister, Poll, Query,
                QueryFails, SendRow, ScanFails, EndOfRows, Broadcast, Written, Write, WriteFails
  <1>2. unscanned[f] \subseteq unscanned'[f]
    <2>1. CASE ScanFails
      BY <2>1 DEF ScanFails, TypeInv, TypesOK
    <2>2. CASE unscanned' = unscanned
      BY <2>2
    <2> QED BY <2>1, <2>2
            DEF Next, vars, Tables, InsertRow, OrphanRow, Peers, Connect, Stall,
                Leave, Boot, Exit, Select, Tick, TakeMessage, Register, Unregister, Poll, Query,
                QueryFails, SendRow, EndOfRows, Broadcast, Written, Write, WriteFails
  <1>3. \A m : Has(c, m) => Has(c, m)'
    BY HasKept
  <1> QED BY <1>1, <1>2, <1>3 DEF Passed

LEMMA SkipInvNext ==
  ASSUME TypeInv, SkipInv, [Next]_vars
  PROVE  SkipInv'
  <1>0. /\ feed \in Feed /\ maxID \in Nat /\ \A f \in Feed : cursor[f] \in Nat
        /\ \A f \in Feed : Top[f] \in Nat /\ cursor[f] <= Top[f]
    BY MessageFields DEF TypeInv, TypesOK
  <1>1. ASSUME clients' \subseteq clients, UNCHANGED <<hub, pollVars>>
        PROVE  SkipInv'
    <2>1. \A f \in Feed : cursor'[f] = cursor[f]
      BY <1>1 DEF pollVars
    <2>2. ASSUME NEW c \in clients', NEW f \in Feed PROVE Passed(c, f, cursor[f])'
      <3>1. PICK n \in Nat : n = cursor[f]
        BY <1>0
      <3>2. Passed(c, f, n)'
        BY <1>1, <3>1, PassedKept DEF SkipInv
      <3> QED BY <2>1, <3>1, <3>2
    <2>3. ASSUME hub = "rows" PROVE \E pos \in Nat : PollPassed(pos)'
      <3>1. PICK pos \in Nat : PollPassed(pos)
        BY <2>3 DEF SkipInv
      <3>2. PollAt(pos)'
        BY <1>0, <1>1, <3>1, TopSame DEF PollPassed, PollAt, pollVars
      <3>3. \A c \in clients' : Passed(c, feed, pos)'
        BY <1>0, <1>1, <3>1, PassedKept DEF PollPassed, pollVars
      <3>4. feed' = feed
        BY <1>1 DEF pollVars
      <3> QED BY <3>2, <3>3, <3>4 DEF PollPassed
    <2> QED BY <1>1, <2>1, <2>2, <2>3 DEF SkipInv
  <1>2. ASSUME clients' \subseteq clients, hub' # "rows", cursor' = cursor
        PROVE  SkipInv'
    <2>1. \A c \in clients', f \in Feed : Passed(c, f, cursor[f])'
      BY <1>0, <1>2, PassedKept DEF SkipInv
    <2> QED BY <1>2, <2>1 DEF SkipInv
  <1>3. CASE UNCHANGED vars \/ Tables \/ Peers \/ \E c \in Clients : Unregister(c) \/ Write(c) \/ WriteFails(c)
    <2>1. UNCHANGED <<hub, pollVars>> /\ clients' \subseteq clients
      BY <1>3 DEF vars, clientVars, Tables, InsertRow, OrphanRow, Peers, Connect, Stall, Leave,
                  Unregister, Write, WriteFails
    <2> QED BY <1>1, <2>1
  <1>4. CASE Boot \/ Exit
    <2>1. clients' = {} /\ hub' # "rows"
      BY <1>4 DEF Boot, Exit, TypeInv, ClientsOK, clientVars
    <2> QED BY <2>1 DEF SkipInv
  <1>5. CASE Tick \/ TakeMessage \/ Written \/ QueryFails
    <2>1. hub' # "rows" /\ cursor' = cursor /\ clients' = clients
      BY <1>5 DEF Tick, TakeMessage, Written, QueryFails, NextFeed, pollVars, clientVars
    <2> QED BY <1>2, <2>1
  <1>6. ASSUME NEW c \in Clients, Register(c) PROVE SkipInv'
    <2>1. /\ hub' = "select" /\ cursor' = cursor /\ clients' = clients \cup {c}
          /\ since'[c] = cursor
      BY <1>6 DEF Register, pollVars, TypeInv, ClientsOK
    <2>2. \A d \in clients, f \in Feed : Passed(d, f, cursor[f])'
      BY <1>0, <2>1, PassedKept DEF SkipInv
    <2>3. \A f \in Feed : Passed(c, f, cursor[f])'
      <3>1. \A f \in Feed : since'[c][f] = cursor'[f] /\ cursor'[f] \in Nat
        BY <1>0, <2>1
      <3> QED BY <3>1 DEF Passed
    <2> QED BY <2>1, <2>2, <2>3 DEF SkipInv
  <1>7. CASE Query
    <2>1. /\ hub' = "rows" /\ feed' = feed /\ cursor' = cursor /\ clients' = clients
          /\ hub = "query" /\ result' = Window(feed)
      BY <1>7 DEF Query, clientVars
    <2>2. \A c \in clients, f \in Feed : Passed(c, f, cursor[f])'
      BY <1>0, <2>1, PassedKept DEF SkipInv
    <2>3. PICK pos \in Nat : pos = cursor[feed]
      BY <1>0
    <2>4. PollAt(pos)'
      <3>1. Top'[feed] = cursor[feed]
        BY <1>0, <1>7, <2>1, TopSame DEF Top
      <3>2. \A k \in 1 .. Len(result') : result'[k].id = cursor[feed] + k
        BY <1>0, <2>1, WindowType
      <3> QED BY <1>0, <2>1, <2>3, <3>1, <3>2 DEF PollAt
    <2>5. \A c \in clients' : Passed(c, feed, pos)'
      BY <1>0, <2>1, <2>2, <2>3
    <2>6. PollPassed(pos)'
      BY <2>1, <2>4, <2>5 DEF PollPassed
    <2> QED BY <2>1, <2>2, <2>6 DEF SkipInv
  <1>8. CASE SendRow \/ ScanFails
    <2>1. PICK pos \in Nat : PollPassed(pos)
      BY <1>8 DEF SendRow, ScanFails, SkipInv
    <2>2. PICK x \in Row : x = Head(result) /\ x = result[1] /\ x.id = pos + 1
      <3>1. result # <<>> /\ result \in Seq(Row)
        BY <1>8 DEF SendRow, ScanFails, TypeInv, PipeOK
      <3>2. Head(result) \in Row /\ Head(result) = result[1] /\ 1 \in 1 .. Len(result)
        BY <3>1, HeadTail
      <3>3. result[1].id = pos + 1
        BY <2>1, <3>2 DEF PollPassed, PollAt
      <3> QED BY <3>2, <3>3
    <2>3. /\ hub = "rows" /\ hub' = "rows" /\ feed' = feed /\ cursor' = cursor
          /\ clients' = clients /\ maxID' \in {maxID, x.id}
          /\ \A k \in 1 .. Len(result') : k + 1 \in 1 .. Len(result) /\ result'[k] = result[k + 1]
      <3>1. /\ hub = "rows" /\ hub' = "rows" /\ feed' = feed /\ cursor' = cursor
            /\ clients' = clients /\ maxID' \in {maxID, x.id} /\ result' = Tail(result)
            /\ result # <<>> /\ result \in Seq(Row)
        BY <1>8, <2>2 DEF SendRow, ScanFails, TypeInv, PipeOK, clientVars
      <3> QED BY <3>1, HeadTail
    <2>4. PollAt(pos + 1)'
      <3>1. Top'[feed] <= pos + 1
        <4>1. cursor[feed] <= pos /\ (maxID > cursor[feed] => maxID <= pos)
          BY <1>0, <2>1, <2>3 DEF PollPassed, PollAt, Top
        <4> QED BY <1>0, <2>2, <2>3, <4>1 DEF Top
      <3>2. \A k \in 1 .. Len(result') : result'[k].id = pos + (k + 1)
        BY <2>1, <2>3 DEF PollPassed, PollAt
      <3>3. \A k \in 1 .. Len(result') : result'[k].id = (pos + 1) + k
        BY <3>2
      <3> QED BY <2>3, <3>1, <3>3 DEF PollAt
    <2>5. \A c \in clients, f \in Feed : Passed(c, f, cursor[f])'
      BY <1>0, <2>3, PassedKept DEF SkipInv
    <2>6. ASSUME NEW c \in clients PROVE Passed(c, feed, pos + 1)'
      <3>1. Passed(c, feed, pos)'
        BY <1>0, <2>1, <2>3, PassedKept DEF PollPassed
      <3>2. CASE SendRow
        <4>1. PICK m : m = [feed |-> feed, id |-> pos + 1]
          OBVIOUS
        <4>2. broadcast' = Append(broadcast, m) /\ m \in Message
          BY <2>2, <3>2, <4>1 DEF SendRow, Row, Message, TypeInv, TypesOK
        <4>3. /\ Len(broadcast) + 1 \in 1 .. Len(broadcast')
              /\ broadcast'[Len(broadcast) + 1] = m
          BY <4>2, AppendParts DEF TypeInv, PipeOK
        <4>4. Has(c, m)'
          BY <4>3 DEF Has, OnItsWay
        <4>5. \A i \in since'[c][feed] + 1 .. pos + 1 : i \in since'[c][feed] + 1 .. pos \/ i = pos + 1
          OBVIOUS
        <4> QED BY <2>3, <3>1, <4>1, <4>4, <4>5 DEF Passed
      <3>3. CASE ScanFails
        <4>1. pos + 1 \in unscanned'[feed]
          BY <1>0, <2>2, <3>3 DEF ScanFails, TypeInv, TypesOK
        <4>2. \A i \in since'[c][feed] + 1 .. pos + 1 : i \in since'[c][feed] + 1 .. pos \/ i = pos + 1
          OBVIOUS
        <4> QED BY <2>3, <3>1, <4>1, <4>2 DEF Passed
      <3> QED BY <1>8, <3>2, <3>3
    <2>7. PollPassed(pos + 1)'
      BY <2>3, <2>4, <2>6 DEF PollPassed
    <2> QED BY <2>3, <2>5, <2>7 DEF SkipInv
  <1>9. CASE EndOfRows
    <2>1. PICK pos \in Nat : PollPassed(pos)
      BY <1>9 DEF EndOfRows, SkipInv
    <2>2. hub' # "rows" /\ clients' = clients /\ hub = "rows"
      BY <1>9 DEF EndOfRows, NextFeed, clientVars
    <2>3. \A f \in Feed : cursor'[f] = Top[f]
      BY <1>9, <2>2, TopSame DEF Top
    <2>4. \A f \in Feed : f # feed => Top[f] = cursor[f]
      BY <2>2 DEF Top
    <2>5. \A c \in clients, f \in Feed : Passed(c, f, Top[f])
      <3>1. \A c \in clients : Passed(c, feed, Top[feed])
        <4>1. Top[feed] <= pos
          BY <2>1 DEF PollPassed, PollAt
        <4>2. ASSUME NEW c \in clients, NEW i \in since[c][feed] + 1 .. Top[feed]
              PROVE  i \in since[c][feed] + 1 .. pos
          <5>1. since[c][feed] \in Nat
            BY <1>0, BoundAssumption DEF TypeInv, ClientsOK
          <5> QED BY <1>0, <4>1, <5>1
        <4> QED BY <2>1, <4>2 DEF PollPassed, Passed
      <3> QED BY <2>4, <3>1 DEF SkipInv
    <2>6. \A c \in clients, f \in Feed : Passed(c, f, Top[f])'
      <3>1. ASSUME NEW c \in clients, NEW f \in Feed, NEW n \in Nat, n = Top[f]
            PROVE  Passed(c, f, n)'
        BY <2>2, <2>5, <3>1, PassedKept
      <3>2. \A f \in Feed : Top'[f] = Top[f]
        BY <1>9, TopSame
      <3> QED BY <1>0, <3>1, <3>2
    <2>7. \A c \in clients', f \in Feed : Passed(c, f, cursor[f])'
      BY <2>2, <2>3, <2>6, TopSame, <1>9
    <2> QED BY <2>2, <2>7 DEF SkipInv
  <1> QED BY <1>3, <1>4, <1>5, <1>6, <1>7, <1>8, <1>9 DEF Next, Select, Poll, Broadcast

(* What a cursor has gone past is never lost on the way to a client.       *)
THEOREM NoRowIsLost == Spec => []NothingSkipped
  <1>1. Init => SkipInv
    BY DEF Init, SkipInv
  <1>2. TypeInv /\ SkipInv /\ [Next]_vars => SkipInv'
    BY SkipInvNext
  <1> QED BY <1>1, <1>2, TypeInvAlways, SkipInvImplies, PTL DEF Spec
=============================================================================
