--------------------------- MODULE FrontendProofs ---------------------------
(***************************************************************************)
(* What holds of the pages of the browser: of the chat page (ChatShell),   *)
(* for every number of chats, messages and visits, and of the dashboard    *)
(* (Dashboard), for every set of filters, every number of calls at a time  *)
(* and every size of pages and table.                                      *)
(***************************************************************************)
EXTENDS ChatShell, Dashboard, ListProofs

(* Where pages and messages are.                                           *)
PagesInv ==
  /\ target \in born \cup {Nowhere}
  /\ \A m \in Mounts :
       /\ route[m] \in born \cup {Null}
       /\ load[m] \in {"asked", "answered"} => route[m] # Null
       /\ m > mount => load[m] = "none" /\ route[m] = Null
SendsInv ==
  \A s \in Sends :
    /\ pc[s] = "new" => at[s] = 0 /\ chat[s] = Null /\ s \notin early
    /\ pc[s] # "new" =>
         /\ at[s] \in 1 .. mount /\ chat[s] \in born \cup {Null}
         /\ route[at[s]] # Null => chat[s] = route[at[s]]
         /\ s \notin early => load[at[s]] \in {"none", "done"}
    /\ pc[s] = "create" => chat[s] = Null /\ route[at[s]] = Null
    /\ s \in posted => pc[s] \notin {"new", "create"} /\ chat[s] \in born
    /\ pc[s] \in {"open", "answered"} => s \in posted
    /\ \A q \in Sends : Sending(s) /\ Sending(q) /\ at[s] = at[q] => s = q

(* The messages of the server.                                             *)
RowsInv ==
  /\ answered \subseteq asked /\ asked \subseteq posted
  /\ \A s \in Sends : result[s] = "succeeded" => s \in answered
  /\ \A c \in Chats : \A x \in In(rows[c]) :
       x.stored /\ x.send \in posted /\ chat[x.send] = c /\ ~Follows(rows[c], x, x)
  /\ \A s \in posted :
       /\ Stored(s, "user") \in In(rows[chat[s]]) <=> s \in asked
       /\ Stored(s, "assistant") \in In(rows[chat[s]]) <=> s \in answered
       /\ s \in answered =>
            Follows(rows[chat[s]], Stored(s, "user"), Stored(s, "assistant"))

ShellInv == TypeOK /\ PagesInv /\ SendsInv /\ RowsInv

LEMMA Items ==
  /\ \A s \in Sends, role \in {"user", "assistant"} :
       /\ Stored(s, role) \in Item /\ Draft(s, role) \in Item
       /\ Stored(s, role).send = s /\ Stored(s, role).stored /\ Stored(s, role).role = role
       /\ Draft(s, role).send = s /\ ~Draft(s, role).stored
  /\ \A x \in Item : x.send \in Sends /\ (x.stored => x = Stored(x.send, x.role))
  BY DEF Item, Stored, Draft

LEMMA ChatIsNotNull == ASSUME TypeOK PROVE born \subseteq Chats /\ Null \notin born
  BY ShellAssumption DEF TypeOK

LEMMA ShellInvInit == ASSUME Init PROVE ShellInv
  <1>1. TypeOK
    <2>1. <<>> \in Seq(Item) /\ 1 \in Mounts /\ MaxMount \in Nat
      BY ShellAssumption DEF Mounts
    <2>2. route \in [Mounts -> Routes] /\ load \in [Mounts -> {"none", "asked", "answered", "done"}]
      BY ShellAssumption DEF Init, Routes
    <2> QED BY <2>1, <2>2, ShellAssumption DEF Init, Server!Init, TypeOK, Routes
  <1>2. PagesInv
    BY ShellAssumption DEF Init, PagesInv, Mounts
  <1>3. SendsInv
    BY DEF Init, SendsInv, Sending
  <1>4. RowsInv
    BY InEmpty DEF Init, Server!Init, RowsInv
  <1> QED BY <1>1, <1>2, <1>3, <1>4 DEF ShellInv

(* What a handler makes of the list that a page shows.                     *)
LEMMA WithoutDraftsIs ==
  ASSUME TypeOK, NEW m \in Mounts, NEW s \in Sends
  PROVE  /\ WithoutDrafts(m, s) \in Seq(Item)
         /\ In(WithoutDrafts(m, s)) = {x \in In(shown[m]) : x.send # s \/ x.stored}
         /\ \A a, b : Follows(WithoutDrafts(m, s), a, b) => Follows(shown[m], a, b)
  <1> DEFINE list == shown[m]
             kept == {i \in 1 .. Len(list) : list[i].send # s \/ list[i].stored}
  <1>1. list \in Seq(Item) /\ kept \in SUBSET (1 .. Len(list))
    BY DEF TypeOK
  <1>2. WithoutDrafts(m, s) = Only(list, kept)
    BY DEF WithoutDrafts, Those
  <1>3. {list[i] : i \in kept} = {x \in In(list) : x.send # s \/ x.stored}
    BY DEF In
  <1> HIDE DEF list, kept
  <1>4. /\ Only(list, kept) \in Seq(Item) /\ In(Only(list, kept)) = {list[i] : i \in kept}
        /\ \A a, b : Follows(Only(list, kept), a, b) => Follows(list, a, b)
    BY <1>1, OnlyIs
  <1> QED BY <1>2, <1>3, <1>4 DEF list

LEMMA FinalizedIs ==
  ASSUME TypeOK, NEW m \in Mounts, NEW s \in Sends
  PROVE  /\ Finalized(m, s) \in Seq(Item)
         /\ In(Finalized(m, s)) = {x \in In(shown[m]) : x.send # s \/ x.stored}
                                     \cup {Stored(s, "user"), Stored(s, "assistant")}
         /\ \A a, b : Follows(Finalized(m, s), a, b) =>
              \/ Follows(shown[m], a, b)
              \/ a \in In(shown[m]) /\ b \in {Stored(s, "user"), Stored(s, "assistant")}
              \/ a = Stored(s, "user") /\ b = Stored(s, "assistant")
  <1> DEFINE old == WithoutDrafts(m, s)
             new == <<Stored(s, "user"), Stored(s, "assistant")>>
  <1>1. /\ old \in Seq(Item)
        /\ In(old) = {x \in In(shown[m]) : x.send # s \/ x.stored}
        /\ \A a, b : Follows(old, a, b) => Follows(shown[m], a, b)
    BY WithoutDraftsIs
  <1>2. /\ new \in Seq(Item) /\ In(new) = {Stored(s, "user"), Stored(s, "assistant")}
        /\ \A a, b : Follows(new, a, b) => a = Stored(s, "user") /\ b = Stored(s, "assistant")
    BY Items, InPair
  <1>3. Finalized(m, s) = old \o new
    BY DEF Finalized
  <1> HIDE DEF old, new
  <1>4. /\ old \o new \in Seq(Item) /\ In(old \o new) = In(old) \cup In(new)
        /\ \A a, b : Follows(old \o new, a, b) <=>
             Follows(old, a, b) \/ Follows(new, a, b) \/ (a \in In(old) /\ b \in In(new))
    BY <1>1, <1>2, InConcat
  <1> QED BY <1>1, <1>2, <1>3, <1>4
-----------------------------------------------------------------------------
(* How handleSendMessage ends: what becomes of the page's list, and of the *)
(* cached one of chat c.                                                   *)
Ends(s, c, list, how) ==
  /\ pc' = [pc EXCEPT ![s] = how] /\ SetMessages(at[s], list)
  /\ cache' = cache \/ (how # "failed" /\ c # Null /\ cache' = [cache EXCEPT ![c] = list])
  /\ \/ how = "failed" /\ list = WithoutDrafts(at[s], s)
     \/ how = "stopped" /\ list = shown[at[s]]
     \/ how = "answered" /\ list = Finalized(at[s], s)

LEMMA HandlerEnds ==
  ASSUME NEW s \in Sends, NEW c
  PROVE  /\ Fail(s) => Ends(s, c, WithoutDrafts(at[s], s), "failed")
         /\ Abort(s, c) => Ends(s, c, shown[at[s]], "stopped")
         /\ Finish(s) => Ends(s, chat[s], Finalized(at[s], s), "answered")
  BY DEF Fail, Abort, Finish, SetAndCache, Cached, Ends

LEMMA EndsType ==
  ASSUME TypeOK, SendsInv, NEW s \in Sends, Sending(s), NEW c \in Routes, NEW list, NEW how,
         Ends(s, c, list, how)
  PROVE  /\ list \in Seq(Item) /\ how \in {"failed", "stopped", "answered"}
         /\ shown' \in [Mounts -> Seq(Item)] /\ cache' \in [Chats -> Seq(Item)]
         /\ pc' \in [Sends -> {"new", "create", "open", "answered", "stopped", "failed"}]
         /\ pc'[s] = how /\ \A q \in Sends \ {s} : pc'[q] = pc[q]
  <1>1. at[s] \in Mounts
    BY DEF Sending, SendsInv, TypeOK, Mounts
  <1>2. list \in Seq(Item)
    <2>1. WithoutDrafts(at[s], s) \in Seq(Item)
      BY <1>1, WithoutDraftsIs
    <2>2. Finalized(at[s], s) \in Seq(Item)
      BY <1>1, FinalizedIs
    <2>3. shown[at[s]] \in Seq(Item)
      BY <1>1 DEF TypeOK
    <2> QED BY <2>1, <2>2, <2>3 DEF Ends
  <1>3. shown' \in [Mounts -> Seq(Item)]
    <2>1. <<>> \in Seq(Item)
      OBVIOUS
    <2> QED BY <1>2, <2>1 DEF Ends, SetMessages, TypeOK
  <1>4. cache' \in [Chats -> Seq(Item)]
    BY <1>2 DEF Ends, Routes, TypeOK
  <1> QED BY <1>2, <1>3, <1>4 DEF Ends, TypeOK

(* Nothing but these changes when a page is left, or asks for its list.    *)
LEMMA MountKeeps ==
  ASSUME ShellInv, NEW c \in born \cup {Null}, Mount(c)
  PROVE  ShellInv'
  <1> DEFINE m == mount + 1
  <1>1. mount \in Mounts /\ m \in Mounts /\ m = mount' /\ m \notin 1 .. mount
    BY ShellAssumption DEF ShellInv, TypeOK, Mount, Mounts
  <1>2. c \in Routes /\ (c # Null => c \in Chats) /\ <<>> \in Seq(Item)
    BY DEF ShellInv, TypeOK, Routes
  <1>3. /\ route' = [route EXCEPT ![m] = c] /\ target' = Nowhere
        /\ load' = [load EXCEPT ![m] = IF c = Null THEN "none" ELSE "asked"]
        /\ UNCHANGED <<serverVars, born, cache, fetched, sendVars>>
        /\ shown' = [n \in Mounts |-> IF n = m /\ c # Null THEN cache[c]
                                      ELSE IF n = mount /\ Idle(n) THEN <<>> ELSE shown[n]]
    BY DEF Mount
  <1>4. shown' \in [Mounts -> Seq(Item)]
    BY <1>2, <1>3 DEF ShellInv, TypeOK
  <1> HIDE DEF m
  <1>5. TypeOK'
    BY <1>1, <1>2, <1>3, <1>4 DEF ShellInv, TypeOK, serverVars, sendVars
  <1>6. PagesInv'
    BY <1>1, <1>3 DEF ShellInv, PagesInv, TypeOK, m, Mounts
  <1>7. SendsInv'
    <2>1. \A s \in Sends : pc[s] # "new" => at[s] \in 1 .. mount /\ at[s] \in 1 .. mount' /\ at[s] # m
      BY <1>1 DEF ShellInv, SendsInv, m, Mounts
    <2>2. \A n \in 1 .. mount : route'[n] = route[n] /\ load'[n] = load[n]
      BY <1>1, <1>3 DEF ShellInv, TypeOK, Mounts
    <2> QED BY <1>3, <2>1, <2>2 DEF ShellInv, SendsInv, serverVars, sendVars, Sending
  <1>8. RowsInv'
    BY <1>3 DEF ShellInv, RowsInv, serverVars, sendVars
  <1> QED BY <1>5, <1>6, <1>7, <1>8 DEF ShellInv

LEMMA LoadKeeps ==
  ASSUME ShellInv, NEW m \in Mounts, AnswerLoad(m) \/ ReceiveLoad(m)
  PROVE  ShellInv'
  <1>1. /\ load[m] \in {"asked", "answered"} /\ route[m] \in Chats
        /\ load' \in [Mounts -> {"none", "asked", "answered", "done"}]
        /\ load'[m] \in {"answered", "done"}
        /\ \A n \in Mounts \ {m} : load'[n] = load[n]
        /\ load'[m] \notin {"none", "done"} => load[m] \notin {"none", "done"}
    BY DEF AnswerLoad, ReceiveLoad, ShellInv, PagesInv, TypeOK
  <1>2. /\ UNCHANGED <<serverVars, born, pageVars, sendVars>>
        /\ shown' \in [Mounts -> Seq(Item)] /\ cache' \in [Chats -> Seq(Item)]
        /\ fetched' \in [Mounts -> Seq(Item)]
    <2>1. <<>> \in Seq(Item) /\ rows[route[m]] \in Seq(Item) /\ fetched[m] \in Seq(Item)
      BY <1>1 DEF ShellInv, TypeOK
    <2>2. CASE AnswerLoad(m)
      <3>1. fetched' \in [Mounts -> Seq(Item)]
        BY <2>1, <2>2 DEF AnswerLoad, ShellInv, TypeOK
      <3> QED BY <2>2, <3>1 DEF AnswerLoad, ShellInv, TypeOK
    <2>3. CASE ReceiveLoad(m)
      <3>1. fetched' \in [Mounts -> Seq(Item)]
        BY <2>1, <2>3 DEF ReceiveLoad, ShellInv, TypeOK
      <3>2. shown' \in [Mounts -> Seq(Item)]
        BY <2>1, <2>3 DEF ReceiveLoad, ShellInv, TypeOK
      <3>3. cache' \in [Chats -> Seq(Item)]
        BY <1>1, <2>1, <2>3 DEF ReceiveLoad, ShellInv, TypeOK
      <3> QED BY <2>3, <3>1, <3>2, <3>3 DEF ReceiveLoad
    <2> QED BY <2>2, <2>3
  <1>3. TypeOK'
    BY <1>1, <1>2 DEF ShellInv, TypeOK, serverVars, pageVars, sendVars
  <1>4. PagesInv'
    BY <1>1, <1>2 DEF ShellInv, PagesInv, pageVars
  <1>5. SendsInv'
    <2>1. \A s \in Sends : pc[s] # "new" => at[s] \in Mounts
      BY DEF ShellInv, SendsInv, TypeOK, Mounts
    <2>2. \A s \in Sends : pc[s] # "new" /\ load[at[s]] \in {"none", "done"} => load'[at[s]] \in {"none", "done"}
      BY <1>1, <2>1
    <2> QED BY <1>2, <2>2 DEF ShellInv, SendsInv, serverVars, pageVars, sendVars, Sending
  <1>6. RowsInv'
    BY <1>2 DEF ShellInv, RowsInv, serverVars, sendVars
  <1> QED BY <1>3, <1>4, <1>5, <1>6 DEF ShellInv

LEMMA NewChatKeeps ==
  ASSUME ShellInv, NEW c \in Chats, NewChat(c)
  PROVE  ShellInv'
  <1>1. /\ born' = born \cup {c} /\ target' = c
        /\ UNCHANGED <<serverVars, mount, route, shown, cache, loadVars, sendVars>>
    BY DEF NewChat
  <1>2. TypeOK'
    BY <1>1 DEF ShellInv, TypeOK, serverVars, loadVars, sendVars, Routes
  <1>3. PagesInv'
    BY <1>1 DEF ShellInv, PagesInv, loadVars
  <1>4. SendsInv'
    BY <1>1 DEF ShellInv, SendsInv, serverVars, loadVars, sendVars, Sending
  <1>5. RowsInv'
    BY <1>1 DEF ShellInv, RowsInv, serverVars, sendVars
  <1> QED BY <1>2, <1>3, <1>4, <1>5 DEF ShellInv

LEMMA SubmitKeeps ==
  ASSUME ShellInv, NEW s \in Sends, Submit(s)
  PROVE  ShellInv'
  <1> DEFINE c == route[mount]
             drafts == <<Draft(s, "user"), Draft(s, "assistant")>>
  <1>1. /\ pc[s] = "new" /\ Idle(mount)
        /\ shown' = [shown EXCEPT ![mount] = shown[mount] \o drafts]
        /\ at' = [at EXCEPT ![s] = mount] /\ chat' = [chat EXCEPT ![s] = c]
        /\ early' = IF load[mount] \in {"asked", "answered"} THEN early \cup {s} ELSE early
        /\ pc' = [pc EXCEPT ![s] = IF c = Null THEN "create" ELSE "open"]
        /\ posted' = IF c = Null THEN posted ELSE posted \cup {s}
        /\ UNCHANGED <<asked, answered, result, rows, born, pageVars, cache, loadVars, stopped>>
    BY DEF Submit, ShellInv, TypeOK
  <1>2. /\ mount \in Mounts /\ c \in born \cup {Null} /\ c \in Routes /\ mount \in 0 .. MaxMount
        /\ born \subseteq Chats /\ Null \notin born
    BY ShellAssumption DEF ShellInv, TypeOK, PagesInv, Mounts
  <1>3. shown' \in [Mounts -> Seq(Item)]
    <2>1. shown[mount] \in Seq(Item) /\ drafts \in Seq(Item)
      BY <1>2, Items DEF ShellInv, TypeOK
    <2>2. shown[mount] \o drafts \in Seq(Item)
      BY <2>1
    <2> QED BY <1>1, <2>2 DEF ShellInv, TypeOK
  <1> HIDE DEF c
  <1>4. /\ pc'[s] = (IF c = Null THEN "create" ELSE "open") /\ at'[s] = mount /\ chat'[s] = c
        /\ \A q \in Sends \ {s} : pc'[q] = pc[q] /\ at'[q] = at[q] /\ chat'[q] = chat[q]
    BY <1>1, <1>2 DEF ShellInv, TypeOK
  <1>5. s \notin posted /\ s \notin early
    BY <1>1 DEF ShellInv, SendsInv
  <1>6. TypeOK'
    <2>1. posted' \subseteq {q \in Sends : chat'[q] \in born}
      BY <1>1, <1>2, <1>4, <1>5 DEF ShellInv, TypeOK
    <2> QED BY <1>1, <1>2, <1>3, <2>1 DEF ShellInv, TypeOK, pageVars, loadVars
  <1>7. PagesInv'
    BY <1>1 DEF ShellInv, PagesInv, pageVars, loadVars
  <1>8. SendsInv'
    <2>1. \A q \in Sends : Sending(q) => at[q] # mount
      BY <1>1 DEF Idle
    <2>2. \A q \in Sends \ {s} : Sending(q)' <=> Sending(q)
      BY <1>4 DEF Sending
    <2>3. mount' = mount /\ route' = route /\ load' = load /\ born' = born
      BY <1>1 DEF pageVars, loadVars
    <2>4. s \notin early' => load[mount] \in {"none", "done"}
      BY <1>1, <1>2 DEF ShellInv, TypeOK
    <2>5. mount \in 1 .. mount
      BY <1>2 DEF Mounts
    <2>6. \A q \in Sends \ {s} : (q \in early' <=> q \in early) /\ (q \in posted' <=> q \in posted)
      BY <1>1
    <2>7. s \in posted' <=> c # Null
      BY <1>1, <1>5
    <2>8. \A q \in Sends \ {s} :
            /\ pc'[q] = "new" => at'[q] = 0 /\ chat'[q] = Null /\ q \notin early'
            /\ pc'[q] # "new" =>
                 /\ at'[q] \in 1 .. mount /\ chat'[q] \in born \cup {Null}
                 /\ route[at'[q]] # Null => chat'[q] = route[at'[q]]
                 /\ q \notin early' => load[at'[q]] \in {"none", "done"}
            /\ pc'[q] = "create" => chat'[q] = Null /\ route[at'[q]] = Null
            /\ q \in posted' => pc'[q] \notin {"new", "create"} /\ chat'[q] \in born
            /\ pc'[q] \in {"open", "answered"} => q \in posted'
      BY <1>4, <2>6 DEF ShellInv, SendsInv
    <2>9. \A p, q \in Sends : Sending(p)' /\ Sending(q)' /\ at'[p] = at'[q] => p = q
      BY <1>4, <2>1, <2>2 DEF ShellInv, SendsInv
    <2> QED BY <1>2, <1>4, <2>3, <2>4, <2>5, <2>7, <2>8, <2>9 DEF SendsInv, c
  <1>9. RowsInv'
    <2>1. \A q \in posted : q # s /\ chat'[q] = chat[q] /\ q \in posted'
      BY <1>1, <1>4, <1>5 DEF ShellInv, TypeOK
    <2>2. \A d \in Chats : \A x \in In(rows[d]) : x.send \in posted /\ x.stored /\ chat[x.send] = d
      BY DEF ShellInv, RowsInv
    <2>3. ASSUME s \in posted'
          PROVE  /\ s \notin asked /\ s \notin answered
                 /\ \A role \in {"user", "assistant"} : Stored(s, role) \notin In(rows[chat'[s]])
      <3>1. chat'[s] \in Chats
        BY <1>1, <1>2, <1>4, <1>5, <2>3
      <3> QED BY <1>5, <2>2, <3>1, Items DEF ShellInv, RowsInv
    <2>4. posted' \subseteq posted \cup {s}
      BY <1>1
    <2> QED BY <1>1, <2>1, <2>2, <2>3, <2>4 DEF ShellInv, RowsInv
  <1> QED BY <1>6, <1>7, <1>8, <1>9 DEF ShellInv

LEMMA StopKeeps ==
  ASSUME ShellInv, NEW s \in Sends, Stop(s)
  PROVE  ShellInv'
  <1>1. /\ stopped' \subseteq Sends
        /\ UNCHANGED <<serverVars, born, pageVars, shown, cache, loadVars, pc, at, chat, early>>
    BY DEF Stop, ShellInv, TypeOK
  <1>2. TypeOK'
    BY <1>1 DEF ShellInv, TypeOK, serverVars, pageVars, loadVars
  <1>3. PagesInv'
    BY <1>1 DEF ShellInv, PagesInv, pageVars, loadVars
  <1>4. SendsInv'
    BY <1>1 DEF ShellInv, SendsInv, serverVars, pageVars, loadVars, Sending
  <1>5. RowsInv'
    BY <1>1 DEF ShellInv, RowsInv, serverVars
  <1> QED BY <1>2, <1>3, <1>4, <1>5 DEF ShellInv

(* How a handler that was sending goes on: to how, with c as its chat.     *)
LEMMA HandlerKeeps ==
  ASSUME ShellInv, NEW s \in Sends, Sending(s),
         UNCHANGED <<asked, answered, result, rows, mount, route, loadVars, at, stopped, early>>,
         TypeOK', born \subseteq born', target' \in born' \cup {Nowhere},
         NEW c \in born' \cup {Null}, chat' = [chat EXCEPT ![s] = c],
         chat[s] # Null => c = chat[s],
         NEW how \in {"open", "failed", "stopped", "answered"}, pc' = [pc EXCEPT ![s] = how],
         posted \subseteq posted', posted' \subseteq posted \cup {s},
         s \in posted' => c # Null, how \in {"open", "answered"} => s \in posted'
  PROVE  ShellInv'
  <1>1. /\ pc'[s] = how /\ chat'[s] = c
        /\ \A q \in Sends \ {s} : pc'[q] = pc[q] /\ chat'[q] = chat[q]
    BY DEF ShellInv, TypeOK
  <1>2. PagesInv'
    BY DEF ShellInv, PagesInv, loadVars
  <1>3. SendsInv'
    <2>1. pc[s] \in {"create", "open"} /\ Sending(s)
      BY DEF Sending
    <2>2. \A q \in Sends : Sending(q)' => Sending(q)
      BY <1>1, <2>1 DEF Sending
    <2>3. \A p, q \in Sends : Sending(p)' /\ Sending(q)' /\ at'[p] = at'[q] => p = q
      BY <2>2 DEF ShellInv, SendsInv
    <2>4. \A q \in Sends \ {s} :
            /\ pc'[q] = "new" => at'[q] = 0 /\ chat'[q] = Null /\ q \notin early'
            /\ pc'[q] # "new" =>
                 /\ at'[q] \in 1 .. mount' /\ chat'[q] \in born' \cup {Null}
                 /\ route'[at'[q]] # Null => chat'[q] = route'[at'[q]]
                 /\ q \notin early' => load'[at'[q]] \in {"none", "done"}
            /\ pc'[q] = "create" => chat'[q] = Null /\ route'[at'[q]] = Null
            /\ q \in posted' => pc'[q] \notin {"new", "create"} /\ chat'[q] \in born'
            /\ pc'[q] \in {"open", "answered"} => q \in posted'
      BY <1>1 DEF ShellInv, SendsInv, loadVars
    <2>5. /\ at'[s] \in 1 .. mount' /\ chat'[s] \in born' \cup {Null}
          /\ route'[at'[s]] # Null => chat'[s] = route'[at'[s]]
          /\ s \notin early' => load'[at'[s]] \in {"none", "done"}
      <3>1. /\ at[s] \in 1 .. mount /\ (route[at[s]] # Null => chat[s] = route[at[s]])
            /\ s \notin early => load[at[s]] \in {"none", "done"}
        BY <2>1 DEF ShellInv, SendsInv
      <3> QED BY <1>1, <3>1 DEF loadVars
    <2>6. s \in posted' => chat'[s] \in born'
      BY <1>1
    <2> QED BY <1>1, <2>3, <2>4, <2>5, <2>6 DEF SendsInv
  <1>4. RowsInv'
    <2>1. \A q \in posted : q \in Sends /\ chat[q] # Null /\ chat'[q] = chat[q] /\ q \in posted'
      <3>1. \A q \in posted : q \in Sends /\ chat[q] # Null
        BY ChatIsNotNull DEF ShellInv, TypeOK
      <3> QED BY <1>1, <3>1
    <2>2. /\ UNCHANGED <<asked, answered, result, rows>>
          /\ answered \subseteq asked /\ asked \subseteq posted
      BY DEF ShellInv, RowsInv
    <2>3. \A d \in Chats : \A x \in In(rows[d]) :
            x.send \in posted /\ x.stored /\ chat[x.send] = d
      BY DEF ShellInv, RowsInv
    <2>4. ASSUME s \in posted', s \notin posted
          PROVE  /\ s \notin asked /\ s \notin answered
                 /\ \A role \in {"user", "assistant"} : Stored(s, role) \notin In(rows[chat'[s]])
      <3>1. chat'[s] \in Chats
        BY <1>1, <2>4 DEF TypeOK
      <3> QED BY <2>2, <2>3, <2>4, <3>1, Items
    <2> QED BY <2>1, <2>2, <2>3, <2>4 DEF ShellInv, RowsInv
  <1> QED BY <1>2, <1>3, <1>4 DEF ShellInv

LEMMA CreatedKeeps ==
  ASSUME ShellInv, NEW s \in Sends, Created(s)
  PROVE  ShellInv'
  <1>1. /\ pc[s] = "create" /\ chat[s] = Null /\ s \notin posted /\ Sending(s)
        /\ UNCHANGED <<asked, answered, result, rows, mount, route, loadVars, at, stopped, early>>
    BY DEF Created, ShellInv, SendsInv, Sending
  <1>2. chat = [chat EXCEPT ![s] = Null]
    BY <1>1 DEF ShellInv, TypeOK
  <1>3. CASE \E c \in Chats \ born :
               /\ born' = born \cup {c} /\ target' = c
               /\ chat' = [chat EXCEPT ![s] = c]
               /\ IF s \in stopped
                  THEN Abort(s, c) /\ UNCHANGED posted
                  ELSE /\ pc' = [pc EXCEPT ![s] = "open"] /\ posted' = posted \cup {s}
                       /\ UNCHANGED <<shown, cache>>
    <2>1. PICK c \in Chats \ born :
               /\ born' = born \cup {c} /\ target' = c
               /\ chat' = [chat EXCEPT ![s] = c]
               /\ IF s \in stopped
                  THEN Abort(s, c) /\ UNCHANGED posted
                  ELSE /\ pc' = [pc EXCEPT ![s] = "open"] /\ posted' = posted \cup {s}
                       /\ UNCHANGED <<shown, cache>>
      BY <1>3
    <2>2. c \in Routes /\ c # Null /\ chat'[s] = c
          /\ \A q \in Sends \ {s} : chat'[q] = chat[q]
      BY <2>1, ShellAssumption DEF Routes, ShellInv, TypeOK
    <2>3. /\ shown' \in [Mounts -> Seq(Item)] /\ cache' \in [Chats -> Seq(Item)]
          /\ pc' \in [Sends -> {"new", "create", "open", "answered", "stopped", "failed"}]
      <3>1. CASE s \in stopped
        <4>1. Ends(s, c, shown[at[s]], "stopped")
          BY <2>1, <3>1, HandlerEnds
        <4> QED BY <1>1, <2>2, <4>1, EndsType DEF ShellInv
      <3>2. CASE s \notin stopped
        BY <2>1, <3>2 DEF ShellInv, TypeOK
      <3> QED BY <3>1, <3>2
    <2>4. posted' \subseteq {q \in Sends : chat'[q] \in born'}
      BY <1>1, <2>1, <2>2 DEF ShellInv, TypeOK
    <2>5. TypeOK'
      BY <1>1, <2>1, <2>2, <2>3, <2>4 DEF ShellInv, TypeOK, loadVars
    <2>6. CASE s \in stopped
      <3>1. pc' = [pc EXCEPT ![s] = "stopped"] /\ UNCHANGED posted
        BY <2>1, <2>6 DEF Abort
      <3> QED BY <1>1, <2>1, <2>2, <2>5, <3>1, HandlerKeeps
    <2>7. CASE s \notin stopped
      <3>1. pc' = [pc EXCEPT ![s] = "open"] /\ posted' = posted \cup {s}
        BY <2>1, <2>7
      <3> QED BY <1>1, <2>1, <2>2, <2>5, <3>1, HandlerKeeps
    <2> QED BY <2>6, <2>7
  <1>4. CASE /\ \E more \in SUBSET (Chats \ born) :
                  born' = born \cup more /\ \A c, d \in more : c = d
             /\ IF s \in stopped THEN Abort(s, Null) ELSE Fail(s)
             /\ UNCHANGED <<target, chat, posted>>
    <2>1. /\ born \subseteq born' /\ born' \subseteq Chats
          /\ UNCHANGED <<target, chat, posted>>
      BY <1>4 DEF ShellInv, TypeOK
    <2>2. PICK list, how : Ends(s, Null, list, how) /\ how \in {"failed", "stopped"}
      <3>1. CASE s \in stopped
        BY <1>4, <3>1, HandlerEnds
      <3>2. CASE s \notin stopped
        BY <1>4, <3>2, HandlerEnds
      <3> QED BY <3>1, <3>2
    <2>3. /\ shown' \in [Mounts -> Seq(Item)] /\ cache' \in [Chats -> Seq(Item)]
          /\ pc' \in [Sends -> {"new", "create", "open", "answered", "stopped", "failed"}]
      BY <1>1, <2>2, EndsType DEF ShellInv, Routes
    <2>4. TypeOK'
      BY <1>1, <2>1, <2>3 DEF ShellInv, TypeOK, loadVars
    <2>5. pc' = [pc EXCEPT ![s] = how]
      BY <2>2 DEF Ends
    <2>6. target' \in born' \cup {Nowhere}
      BY <2>1 DEF ShellInv, PagesInv
    <2> QED BY <1>1, <1>2, <2>1, <2>2, <2>4, <2>5, <2>6, HandlerKeeps
  <1> QED BY <1>3, <1>4 DEF Created

LEMMA StreamedEnds ==
  ASSUME NEW s \in Sends, Streamed(s)
  PROVE  /\ pc[s] = "open"
         /\ UNCHANGED <<serverVars, born, pageVars, loadVars, at, chat, stopped, early>>
         /\ \E list, how : /\ Ends(s, chat[s], list, how)
                           /\ how = "answered" => result[s] = "succeeded"
  BY HandlerEnds DEF Streamed, Ends

LEMMA StreamedKeeps ==
  ASSUME ShellInv, NEW s \in Sends, Streamed(s)
  PROVE  ShellInv'
  <1>1. /\ pc[s] = "open" /\ Sending(s) /\ s \in posted /\ chat[s] \in born
        /\ UNCHANGED <<serverVars, born, pageVars, loadVars, at, chat, stopped, early>>
    BY StreamedEnds DEF ShellInv, SendsInv, Sending
  <1>2. PICK list, how : Ends(s, chat[s], list, how)
    BY StreamedEnds
  <1>3. chat[s] \in Routes /\ chat[s] # Null /\ chat' = [chat EXCEPT ![s] = chat[s]]
    BY <1>1, ChatIsNotNull DEF ShellInv, TypeOK
  <1>4. /\ shown' \in [Mounts -> Seq(Item)] /\ cache' \in [Chats -> Seq(Item)]
        /\ pc' \in [Sends -> {"new", "create", "open", "answered", "stopped", "failed"}]
        /\ how \in {"failed", "stopped", "answered"} /\ pc' = [pc EXCEPT ![s] = how]
    BY <1>1, <1>2, <1>3, EndsType DEF ShellInv, Ends
  <1>5. TypeOK'
    BY <1>1, <1>4 DEF ShellInv, TypeOK, serverVars, pageVars, loadVars
  <1>6. target' \in born' \cup {Nowhere}
    BY <1>1 DEF ShellInv, PagesInv, pageVars
  <1>7. UNCHANGED <<asked, answered, result, rows, mount, route, posted>>
    BY <1>1 DEF serverVars, pageVars
  <1> QED BY <1>1, <1>3, <1>4, <1>5, <1>6, <1>7, HandlerKeeps

(* What the server stores comes last in its chat.                          *)
LEMMA ServeIs ==
  ASSUME ShellInv, NEW s \in Sends, Serve(s)
  PROVE  /\ s \in posted /\ chat[s] \in Chats
         /\ UNCHANGED <<posted, born, pageVars, shown, cache, loadVars, sendVars>>
         /\ \/ \E role \in {"user", "assistant"} :
                 rows' = [rows EXCEPT ![chat[s]] = Append(rows[chat[s]], Stored(s, role))]
            \/ rows' = rows
  BY DEF Serve, Insert, ShellInv, TypeOK

LEMMA ServeKeeps ==
  ASSUME ShellInv, NEW s \in Sends, Serve(s)
  PROVE  ShellInv'
  <1>1. /\ s \in posted /\ chat[s] \in Chats
        /\ UNCHANGED <<posted, born, pageVars, shown, cache, loadVars, sendVars>>
    BY ServeIs
  <1>2. \/ Server!Ask(s) /\ Insert(s, "user") /\ UNCHANGED result
        \/ Server!Answer(s) /\ Insert(s, "assistant") /\ UNCHANGED result
        \/ Server!Succeed(s) /\ UNCHANGED rows
    BY DEF Serve
  <1>3. /\ asked' \subseteq Sends /\ answered' \subseteq Sends
        /\ result' \in [Sends -> {"open", "succeeded", "failed"}]
    BY <1>2 DEF Server!Ask, Server!Answer, Server!Succeed, Server!End, ShellInv, TypeOK
  <1>4. rows' \in [Chats -> Seq(Item)]
    <2>1. CASE rows' = rows
      BY <2>1 DEF ShellInv, TypeOK
    <2>2. ASSUME NEW role \in {"user", "assistant"},
                 rows' = [rows EXCEPT ![chat[s]] = Append(rows[chat[s]], Stored(s, role))]
          PROVE  rows' \in [Chats -> Seq(Item)]
      <3>1. rows[chat[s]] \in Seq(Item) /\ Stored(s, role) \in Item
        BY <1>1, Items DEF ShellInv, TypeOK
      <3>2. Append(rows[chat[s]], Stored(s, role)) \in Seq(Item)
        BY <3>1
      <3> QED BY <1>1, <2>2, <3>2 DEF ShellInv, TypeOK
    <2> QED BY <2>1, <2>2, ServeIs
  <1>5. TypeOK'
    BY <1>1, <1>3, <1>4 DEF ShellInv, TypeOK, pageVars, loadVars, sendVars
  <1>6. PagesInv'
    BY <1>1 DEF ShellInv, PagesInv, pageVars, loadVars
  <1>7. SendsInv'
    BY <1>1 DEF ShellInv, SendsInv, pageVars, loadVars, sendVars, Sending
  <1>8. RowsInv'
    <2>1. /\ answered \subseteq asked /\ asked \subseteq posted
          /\ \A q \in Sends : result[q] = "succeeded" => q \in answered
      BY DEF ShellInv, RowsInv
    <2>2. chat' = chat /\ posted' = posted
      BY <1>1 DEF sendVars
    <2>3. CASE Server!Succeed(s) /\ UNCHANGED rows
      <3>1. UNCHANGED <<asked, answered>> /\ s \in answered
            /\ result' = [result EXCEPT ![s] = "succeeded"]
        BY <2>3 DEF Server!Succeed, Server!End
      <3>2. \A q \in Sends : result'[q] = "succeeded" => q \in answered'
        BY <2>1, <3>1 DEF ShellInv, TypeOK
      <3> QED BY <2>2, <2>3, <3>1, <3>2 DEF ShellInv, RowsInv
    <2>4. ASSUME NEW role \in {"user", "assistant"}, UNCHANGED result, Insert(s, role),
                 \/ role = "user" /\ s \notin asked /\ asked' = asked \cup {s}
                    /\ UNCHANGED answered
                 \/ role = "assistant" /\ s \in asked \ answered /\ answered' = answered \cup {s}
                    /\ UNCHANGED asked
          PROVE  RowsInv'
      <3> DEFINE d == chat[s]
                 new == Stored(s, role)
      <3>1. d \in Chats /\ rows[d] \in Seq(Item) /\ new \in Item
        BY <1>1, Items DEF ShellInv, TypeOK
      <3>2. /\ rows'[d] = Append(rows[d], new)
            /\ \A c \in Chats \ {d} : rows'[c] = rows[c]
        BY <2>4, <3>1 DEF Insert, ShellInv, TypeOK
      <3>3. /\ In(rows'[d]) = In(rows[d]) \cup {new}
            /\ \A a, b : Follows(rows'[d], a, b) <=>
                 Follows(rows[d], a, b) \/ (a \in In(rows[d]) /\ b = new)
        BY <3>1, <3>2, InAppend
      <3>4. new.stored /\ new.send = s /\ new.role = role /\ Stored(s, role) = new
        BY Items
      <3>5. \A c \in Chats : \A x \in In(rows'[c]) :
               x.stored /\ x.send \in posted /\ chat[x.send] = c /\ ~Follows(rows'[c], x, x)
        <4>1. new \notin In(rows[d])
          BY <1>1, <2>4 DEF ShellInv, RowsInv
        <4> SUFFICES ASSUME NEW c \in Chats, NEW x \in In(rows'[c])
                     PROVE  /\ x.stored /\ x.send \in posted /\ chat[x.send] = c
                            /\ ~Follows(rows'[c], x, x)
          OBVIOUS
        <4>2. CASE c # d
          BY <3>2, <4>2 DEF ShellInv, RowsInv
        <4>3. ASSUME x \in In(rows[d])
              PROVE  x.stored /\ x.send \in posted /\ chat[x.send] = d /\ ~Follows(rows[d], x, x)
          BY <1>1, <4>3 DEF ShellInv, RowsInv
        <4>4. x = new => x.stored /\ x.send \in posted /\ chat[x.send] = d
          BY <1>1, <3>4
        <4> HIDE DEF new, d
        <4>5. CASE c = d
          <5>1. x \in In(rows[d]) \cup {new}
            BY <3>3, <4>5
          <5>2. Follows(rows'[d], x, x) => Follows(rows[d], x, x) /\ x # new
            BY <3>3, <4>1, FollowsIn
          <5> QED BY <4>1, <4>3, <4>4, <4>5, <5>1, <5>2
        <4> QED BY <4>2, <4>5
      <3>6. ASSUME NEW q \in posted
            PROVE  /\ q \in Sends /\ chat[q] \in Chats
                   /\ \A r \in {"user", "assistant"} : Stored(q, r) \in In(rows'[chat[q]]) <=>
                        Stored(q, r) \in In(rows[chat[q]]) \/ (q = s /\ r = role)
                   /\ \A a, b : Follows(rows[chat[q]], a, b) => Follows(rows'[chat[q]], a, b)
        <4>1. q \in Sends /\ chat[q] \in Chats
          BY DEF ShellInv, TypeOK
        <4>2. \A r \in {"user", "assistant"} : Stored(q, r) = new <=> q = s /\ r = role
          BY <3>4, <4>1, Items
        <4> HIDE DEF new
        <4> QED BY <3>2, <3>3, <4>1, <4>2
      <3> HIDE DEF new
      <3>7. ASSUME NEW q \in posted
            PROVE  /\ Stored(q, "user") \in In(rows'[chat[q]]) <=> q \in asked'
                   /\ Stored(q, "assistant") \in In(rows'[chat[q]]) <=> q \in answered'
        BY <2>4, <3>6 DEF ShellInv, RowsInv
      <3>8. ASSUME NEW q \in posted, q \in answered'
            PROVE  Follows(rows'[chat[q]], Stored(q, "user"), Stored(q, "assistant"))
        <4>1. CASE q \in answered
          BY <3>6, <4>1 DEF ShellInv, RowsInv
        <4>2. CASE q = s /\ role = "assistant" /\ s \in asked
          <5>1. Stored(s, "user") \in In(rows[d])
            BY <1>1, <4>2 DEF ShellInv, RowsInv
          <5> QED BY <3>3, <4>2, <5>1 DEF new
        <4> QED BY <2>4, <3>8, <4>1, <4>2
      <3>9. answered' \subseteq asked' /\ asked' \subseteq posted
            /\ \A q \in Sends : result'[q] = "succeeded" => q \in answered'
        BY <1>1, <2>1, <2>4
      <3> QED BY <2>2, <3>5, <3>7, <3>8, <3>9 DEF RowsInv
    <2> QED BY <1>2, <2>3, <2>4 DEF Server!Ask, Server!Answer, Serve
  <1> QED BY <1>5, <1>6, <1>7, <1>8 DEF ShellInv

LEMMA ShellInvNext == ASSUME ShellInv, [Next]_vars PROVE ShellInv'
  <1>1. ASSUME NEW c \in born \cup {Null}, Mount(c) PROVE ShellInv'
    BY <1>1, MountKeeps
  <1>2. ASSUME NEW c \in Chats, NewChat(c) PROVE ShellInv'
    BY <1>2, NewChatKeeps
  <1>3. ASSUME NEW m \in Mounts, AnswerLoad(m) \/ ReceiveLoad(m) PROVE ShellInv'
    BY <1>3, LoadKeeps
  <1>4. ASSUME NEW s \in Sends, Submit(s) PROVE ShellInv'
    BY <1>4, SubmitKeeps
  <1>5. ASSUME NEW s \in Sends, Stop(s) PROVE ShellInv'
    BY <1>5, StopKeeps
  <1>6. ASSUME NEW s \in Sends, Created(s) PROVE ShellInv'
    BY <1>6, CreatedKeeps
  <1>7. ASSUME NEW s \in Sends, Streamed(s) PROVE ShellInv'
    BY <1>7, StreamedKeeps
  <1>8. ASSUME NEW s \in Sends, Serve(s) PROVE ShellInv'
    BY <1>8, ServeKeeps
  <1>9. CASE UNCHANGED vars
    BY <1>9 DEF ShellInv, TypeOK, PagesInv, SendsInv, RowsInv, Sending, vars, serverVars,
                pageVars, loadVars, sendVars
  <1>10. Arrive => \E c \in born \cup {Null} : Mount(c)
    BY DEF Arrive, ShellInv, PagesInv
  <1> QED BY <1>1, <1>2, <1>3, <1>4, <1>5, <1>6, <1>7, <1>8, <1>9, <1>10 DEF Next, Navigate

LEMMA ShellInvAlways == Spec => []ShellInv
  BY ShellInvInit, ShellInvNext, PTL DEF Spec

(* TypeOK: everything has its type, and a message goes to the server only  *)
(* once its chat exists (chatSlug), whatever the interleaving.             *)
THEOREM TypeCorrect == Spec => []TypeOK
  <1>1. ShellInv => TypeOK
    BY DEF ShellInv
  <1> QED BY <1>1, ShellInvAlways, PTL

(* What the pages take the server for is what Exchange promises, and the   *)
(* backend keeps (PromiseIsKept in BackendProofs).                         *)
THEOREM ServerIsExchange == Spec => Server!Spec
  <1>1. Init => Server!Init
    BY DEF Init
  <1>2. ASSUME [Next]_vars PROVE [Server!Next]_<<asked, answered, result>>
    <2>1. ASSUME NEW s \in Sends, Serve(s) PROVE Server!Next
      <3>1. Server!Ask(s) \/ Server!Answer(s) \/ Server!Succeed(s)
        BY <2>1 DEF Serve
      <3> QED BY <3>1 DEF Server!Next
    <2>2. CASE UNCHANGED <<asked, answered, result>>
      BY <2>2
    <2>3. ASSUME NEW c, Mount(c) PROVE UNCHANGED <<asked, answered, result>>
      BY <2>3 DEF Mount, serverVars
    <2>4. ASSUME NEW s \in Sends, Submit(s) \/ Stop(s) \/ Created(s) \/ Streamed(s)
          PROVE  UNCHANGED <<asked, answered, result>>
      BY <2>4 DEF Submit, Stop, Created, Streamed, serverVars
    <2>5. ASSUME NEW m \in Mounts, AnswerLoad(m) \/ ReceiveLoad(m)
          PROVE  UNCHANGED <<asked, answered, result>>
      BY <2>5 DEF AnswerLoad, ReceiveLoad, serverVars
    <2>6. ASSUME NEW c \in Chats, NewChat(c) PROVE UNCHANGED <<asked, answered, result>>
      BY <2>6 DEF NewChat, serverVars
    <2>7. CASE UNCHANGED vars
      BY <2>7 DEF vars, serverVars
    <2> QED BY <1>2, <2>1, <2>2, <2>3, <2>4, <2>5, <2>6, <2>7 DEF Next, Navigate, Arrive
  <1> QED BY <1>1, <1>2, PTL DEF Spec, Server!Spec, Server!vars
-----------------------------------------------------------------------------
(* What no step undoes, of the messages that have been sent, the pages     *)
(* that have been opened and the rows that have been stored.               *)
Sent == {s \in Sends : pc[s] # "new"}

Grows ==
  /\ Sent \subseteq Sent' /\ posted \subseteq posted' /\ early \subseteq early'
  /\ \A s \in Sent : at'[s] = at[s] /\ (s \in early' => s \in early)
  /\ \A s \in Sent : chat[s] # Null => chat'[s] = chat[s]
  /\ mount <= mount' /\ \A m \in 1 .. mount : route'[m] = route[m]
  /\ \A c \in Chats : /\ In(rows[c]) \subseteq In(rows'[c])
                      /\ \A a, b : Follows(rows[c], a, b) => Follows(rows'[c], a, b)

LEMMA SentHaveChats ==
  ASSUME ShellInv
  PROVE  /\ posted \subseteq Sent /\ Sent \subseteq Sends /\ early \subseteq Sent
         /\ \A s \in posted : chat[s] \in Chats /\ chat[s] # Null
         /\ \A s \in Sent : at[s] \in 1 .. mount /\ at[s] \in Mounts /\ chat[s] \in born \cup {Null}
         /\ \A c \in Chats : \A x \in In(rows[c]) :
              x.stored /\ x.send \in posted /\ x.send \in Sent /\ chat[x.send] = c
  <1>1. /\ posted \subseteq Sent /\ Sent \subseteq Sends /\ early \subseteq Sent
    BY DEF Sent, ShellInv, SendsInv, TypeOK
  <1>2. \A s \in posted : chat[s] \in Chats /\ chat[s] # Null
    BY ChatIsNotNull DEF ShellInv, TypeOK
  <1>3. \A s \in Sent : at[s] \in 1 .. mount /\ at[s] \in Mounts /\ chat[s] \in born \cup {Null}
    BY DEF Sent, ShellInv, SendsInv, TypeOK, Mounts
  <1>4. \A c \in Chats : \A x \in In(rows[c]) :
              x.stored /\ x.send \in posted /\ x.send \in Sent /\ chat[x.send] = c
    BY <1>1 DEF ShellInv, RowsInv
  <1> QED BY <1>1, <1>2, <1>3, <1>4

LEMMA StepGrows == ASSUME ShellInv, [Next]_vars PROVE Grows
  <1> USE DEF Grows, Sent
  <1>0. mount \in Nat
    BY DEF ShellInv, TypeOK, Mounts
  <1>1. ASSUME NEW c, Mount(c) PROVE Grows
    <2>1. mount' = mount + 1 /\ \A m \in 1 .. mount : route'[m] = route[m]
      BY <1>0, <1>1 DEF Mount, ShellInv, TypeOK, Mounts
    <2> QED BY <1>0, <1>1, <2>1 DEF Mount, serverVars, sendVars
  <1>2. ASSUME UNCHANGED <<serverVars, mount, route, pc, at, chat, early>> PROVE Grows
    BY <1>0, <1>2 DEF serverVars
  <1>3. ASSUME NEW c \in Chats, NewChat(c) PROVE Grows
    BY <1>2, <1>3 DEF NewChat, sendVars
  <1>4. ASSUME NEW m \in Mounts, AnswerLoad(m) \/ ReceiveLoad(m) PROVE Grows
    BY <1>2, <1>4 DEF AnswerLoad, ReceiveLoad, sendVars, pageVars
  <1>5. ASSUME NEW s \in Sends, Submit(s) PROVE Grows
    <2>1. /\ pc[s] = "new" /\ s \notin posted /\ s \notin early
          /\ at' = [at EXCEPT ![s] = mount] /\ chat' = [chat EXCEPT ![s] = route[mount]]
          /\ early' \in {early, early \cup {s}} /\ posted' \in {posted, posted \cup {s}}
          /\ UNCHANGED <<rows, mount, route>>
          /\ \E how \in {"create", "open"} : pc' = [pc EXCEPT ![s] = how]
      BY <1>5 DEF Submit, ShellInv, SendsInv, pageVars
    <2> QED BY <1>0, <2>1 DEF ShellInv, TypeOK
  <1>6. ASSUME NEW s \in Sends, Stop(s) PROVE Grows
    BY <1>2, <1>6 DEF Stop, pageVars
  <1>7. ASSUME NEW s \in Sends, Created(s) PROVE Grows
    <2>1. /\ chat[s] = Null /\ UNCHANGED <<rows, mount, route, at, early>>
          /\ posted \subseteq posted'
          /\ \E c : chat' = [chat EXCEPT ![s] = c]
          /\ \E how \in {"open", "stopped", "failed"} : pc' = [pc EXCEPT ![s] = how]
      <3>1. chat[s] = Null /\ chat = [chat EXCEPT ![s] = Null]
        BY <1>7 DEF Created, ShellInv, SendsInv, TypeOK
      <3> QED BY <1>7, <3>1 DEF Created, Abort, Fail
    <2> QED BY <1>0, <2>1 DEF ShellInv, TypeOK
  <1>8. ASSUME NEW s \in Sends, Streamed(s) PROVE Grows
    <2>1. /\ UNCHANGED <<rows, posted, mount, route, at, chat, early>>
          /\ \E how \in {"answered", "stopped", "failed"} : pc' = [pc EXCEPT ![s] = how]
      BY <1>8 DEF Streamed, Abort, Fail, Finish, serverVars, pageVars
    <2> QED BY <1>0, <2>1 DEF ShellInv, TypeOK
  <1>9. ASSUME NEW s \in Sends, Serve(s) PROVE Grows
    <2>1. UNCHANGED <<posted, mount, route, pc, at, chat, early>>
      BY <1>9, ServeIs DEF pageVars, sendVars
    <2>2. \A c \in Chats : /\ In(rows[c]) \subseteq In(rows'[c])
                           /\ \A a, b : Follows(rows[c], a, b) => Follows(rows'[c], a, b)
      <3>1. CASE rows' = rows
        BY <3>1
      <3>2. ASSUME NEW role \in {"user", "assistant"},
                   rows' = [rows EXCEPT ![chat[s]] = Append(rows[chat[s]], Stored(s, role))]
            PROVE  \A c \in Chats : /\ In(rows[c]) \subseteq In(rows'[c])
                           /\ \A a, b : Follows(rows[c], a, b) => Follows(rows'[c], a, b)
        <4>1. rows[chat[s]] \in Seq(Item) /\ Stored(s, role) \in Item
          BY <1>9, ServeIs, Items DEF ShellInv, TypeOK
        <4>2. /\ rows'[chat[s]] = Append(rows[chat[s]], Stored(s, role))
              /\ \A c \in Chats \ {chat[s]} : rows'[c] = rows[c]
          BY <1>9, ServeIs, <3>2 DEF ShellInv, TypeOK
        <4>3. /\ In(rows[chat[s]]) \subseteq In(rows'[chat[s]])
              /\ \A a, b : Follows(rows[chat[s]], a, b) => Follows(rows'[chat[s]], a, b)
          BY <4>1, <4>2, InAppend
        <4> QED BY <4>2, <4>3
      <3> QED BY <1>9, ServeIs, <3>1, <3>2
    <2> QED BY <1>0, <2>1, <2>2
  <1>10. CASE UNCHANGED vars
    BY <1>2, <1>10 DEF vars, pageVars, sendVars
  <1> QED BY <1>1, <1>3, <1>4, <1>5, <1>6, <1>7, <1>8, <1>9, <1>10 DEF Next, Navigate, Arrive
-----------------------------------------------------------------------------
(* A list, wherever it is, holds messages that have been sent; those that  *)
(* are stored the server has, and in this order.                           *)
Held(list) ==
  \A x \in In(list) :
    x.send \in Sent /\ (x.stored => x.send \in posted /\ x \in In(rows[chat[x.send]]))
Ordered(list) ==
  \A a, b \in In(list) :
    (/\ Follows(list, a, b) /\ a.stored /\ b.stored
     /\ chat[a.send] = chat[b.send] /\ a.send \notin early /\ b.send \notin early)
    => Follows(rows[chat[a.send]], a, b)

AllLists ==
  {shown[m] : m \in Mounts} \cup {fetched[m] : m \in Mounts} \cup {cache[c] : c \in Chats}
ListsInv == \A list \in AllLists : Held(list) /\ Ordered(list)

(* The server goes on having them.                                         *)
LEMMA ListStays ==
  ASSUME ShellInv, Grows, NEW list \in Seq(Item), Held(list), Ordered(list)
  PROVE  Held(list)' /\ Ordered(list)'
  <1>1. ASSUME NEW x \in In(list)
        PROVE  /\ x.send \in Sent' /\ (x.send \notin early' => x.send \notin early)
               /\ x.stored => /\ chat[x.send] \in Chats /\ chat'[x.send] = chat[x.send]
                              /\ x.send \in posted' /\ x \in In(rows'[chat[x.send]])
    <2>1. x.send \in Sent /\ x.send \in Sent' /\ (x.send \notin early' => x.send \notin early)
      BY DEF Held, Grows
    <2>2. ASSUME x.stored
          PROVE  /\ chat[x.send] \in Chats /\ chat'[x.send] = chat[x.send]
                 /\ x.send \in posted' /\ x \in In(rows'[chat[x.send]])
      <3>1. x.send \in posted /\ x \in In(rows[chat[x.send]])
        BY <2>2 DEF Held
      <3>2. chat[x.send] \in Chats /\ chat[x.send] # Null
        BY <3>1, SentHaveChats
      <3> QED BY <2>1, <3>1, <3>2 DEF Grows
    <2> QED BY <2>1, <2>2
  <1>2. Held(list)'
    BY <1>1 DEF Held
  <1>3. Ordered(list)'
    BY <1>1 DEF Ordered, Grows
  <1> QED BY <1>2, <1>3
-----------------------------------------------------------------------------
(* Where the lists of the next state come from.                            *)
Drafts(s) == <<Draft(s, "user"), Draft(s, "assistant")>>

ListFrom(list) ==
  \/ list \in AllLists \cup {<<>>}
  \/ \E c \in Chats : list = rows[c]
  \/ \E s \in Sends : Submit(s) /\ list = shown[mount] \o Drafts(s)
  \/ \E s \in Sends :
       /\ Sending(s)
       /\ \/ list = WithoutDrafts(at[s], s)
          \/ list = Finalized(at[s], s) /\ result[s] = "succeeded"
ListsFrom == \A list \in AllLists' : ListFrom(list)

ShownFrom ==
  \A m \in Mounts : \A x \in In(shown'[m]) :
    \/ x \in In(shown[m])
    \/ m = mount + 1 /\ m = mount' /\ route'[m] \in Chats /\ x \in In(cache[route'[m]])
       /\ load'[m] = "asked"
    \/ load[m] = "answered" /\ load'[m] = "done" /\ x \in In(fetched[m])
    \/ /\ x.send \in Sends /\ m \in 1 .. mount /\ at'[x.send] = m
       /\ x.stored => Sending(x.send) /\ ~Sending(x.send)'
CacheFrom ==
  \A c \in Chats : \A x \in In(cache'[c]) :
    \/ x \in In(cache[c])
    \/ \E m \in 1 .. mount : route[m] = c /\ x \in In(fetched[m])
    \/ \E s \in Sent : chat'[s] = c /\ (x.send = s \/ x \in In(shown[at[s]]))
FetchedFrom ==
  \A m \in Mounts :
    \/ fetched'[m] = fetched[m] /\ (load'[m] = "answered" => load[m] = "answered")
    \/ fetched'[m] = <<>> /\ load'[m] # "answered"
    \/ m \in 1 .. mount /\ route[m] \in Chats /\ fetched'[m] = rows[route[m]]
Kept ==
  mount' = mount =>
    \A x \in In(shown[mount]) : x.stored =>
      x \in In(shown'[mount]) \/ (load[mount] = "answered" /\ shown'[mount] = fetched[mount])
RowsFrom ==
  \A c \in Chats : \A y \in In(rows'[c]) \ In(rows[c]) : \A x \in In(rows[c]) :
    Follows(rows'[c], x, y)
SendsFrom ==
  \A s \in Sends :
    /\ Sending(s)' => Sending(s) \/ (pc[s] = "new" /\ \A q \in Sends \ {s} : pc'[q] = pc[q])
    /\ pc'[s] = "answered" => \/ pc[s] = "answered"
                              \/ /\ Sending(s) /\ result[s] = "succeeded" /\ mount' = mount
                                 /\ at[s] = mount => shown'[mount] = Finalized(mount, s)

Changes == /\ ListsFrom /\ ShownFrom /\ CacheFrom /\ FetchedFrom
           /\ Kept /\ RowsFrom /\ SendsFrom

(* The parts that a step does not touch.                                   *)
LEMMA Untouched ==
  /\ UNCHANGED <<shown, cache, fetched>> => ListsFrom
  /\ UNCHANGED shown => ShownFrom /\ Kept
  /\ UNCHANGED cache => CacheFrom
  /\ UNCHANGED <<load, fetched>> => FetchedFrom
  /\ UNCHANGED rows => RowsFrom
  /\ UNCHANGED pc => SendsFrom
  <1>1. UNCHANGED <<shown, cache, fetched>> => ListsFrom
    BY DEF ListsFrom, ListFrom, AllLists
  <1>2. UNCHANGED shown => ShownFrom /\ Kept
    BY DEF ShownFrom, Kept
  <1>3. UNCHANGED cache => CacheFrom
    BY DEF CacheFrom
  <1>4. UNCHANGED <<load, fetched>> => FetchedFrom
    BY DEF FetchedFrom
  <1>5. UNCHANGED rows => RowsFrom
    BY DEF RowsFrom
  <1>6. UNCHANGED pc => SendsFrom
    BY DEF SendsFrom, Sending
  <1> QED BY <1>1, <1>2, <1>3, <1>4, <1>5, <1>6

LEMMA MountChanges ==
  ASSUME ShellInv, NEW c \in born \cup {Null}, Mount(c)
  PROVE  Changes
  <1> DEFINE m == mount + 1
  <1>0. mount \in Mounts /\ m \in Mounts /\ m # mount /\ (c # Null => c \in Chats)
    BY ShellAssumption DEF Mount, ShellInv, TypeOK, Mounts
  <1>1. /\ mount' = m /\ UNCHANGED <<rows, cache, fetched, pc>>
        /\ route'[m] = c /\ load'[m] = (IF c = Null THEN "none" ELSE "asked")
        /\ \A n \in Mounts \ {m} : load'[n] = load[n]
        /\ \A n \in Mounts : shown'[n] = IF n = m /\ c # Null THEN cache[c]
                                         ELSE IF n = mount /\ Idle(n) THEN <<>> ELSE shown[n]
    BY <1>0 DEF Mount, serverVars, sendVars, ShellInv, TypeOK
  <1> HIDE DEF m
  <1>2. ListsFrom
    BY <1>0, <1>1 DEF ListsFrom, ListFrom, AllLists
  <1>3. ShownFrom
    BY <1>0, <1>1, InEmpty DEF ShownFrom, m
  <1>4. FetchedFrom
    BY <1>1 DEF FetchedFrom
  <1>5. Kept
    BY <1>0, <1>1 DEF Kept
  <1> QED BY <1>1, <1>2, <1>3, <1>4, <1>5, Untouched DEF Changes

LEMMA LoadChanges ==
  ASSUME ShellInv, NEW m \in Mounts, AnswerLoad(m) \/ ReceiveLoad(m)
  PROVE  Changes
  <1>1. /\ load[m] \in {"asked", "answered"} /\ route[m] \in Chats /\ m \in 1 .. mount
        /\ mount \in Nat
    BY DEF AnswerLoad, ReceiveLoad, ShellInv, PagesInv, TypeOK, Mounts
  <1>2. UNCHANGED <<rows, pc, mount>>
    BY DEF AnswerLoad, ReceiveLoad, serverVars, sendVars, pageVars
  <1>3. CASE AnswerLoad(m)
    <2>1. /\ UNCHANGED <<shown, cache>>
          /\ \A n \in Mounts \ {m} : load'[n] = load[n] /\ fetched'[n] = fetched[n]
          /\ \/ fetched'[m] = rows[route[m]]
             \/ fetched'[m] = fetched[m] /\ load'[m] = "done"
      BY <1>3 DEF AnswerLoad, ShellInv, TypeOK
    <2>2. ListsFrom
      <3>1. \A n \in Mounts : fetched'[n] \in AllLists \/ fetched'[n] = rows[route[m]]
        BY <2>1 DEF AllLists
      <3>2. \A n \in Mounts : shown'[n] \in AllLists
        BY <2>1 DEF AllLists
      <3>3. \A c \in Chats : cache'[c] \in AllLists
        BY <2>1 DEF AllLists
      <3> QED BY <1>1, <3>1, <3>2, <3>3 DEF ListsFrom, ListFrom, AllLists
    <2>3. FetchedFrom
      BY <1>1, <2>1 DEF FetchedFrom
    <2> QED BY <1>2, <2>1, <2>2, <2>3, Untouched DEF Changes
  <1>4. CASE ReceiveLoad(m)
    <2>1. /\ load[m] = "answered" /\ load'[m] = "done" /\ fetched'[m] = <<>>
          /\ \A n \in Mounts \ {m} : /\ load'[n] = load[n] /\ fetched'[n] = fetched[n]
                                     /\ shown'[n] = shown[n]
          /\ shown'[m] = IF m = mount THEN fetched[m] ELSE shown[m]
          /\ \A c \in Chats : cache'[c] = IF c = route[m] THEN fetched[m] ELSE cache[c]
      BY <1>1, <1>4 DEF ReceiveLoad, ShellInv, TypeOK
    <2>2. ListsFrom
      <3>1. \A n \in Mounts : shown'[n] \in AllLists /\ fetched'[n] \in AllLists \cup {<<>>}
        BY <2>1 DEF AllLists
      <3>2. \A c \in Chats : cache'[c] \in AllLists
        BY <2>1 DEF AllLists
      <3> QED BY <3>1, <3>2 DEF ListsFrom, ListFrom, AllLists
    <2>3. FetchedFrom
      BY <1>1, <2>1 DEF FetchedFrom
    <2>4. ShownFrom
      BY <1>1, <2>1 DEF ShownFrom
    <2>5. CacheFrom
      BY <1>1, <2>1 DEF CacheFrom
    <2>6. Kept
      <3>1. mount \in Mounts
        BY DEF ShellInv, TypeOK
      <3> QED BY <1>2, <2>1, <3>1 DEF Kept
    <2> QED BY <1>2, <2>2, <2>3, <2>4, <2>5, <2>6, Untouched DEF Changes
  <1> QED BY <1>3, <1>4

LEMMA SubmitChanges ==
  ASSUME ShellInv, NEW s \in Sends, Submit(s)
  PROVE  Changes
  <1>1. /\ mount \in Mounts /\ mount \in 1 .. mount /\ shown[mount] \in Seq(Item)
    <2>1. mount \in Mounts /\ shown[mount] \in Seq(Item)
      BY DEF ShellInv, TypeOK
    <2> QED BY <2>1 DEF Mounts
  <1>2. /\ shown'[mount] = shown[mount] \o Drafts(s) /\ at'[s] = mount
        /\ \A m \in Mounts \ {mount} : shown'[m] = shown[m]
        /\ UNCHANGED <<rows, cache, load, fetched, mount>>
        /\ pc[s] = "new" /\ \E how \in {"create", "open"} : pc' = [pc EXCEPT ![s] = how]
    BY <1>1 DEF Submit, Drafts, pageVars, loadVars, ShellInv, TypeOK
  <1>3. /\ In(Drafts(s)) = {Draft(s, "user"), Draft(s, "assistant")} /\ Drafts(s) \in Seq(Item)
        /\ In(shown'[mount]) = In(shown[mount]) \cup In(Drafts(s))
    <2>1. /\ In(Drafts(s)) = {Draft(s, "user"), Draft(s, "assistant")} /\ Drafts(s) \in Seq(Item)
      BY InPair, Items DEF Drafts
    <2> QED BY <1>1, <1>2, <2>1, InConcat
  <1>4. ListsFrom
    BY <1>2 DEF ListsFrom, ListFrom, AllLists
  <1>5. ShownFrom
    <2> SUFFICES ASSUME NEW x \in In(shown'[mount]), x \notin In(shown[mount])
                 PROVE  x.send = s /\ ~x.stored
      BY <1>1, <1>2 DEF ShownFrom
    <2>1. x \in {Draft(s, "user"), Draft(s, "assistant")}
      BY <1>3
    <2> QED BY <2>1, Items
  <1>6. Kept
    BY <1>2, <1>3 DEF Kept
  <1>7. SendsFrom
    BY <1>2 DEF SendsFrom, Sending, ShellInv, TypeOK
  <1> QED BY <1>2, <1>4, <1>5, <1>6, <1>7, Untouched DEF Changes

LEMMA EndChanges ==
  ASSUME ShellInv, NEW s \in Sends, Sending(s), NEW c \in Routes, NEW list, NEW how,
         Ends(s, c, list, how), how = "answered" => result[s] = "succeeded",
         UNCHANGED <<rows, mount, route, loadVars, at>>, c # Null => chat'[s] = c
  PROVE  Changes
  <1> DEFINE m == at[s]
  <1>1. /\ m \in Mounts /\ m \in 1 .. mount /\ mount \in Mounts /\ s \in Sent /\ m = at'[s]
    BY SentHaveChats DEF Sent, Sending, ShellInv, TypeOK
  <1>2. /\ list \in Seq(Item) /\ how \in {"failed", "stopped", "answered"}
        /\ pc'[s] = how /\ \A q \in Sends \ {s} : pc'[q] = pc[q]
    BY EndsType DEF ShellInv
  <1>3. /\ shown'[m] = (IF m = mount THEN list ELSE <<>>)
        /\ \A n \in Mounts \ {m} : shown'[n] = shown[n]
        /\ \A d \in Chats : cache'[d] = cache[d] \/ (cache'[d] = list /\ d = c)
        /\ UNCHANGED <<rows, mount, load, fetched>>
    BY <1>1 DEF Ends, SetMessages, loadVars, ShellInv, TypeOK
  <1>4. \/ how = "failed" /\ list = WithoutDrafts(m, s)
        \/ how = "stopped" /\ list = shown[m]
        \/ how = "answered" /\ list = Finalized(m, s) /\ result[s] = "succeeded"
    BY DEF Ends
  <1>5. \A x \in In(shown[m]) : x.stored => x \in In(list)
    BY <1>1, <1>4, WithoutDraftsIs, FinalizedIs DEF ShellInv
  <1>6. \A x \in In(list) : x \in In(shown[m]) \/ (x.send = s /\ s \in Sends)
    <2>1. Stored(s, "user").send = s /\ Stored(s, "assistant").send = s
      BY Items
    <2> QED BY <1>1, <1>4, <2>1, WithoutDraftsIs, FinalizedIs DEF ShellInv
  <1>7. ~Sending(s)'
    BY <1>2 DEF Sending
  <1>8. ListsFrom
    <2> SUFFICES ASSUME NEW l \in AllLists' PROVE ListFrom(l)
      BY DEF ListsFrom
    <2>1. l \in AllLists \cup {<<>>} \/ l = list
      BY <1>3 DEF AllLists
    <2>2. ListFrom(list)
      BY <1>1, <1>4 DEF ListFrom, AllLists
    <2> QED BY <2>1, <2>2 DEF ListFrom
  <1> HIDE DEF m
  <1>9. ShownFrom
    BY <1>1, <1>3, <1>6, <1>7, InEmpty DEF ShownFrom
  <1>10. CacheFrom
    <2> SUFFICES ASSUME NEW d \in Chats, NEW x \in In(cache'[d]), x \notin In(cache[d])
                 PROVE  chat'[s] = d /\ (x.send = s \/ x \in In(shown[m]))
      BY <1>1 DEF CacheFrom, m
    <2>1. d = c /\ cache'[d] = list /\ d # Null
      BY <1>3, ShellAssumption
    <2> QED BY <1>6, <2>1
  <1>11. Kept
    <2>1. ASSUME NEW x \in In(shown[mount]), x.stored PROVE x \in In(shown'[mount])
      <3>1. CASE mount = m
        BY <1>3, <1>5, <2>1, <3>1
      <3>2. CASE mount # m
        BY <1>1, <1>3, <2>1, <3>2
      <3> QED BY <3>1, <3>2
    <2> QED BY <2>1 DEF Kept
  <1>12. SendsFrom
    BY <1>2, <1>3, <1>4 DEF SendsFrom, Sending, m
  <1> QED BY <1>3, <1>8, <1>9, <1>10, <1>11, <1>12, Untouched DEF Changes

LEMMA CreatedChanges ==
  ASSUME ShellInv, NEW s \in Sends, Created(s)
  PROVE  Changes
  <1>1. /\ Sending(s) /\ UNCHANGED <<rows, mount, route, loadVars, at>> /\ pc[s] = "create"
    BY DEF Created, Sending
  <1>2. CASE \E c \in Routes : \E list, how :
               Ends(s, c, list, how) /\ how # "answered" /\ (c # Null => chat'[s] = c)
    BY <1>1, <1>2, EndChanges
  <1>3. CASE UNCHANGED <<shown, cache>> /\ pc' = [pc EXCEPT ![s] = "open"]
    <2>1. SendsFrom
      BY <1>1, <1>3 DEF SendsFrom, Sending, ShellInv, TypeOK
    <2> QED BY <1>1, <1>3, <2>1, Untouched DEF Changes, loadVars
  <1>4. CASE \E c \in Chats \ born :
               /\ chat' = [chat EXCEPT ![s] = c]
               /\ IF s \in stopped
                  THEN Abort(s, c)
                  ELSE pc' = [pc EXCEPT ![s] = "open"] /\ UNCHANGED <<shown, cache>>
    <2>1. PICK c \in Chats \ born :
               /\ chat' = [chat EXCEPT ![s] = c]
               /\ IF s \in stopped
                  THEN Abort(s, c)
                  ELSE pc' = [pc EXCEPT ![s] = "open"] /\ UNCHANGED <<shown, cache>>
      BY <1>4
    <2>2. CASE s \in stopped
      <3>1. Ends(s, c, shown[at[s]], "stopped") /\ c \in Routes /\ chat'[s] = c
        BY <2>1, <2>2, HandlerEnds DEF Routes, ShellInv, TypeOK
      <3> QED BY <3>1, <1>2
    <2>3. CASE s \notin stopped
      BY <2>1, <2>3, <1>3
    <2> QED BY <2>2, <2>3
  <1>5. CASE IF s \in stopped THEN Abort(s, Null) ELSE Fail(s)
    <2>1. \E list, how : Ends(s, Null, list, how) /\ how # "answered"
      BY <1>5, HandlerEnds
    <2> QED BY <2>1, <1>2 DEF Routes
  <1> QED BY <1>4, <1>5 DEF Created

LEMMA StreamedChanges ==
  ASSUME ShellInv, NEW s \in Sends, Streamed(s)
  PROVE  Changes
  <1>1. /\ Sending(s) /\ UNCHANGED <<rows, mount, route, loadVars, at>> /\ chat'[s] = chat[s]
    BY StreamedEnds DEF Sending, serverVars, pageVars
  <1>2. PICK list, how : Ends(s, chat[s], list, how) /\ (how = "answered" => result[s] = "succeeded")
    BY StreamedEnds
  <1>3. chat[s] \in Routes
    BY DEF ShellInv, TypeOK
  <1> QED BY <1>1, <1>2, <1>3, EndChanges

LEMMA ServeChanges ==
  ASSUME ShellInv, NEW s \in Sends, Serve(s)
  PROVE  Changes
  <1>1. UNCHANGED <<shown, cache, load, fetched, pc>> /\ chat[s] \in Chats
    BY ServeIs DEF loadVars, sendVars
  <1>2. RowsFrom
    <2>1. ASSUME NEW role \in {"user", "assistant"},
                 rows' = [rows EXCEPT ![chat[s]] = Append(rows[chat[s]], Stored(s, role))]
          PROVE  RowsFrom
      <3>1. rows[chat[s]] \in Seq(Item) /\ Stored(s, role) \in Item
        BY <1>1, Items DEF ShellInv, TypeOK
      <3>2. /\ rows'[chat[s]] = Append(rows[chat[s]], Stored(s, role))
            /\ \A c \in Chats \ {chat[s]} : rows'[c] = rows[c]
        BY <1>1, <2>1 DEF ShellInv, TypeOK
      <3>3. /\ In(rows'[chat[s]]) = In(rows[chat[s]]) \cup {Stored(s, role)}
            /\ \A x \in In(rows[chat[s]]) : Follows(rows'[chat[s]], x, Stored(s, role))
        BY <3>1, <3>2, InAppend
      <3> QED BY <3>2, <3>3 DEF RowsFrom
    <2> QED BY <2>1, ServeIs, Untouched
  <1> QED BY <1>1, <1>2, Untouched DEF Changes

LEMMA StepChanges == ASSUME ShellInv, [Next]_vars PROVE Changes
  <1>1. ASSUME UNCHANGED <<shown, cache, load, fetched, rows, pc>> PROVE Changes
    BY <1>1, Untouched DEF Changes
  <1>2. ASSUME NEW c \in born \cup {Null}, Mount(c) PROVE Changes
    BY <1>2, MountChanges
  <1>3. Arrive => \E c \in born \cup {Null} : Mount(c)
    BY DEF Arrive, ShellInv, PagesInv
  <1>4. ASSUME NEW c \in Chats, NewChat(c) PROVE Changes
    BY <1>1, <1>4 DEF NewChat, serverVars, loadVars, sendVars
  <1>5. ASSUME NEW m \in Mounts, AnswerLoad(m) \/ ReceiveLoad(m) PROVE Changes
    BY <1>5, LoadChanges
  <1>6. ASSUME NEW s \in Sends, Stop(s) PROVE Changes
    BY <1>1, <1>6 DEF Stop, serverVars, loadVars
  <1>7. ASSUME NEW s \in Sends, Submit(s) \/ Created(s) \/ Streamed(s) \/ Serve(s) PROVE Changes
    BY <1>7, SubmitChanges, CreatedChanges, StreamedChanges, ServeChanges
  <1>8. CASE UNCHANGED vars
    BY <1>1, <1>8 DEF vars, serverVars, loadVars, sendVars
  <1> QED BY <1>2, <1>3, <1>4, <1>5, <1>6, <1>7, <1>8 DEF Next, Navigate
-----------------------------------------------------------------------------
(* The page that a message was sent on, and the chat that a list is of.    *)
At(m, x) == IF route[m] = Null THEN at[x.send] = m
            ELSE chat[x.send] = route[m] \/ Hasty(x.send)
HomeInv ==
  /\ \A m \in Mounts : \A x \in In(shown[m]) : At(m, x)
  /\ \A m \in Mounts : \A x \in In(fetched[m]) : x.stored /\ chat[x.send] = route[m]
  /\ \A c \in Chats : \A x \in In(cache[c]) : chat[x.send] = c \/ Hasty(x.send)

(* While a message is being sent, all that its page shows came before it.  *)
SendingInv ==
  \A s \in Sends : Sending(s) /\ s \notin early =>
    \A x \in In(shown[at[s]]) : x.stored =>
      /\ x.send # s
      /\ \A role \in {"user", "assistant"} :
           chat[x.send] = chat[s] /\ Stored(s, role) \in In(rows[chat[s]])
           => Follows(rows[chat[s]], x, Stored(s, role))

(* What is on its way to a page has what the page shows.                   *)
FetchInv ==
  \A m \in Mounts : load[m] = "answered" =>
    \A x \in In(shown[m]) :
      x.stored /\ chat[x.send] = route[m] /\ x.send \notin early => x \in In(fetched[m])

PageInv == ListsInv /\ HomeInv /\ SendingInv /\ FetchInv /\ AnswerIsShown

LEMMA PageInvInit == ASSUME Init PROVE PageInv
  <1>1. \A list \in AllLists : list = <<>>
    BY DEF Init, AllLists
  <1>2. ListsInv
    BY <1>1, InEmpty DEF ListsInv, Held, Ordered
  <1>3. HomeInv
    BY InEmpty DEF Init, HomeInv
  <1>4. SendingInv /\ FetchInv /\ AnswerIsShown
    BY DEF Init, SendingInv, FetchInv, AnswerIsShown, Sending
  <1> QED BY <1>2, <1>3, <1>4 DEF PageInv

LEMMA ListTypes ==
  ASSUME ShellInv
  PROVE  /\ \A list \in AllLists : list \in Seq(Item)
         /\ \A c \in Chats : rows[c] \in Seq(Item)
  BY DEF AllLists, ShellInv, TypeOK

LEMMA InAllLists ==
  /\ \A m \in Mounts : shown[m] \in AllLists /\ fetched[m] \in AllLists
  /\ \A c \in Chats : cache[c] \in AllLists
  BY DEF AllLists

LEMMA PageNumbers ==
  ASSUME ShellInv
  PROVE  /\ mount \in Mounts /\ mount \in Nat /\ 1 .. mount \subseteq Mounts
         /\ \A m \in Mounts : m \in 1 .. mount \/ (m > mount /\ route[m] = Null)
  <1>1. mount \in Mounts /\ MaxMount \in Nat
    BY ShellAssumption DEF ShellInv, TypeOK
  <1>2. \A m \in Mounts : m \in 1 .. mount \/ m > mount
    BY <1>1 DEF Mounts
  <1>3. mount \in Nat /\ 1 .. mount \subseteq Mounts
    BY <1>1 DEF Mounts
  <1> QED BY <1>1, <1>2, <1>3 DEF ShellInv, PagesInv

LEMMA ListsKeep ==
  ASSUME ShellInv, ShellInv', Grows, Changes, ListsInv, SendingInv
  PROVE  ListsInv'
  <1> SUFFICES ASSUME NEW list \in AllLists' PROVE Held(list)' /\ Ordered(list)'
    BY DEF ListsInv
  <1>1. CASE list \in AllLists \cup {<<>>}
    <2>1. list \in Seq(Item) /\ Held(list) /\ Ordered(list)
      <3>1. <<>> \in Seq(Item) /\ Held(<<>>) /\ Ordered(<<>>)
        BY InEmpty DEF Held, Ordered
      <3> QED BY <1>1, <3>1, ListTypes DEF ListsInv
    <2> QED BY <2>1, ListStays
  <1>2. ASSUME NEW c \in Chats, list = rows[c] PROVE Held(list)' /\ Ordered(list)'
    <2>1. list \in Seq(Item) /\ Held(list)
      BY <1>2, ListTypes, SentHaveChats DEF Held
    <2>2. Ordered(list)
      BY <1>2, SentHaveChats DEF Ordered
    <2> QED BY <2>1, <2>2, ListStays
  <1>3. ASSUME NEW s \in Sends, Submit(s), list = shown[mount] \o Drafts(s)
        PROVE  Held(list)' /\ Ordered(list)'
    <2> DEFINE old == shown[mount]
    <2>1. mount \in Mounts
      BY DEF ShellInv, TypeOK
    <2>2. old \in AllLists /\ old \in Seq(Item)
      BY <2>1, InAllLists, ListTypes
    <2>3. /\ Drafts(s) \in Seq(Item)
          /\ \A x \in In(Drafts(s)) : x.send = s /\ ~x.stored
      <3>1. In(Drafts(s)) = {Draft(s, "user"), Draft(s, "assistant")} /\ Drafts(s) \in Seq(Item)
        BY InPair, Items DEF Drafts
      <3> QED BY <3>1, Items
    <2>4. s \in Sent'
      BY <1>3 DEF Submit, Sent, ShellInv, TypeOK
    <2> HIDE DEF old
    <2>5. PICK l : l = old
      OBVIOUS
    <2>6. Held(l)' /\ Ordered(l)'
      BY <2>2, <2>5, ListStays DEF ListsInv
    <2>7. /\ In(list) = In(l) \cup In(Drafts(s))
          /\ \A x, y : Follows(list, x, y) =>
               Follows(l, x, y) \/ y \in In(Drafts(s)) \/ x \in In(Drafts(s))
      <3>1. list = l \o Drafts(s)
        BY <1>3, <2>5 DEF old
      <3> QED BY <2>2, <2>3, <2>5, <3>1, InConcat, FollowsIn
    <2>8. Held(list)'
      BY <2>3, <2>4, <2>6, <2>7 DEF Held
    <2>9. Ordered(list)'
      BY <2>3, <2>6, <2>7, FollowsIn DEF Ordered
    <2> QED BY <2>8, <2>9
  <1>4. ASSUME NEW s \in Sends, Sending(s), list = WithoutDrafts(at[s], s)
        PROVE  Held(list)' /\ Ordered(list)'
    <2>1. at[s] \in Mounts
      BY <1>4, SentHaveChats DEF Sent, Sending
    <2>2. Held(shown[at[s]]) /\ Ordered(shown[at[s]])
      BY <2>1, InAllLists DEF ListsInv
    <2>3. list \in Seq(Item) /\ Held(list) /\ Ordered(list)
      BY <1>4, <2>1, <2>2, WithoutDraftsIs DEF ShellInv, Held, Ordered
    <2> QED BY <2>3, ListStays
  <1>5. ASSUME NEW s \in Sends, Sending(s), list = Finalized(at[s], s), result[s] = "succeeded"
        PROVE  Held(list)' /\ Ordered(list)'
    <2> DEFINE u == Stored(s, "user")
               a == Stored(s, "assistant")
               m == at[s]
    <2>1. m \in Mounts /\ s \in Sent
      BY <1>5, SentHaveChats DEF Sent, Sending
    <2>2. Held(shown[m]) /\ Ordered(shown[m])
      BY <2>1, InAllLists DEF ListsInv
    <2>3. /\ list \in Seq(Item)
          /\ In(list) = {x \in In(shown[m]) : x.send # s \/ x.stored} \cup {u, a}
          /\ \A x, y : Follows(list, x, y) =>
               \/ Follows(shown[m], x, y)
               \/ x \in In(shown[m]) /\ y \in {u, a}
               \/ x = u /\ y = a
      BY <1>5, <2>1, FinalizedIs DEF ShellInv
    <2>4. /\ s \in posted /\ Follows(rows[chat[s]], u, a)
          /\ u \in In(rows[chat[s]]) /\ a \in In(rows[chat[s]])
      BY <1>5 DEF ShellInv, RowsInv
    <2>5. u.send = s /\ a.send = s
      BY Items
    <2> HIDE DEF u, a, m
    <2>6. Held(list)
      BY <2>1, <2>2, <2>3, <2>4, <2>5 DEF Held
    <2>7. Ordered(list)
      <3> SUFFICES ASSUME NEW x \in In(list), NEW y \in In(list), Follows(list, x, y),
                          x.stored, y.stored, chat[x.send] = chat[y.send],
                          x.send \notin early, y.send \notin early
                   PROVE  Follows(rows[chat[x.send]], x, y)
        BY DEF Ordered
      <3>1. CASE Follows(shown[m], x, y)
        BY <2>2, <3>1, FollowsIn DEF Ordered
      <3>2. CASE x \in In(shown[m]) /\ y \in {u, a}
        BY <1>5, <2>4, <2>5, <3>2 DEF SendingInv, u, a, m
      <3>3. CASE x = u /\ y = a
        BY <2>4, <2>5, <3>3
      <3> QED BY <2>3, <3>1, <3>2, <3>3
    <2> QED BY <2>3, <2>6, <2>7, ListStays
  <1> QED BY <1>1, <1>2, <1>3, <1>4, <1>5 DEF Changes, ListsFrom, ListFrom

LEMMA HomeKeeps ==
  ASSUME ShellInv, ShellInv', Grows, Changes, ListsInv, HomeInv
  PROVE  HomeInv'
  <1>1. \A s \in Sent : Hasty(s) => Hasty(s)'
    <2> SUFFICES ASSUME NEW s \in Sent, NEW q \in Sends \ {s}, at[q] = at[s], route[at[s]] = Null
                 PROVE  at'[q] = at'[s] /\ route'[at'[s]] = Null
      BY DEF Hasty
    <2>1. at[s] \in 1 .. mount /\ at[q] # 0 /\ mount \in Nat
      BY SentHaveChats DEF ShellInv, TypeOK, Mounts
    <2>2. q \in Sent
      BY <2>1 DEF ShellInv, SendsInv, Sent
    <2> QED BY <2>1, <2>2 DEF Grows
  <1>2. ASSUME NEW list \in AllLists, NEW x \in In(list)
        PROVE  /\ x.send \in Sent /\ at'[x.send] = at[x.send] /\ at[x.send] \in 1 .. mount
               /\ x.send \in Sends
               /\ chat[x.send] # Null => chat'[x.send] = chat[x.send]
    BY SentHaveChats DEF ListsInv, Held, Grows
  <1>3. ASSUME NEW c \in Chats, NEW x, x.send \in Sent,
               chat[x.send] = c \/ Hasty(x.send)
        PROVE  chat'[x.send] = c \/ Hasty(x.send)'
    BY <1>1, <1>3, ShellAssumption DEF Grows
  <1>4. ASSUME NEW m \in 1 .. mount, NEW x \in In(shown[m]) PROVE At(m, x)'
    <2>1. m \in Mounts /\ route'[m] = route[m] /\ route[m] \in Chats \cup {Null}
      BY PageNumbers DEF Grows, ShellInv, TypeOK, Routes
    <2>2. At(m, x) /\ x.send \in Sent /\ at'[x.send] = at[x.send]
      BY <1>2, <2>1, InAllLists DEF HomeInv
    <2> QED BY <1>3, <2>1, <2>2 DEF At
  <1>5. \A m \in Mounts : m \notin 1 .. mount => In(shown[m]) = {}
    BY <1>2, PageNumbers, InAllLists DEF HomeInv, At
  <1>6. ASSUME NEW m \in Mounts, NEW x \in In(shown'[m]) PROVE At(m, x)'
    <2>1. CASE x \in In(shown[m])
      BY <1>4, <1>5, <2>1
    <2>2. CASE m = mount + 1 /\ m = mount' /\ route'[m] \in Chats /\ x \in In(cache[route'[m]])
      <3>1. chat[x.send] = route'[m] \/ Hasty(x.send)
        BY <2>2 DEF HomeInv
      <3>2. x.send \in Sent
        BY <1>2, <2>2, InAllLists
      <3>3. chat'[x.send] = route'[m] \/ Hasty(x.send)'
        BY <1>3, <2>2, <3>1, <3>2
      <3> QED BY <2>2, <3>3, ShellAssumption DEF At
    <2>3. CASE load[m] = "answered" /\ x \in In(fetched[m])
      <3>1. chat[x.send] = route[m] /\ x.send \in Sent
        BY <1>2, <2>3, InAllLists DEF HomeInv
      <3>2. route[m] # Null /\ m \in 1 .. mount
        BY <2>3 DEF ShellInv, PagesInv, TypeOK, Mounts
      <3>3. route'[m] = route[m] /\ chat'[x.send] = chat[x.send]
        BY <3>1, <3>2 DEF Grows
      <3> QED BY <3>1, <3>2, <3>3 DEF At
    <2>4. CASE x.send \in Sends /\ m \in 1 .. mount /\ at'[x.send] = m
      <3>1. pc'[x.send] # "new"
        BY <2>4 DEF ShellInv, SendsInv
      <3>2. route'[m] # Null => chat'[x.send] = route'[m]
        BY <2>4, <3>1 DEF ShellInv, SendsInv
      <3> QED BY <2>4, <3>2 DEF At
    <2> QED BY <2>1, <2>2, <2>3, <2>4 DEF Changes, ShownFrom
  <1>7. ASSUME NEW m \in Mounts, NEW x \in In(fetched'[m]) 
        PROVE  x.stored /\ chat'[x.send] = route'[m]
    <2>1. CASE fetched'[m] = fetched[m]
      <3>1. x.stored /\ chat[x.send] = route[m] /\ x.send \in Sent /\ x.send \in posted
        BY <1>2, <2>1, InAllLists DEF HomeInv, ListsInv, Held
      <3>2. chat[x.send] # Null /\ m \in 1 .. mount
        BY <3>1, SentHaveChats, PageNumbers
      <3> QED BY <3>1, <3>2 DEF Grows
    <2>2. CASE m \in 1 .. mount /\ route[m] \in Chats /\ fetched'[m] = rows[route[m]]
      BY <2>2, SentHaveChats DEF Grows
    <2>3. CASE fetched'[m] = <<>>
      BY <2>3, InEmpty
    <2> QED BY <2>1, <2>2, <2>3 DEF Changes, FetchedFrom
  <1>8. ASSUME NEW c \in Chats, NEW x \in In(cache'[c]) PROVE chat'[x.send] = c \/ Hasty(x.send)'
    <2>1. CASE x \in In(cache[c])
      <3>1. x.send \in Sent /\ (chat[x.send] = c \/ Hasty(x.send))
        BY <1>2, <2>1, InAllLists DEF HomeInv
      <3> QED BY <1>3, <3>1
    <2>2. ASSUME NEW m \in 1 .. mount, route[m] = c, x \in In(fetched[m])
          PROVE  chat'[x.send] = c
      <3>1. m \in Mounts
        BY PageNumbers
      <3>2. x.send \in Sent /\ chat[x.send] = c
        BY <1>2, <2>2, <3>1, InAllLists DEF HomeInv
      <3> QED BY <3>2, ShellAssumption DEF Grows
    <2>3. ASSUME NEW s \in Sent, chat'[s] = c, x.send # s, x \in In(shown[at[s]])
          PROVE  chat'[x.send] = c \/ Hasty(x.send)'
      <3>1. at[s] \in 1 .. mount /\ at[s] \in Mounts /\ at'[s] = at[s] /\ s \in Sends
        BY SentHaveChats DEF Grows
      <3>2. PICK m \in 1 .. mount : m = at[s]
        BY <3>1
      <3>3. At(m, x)'
        BY <1>4, <2>3, <3>2
      <3>4. CASE route'[m] = Null
        BY <2>3, <3>1, <3>2, <3>3, <3>4 DEF At, Hasty
      <3>5. CASE route'[m] # Null
        <4>1. pc'[s] # "new"
          BY DEF Grows, Sent
        <4>2. chat'[s] = route'[m]
          BY <3>1, <3>2, <3>5, <4>1 DEF ShellInv, SendsInv
        <4> QED BY <2>3, <3>3, <3>5, <4>2 DEF At
      <3> QED BY <3>4, <3>5
    <2> QED BY <2>1, <2>2, <2>3 DEF Changes, CacheFrom
  <1> QED BY <1>6, <1>7, <1>8 DEF HomeInv

LEMMA SendingKeeps ==
  ASSUME ShellInv, ShellInv', Grows, Changes, ListsInv, SendingInv
  PROVE  SendingInv'
  <1> SUFFICES ASSUME NEW s \in Sends, Sending(s)', s \notin early',
                      NEW x \in In(shown'[at'[s]]), x.stored
               PROVE  /\ x.send # s
                      /\ \A role \in {"user", "assistant"} :
                           chat'[x.send] = chat'[s] /\ Stored(s, role) \in In(rows'[chat'[s]])
                           => Follows(rows'[chat'[s]], x, Stored(s, role))
    BY DEF SendingInv
  <1>1. PICK m \in Mounts : m = at'[s] /\ m \in 1 .. mount'
    <2>1. pc'[s] # "new"
      BY DEF Sending
    <2>2. at'[s] \in 1 .. mount'
      BY <2>1 DEF ShellInv, SendsInv
    <2>3. mount' \in Mounts
      BY DEF ShellInv, TypeOK
    <2>4. at'[s] \in Mounts
      BY <2>2, <2>3, ShellAssumption DEF Mounts
    <2> QED BY <2>2, <2>4
  <1>2. \/ Sending(s)
        \/ s \notin Sent /\ s \notin posted /\ \A q \in Sends \ {s} : pc'[q] = pc[q]
    BY SentHaveChats DEF Changes, SendsFrom, Sent
  <1>3. Sending(s) => s \in Sent /\ at[s] = m /\ s \notin early /\ m \in 1 .. mount
    BY <1>1, SentHaveChats DEF Grows, Sending, Sent
  <1>4. x.send \in Sent /\ x.send \in posted /\ x \in In(rows[chat[x.send]]) /\ x.send # s
        /\ (Sending(s) => x \in In(shown[m]))
    <2>1. CASE x \in In(shown[m])
      <3>1. x.send \in Sent /\ x.send \in posted /\ x \in In(rows[chat[x.send]])
        BY <2>1, InAllLists DEF ListsInv, Held
      <3>2. Sending(s) => x.send # s
        BY <1>3, <2>1 DEF SendingInv
      <3> QED BY <1>2, <2>1, <3>1, <3>2
    <2>2. CASE m = mount + 1 /\ route'[m] \in Chats /\ x \in In(cache[route'[m]])
      <3>1. x.send \in Sent /\ x.send \in posted /\ x \in In(rows[chat[x.send]])
        BY <2>2, InAllLists DEF ListsInv, Held
      <3>2. ~Sending(s)
        BY <1>3, <2>2, PageNumbers
      <3> QED BY <1>2, <3>1, <3>2
    <2>3. CASE load[m] = "answered" /\ x \in In(fetched[m])
      <3>1. x.send \in Sent /\ x.send \in posted /\ x \in In(rows[chat[x.send]])
        BY <2>3, InAllLists DEF ListsInv, Held
      <3>2. ~Sending(s)
        BY <1>3, <2>3 DEF ShellInv, SendsInv, Sent
      <3> QED BY <1>2, <3>1, <3>2
    <2>4. CASE /\ x.send \in Sends /\ m \in 1 .. mount /\ at'[x.send] = m
               /\ Sending(x.send) /\ ~Sending(x.send)'
      <3>1. x.send \in Sent /\ at[x.send] = m /\ x.send # s
        BY <1>1, <2>4 DEF Sent, Sending, Grows
      <3>2. ~Sending(s)
        BY <1>3, <2>4, <3>1 DEF ShellInv, SendsInv
      <3> QED BY <1>2, <2>4, <3>1, <3>2 DEF Sending
    <2> QED BY <1>1, <2>1, <2>2, <2>3, <2>4 DEF Changes, ShownFrom
  <1>5. ASSUME NEW role \in {"user", "assistant"}, chat'[x.send] = chat'[s],
               Stored(s, role) \in In(rows'[chat'[s]])
        PROVE  Follows(rows'[chat'[s]], x, Stored(s, role))
    <2> DEFINE c == chat'[s]
               y == Stored(s, role)
    <2>1. chat[x.send] = c /\ c \in Chats /\ x \in In(rows[c])
      BY <1>4, <1>5, SentHaveChats DEF Grows
    <2>2. CASE y \in In(rows[c])
      <3>1. s \in posted /\ chat[s] = c
        BY <2>1, <2>2, SentHaveChats, Items
      <3>2. Follows(rows[c], x, y)
        BY <1>2, <1>3, <1>4, <1>5, <2>1, <2>2, <3>1 DEF SendingInv
      <3> QED BY <2>1, <3>2 DEF Grows
    <2>3. CASE y \notin In(rows[c])
      BY <1>5, <2>1, <2>3 DEF Changes, RowsFrom
    <2> QED BY <2>2, <2>3
  <1> QED BY <1>4, <1>5

LEMMA FetchKeeps ==
  ASSUME ShellInv, ShellInv', Grows, Changes, ListsInv, ListsInv', FetchInv
  PROVE  FetchInv'
  <1> SUFFICES ASSUME NEW m \in Mounts, load'[m] = "answered", NEW x \in In(shown'[m]),
                      x.stored, chat'[x.send] = route'[m], x.send \notin early'
               PROVE  x \in In(fetched'[m])
    BY DEF FetchInv
  <1>2. x \in In(shown[m])
    <2>1. ASSUME x.send \in Sends, m \in 1 .. mount, at'[x.send] = m PROVE FALSE
      <3>1. pc'[x.send] # "new"
        BY <2>1 DEF ShellInv, SendsInv
      <3> QED BY <2>1, <3>1 DEF ShellInv, SendsInv
    <2> QED BY <2>1 DEF Changes, ShownFrom
  <1>3. x.send \in posted /\ x \in In(rows[chat[x.send]]) /\ x.send \in Sent
    BY <1>2, InAllLists DEF ListsInv, Held
  <1>4. m \in 1 .. mount /\ route'[m] = route[m] /\ chat'[x.send] = chat[x.send]
        /\ x.send \notin early
    <2>1. chat'[x.send] = chat[x.send] /\ x.send \notin early
      BY <1>3, SentHaveChats DEF Grows
    <2>2. m \in 1 .. mount
      BY PageNumbers DEF Changes, FetchedFrom, ShellInv, PagesInv
    <2> QED BY <2>1, <2>2 DEF Grows
  <1>5. CASE fetched'[m] = fetched[m] /\ load[m] = "answered"
    BY <1>2, <1>4, <1>5 DEF FetchInv
  <1>6. CASE fetched'[m] = rows[route[m]]
    BY <1>3, <1>4, <1>6
  <1> QED BY <1>5, <1>6 DEF Changes, FetchedFrom

LEMMA ContainsIs == \A list, x : Contains(list, x) <=> x \in In(list)
  BY DEF Contains, In

LEMMA AnswersKeep ==
  ASSUME ShellInv, ShellInv', Grows, Changes, AnswerIsShown
  PROVE  AnswerIsShown'
  <1> SUFFICES ASSUME NEW s \in Sends, pc'[s] = "answered", at'[s] = mount', s \notin early',
                      NEW role \in {"user", "assistant"}
               PROVE  Stored(s, role) \in In(shown'[mount'])
    BY ContainsIs DEF AnswerIsShown
  <1>1. CASE pc[s] = "answered"
    <2>1. s \in Sent /\ at[s] = mount' /\ s \notin early
      BY <1>1 DEF Sent, Grows
    <2>2. mount' = mount /\ mount \in Mounts
      BY <2>1, SentHaveChats, PageNumbers DEF Grows
    <2>3. Stored(s, role) \in In(shown[mount])
      BY <1>1, <2>1, <2>2, ContainsIs DEF AnswerIsShown
    <2>4. load[mount] # "answered"
      BY <1>1, <2>1, <2>2 DEF ShellInv, SendsInv
    <2> QED BY <2>2, <2>3, <2>4, Items DEF Changes, Kept
  <1>2. CASE pc[s] # "answered"
    <2>1. Sending(s) /\ mount' = mount /\ (at[s] = mount => shown'[mount] = Finalized(mount, s))
      BY <1>2 DEF Changes, SendsFrom
    <2>2. at[s] = mount /\ mount \in Mounts
      BY <2>1, PageNumbers DEF Grows, Sent, Sending
    <2>3. Stored(s, role) \in In(Finalized(mount, s))
      BY <2>2, FinalizedIs DEF ShellInv
    <2> QED BY <2>1, <2>2, <2>3
  <1> QED BY <1>1, <1>2

LEMMA PageInvNext ==
  ASSUME ShellInv, ShellInv', PageInv, [Next]_vars
  PROVE  PageInv'
  <1>1. Grows /\ Changes
    BY StepGrows, StepChanges
  <1>2. ListsInv'
    BY <1>1, ListsKeep DEF PageInv
  <1>3. HomeInv'
    BY <1>1, HomeKeeps DEF PageInv
  <1>4. SendingInv'
    BY <1>1, SendingKeeps DEF PageInv
  <1>5. FetchInv'
    BY <1>1, <1>2, FetchKeeps DEF PageInv
  <1>6. AnswerIsShown'
    BY <1>1, AnswersKeep DEF PageInv
  <1> QED BY <1>2, <1>3, <1>4, <1>5, <1>6 DEF PageInv

LEMMA PageInvAlways == Spec => [](ShellInv /\ PageInv)
  <1>1. Init => ShellInv /\ PageInv
    BY ShellInvInit, PageInvInit
  <1>2. ShellInv /\ PageInv /\ [Next]_vars => (ShellInv /\ PageInv)'
    BY ShellInvNext, PageInvNext
  <1> QED BY <1>1, <1>2, PTL DEF Spec
-----------------------------------------------------------------------------
(* OnlyThisChat: the state messages of a page has nothing of another chat, *)
(* however late the answers to earlier pages come, except for messages     *)
(* sent on one page /chat for another chat (Hasty).                        *)
THEOREM NothingOfOtherChats == Spec => []OnlyThisChat
  <1>1. ASSUME ShellInv, PageInv PROVE OnlyThisChat
    <2> SUFFICES ASSUME route[mount] # Null, NEW i \in 1 .. Len(shown[mount])
                 PROVE  LET s == shown[mount][i].send IN chat[s] = route[mount] \/ Hasty(s)
      BY DEF OnlyThisChat
    <2>1. shown[mount][i] \in In(shown[mount])
      BY DEF In
    <2>2. At(mount, shown[mount][i])
      BY <1>1, <2>1, PageNumbers DEF PageInv, HomeInv
    <2> QED BY <2>2 DEF At
  <1> QED BY <1>1, PageInvAlways, PTL

(* AnswerIsShown: what handleSendMessage has put in place of the drafts    *)
(* stays on the page as long as the page is open.                          *)
THEOREM AnswersStay == Spec => []AnswerIsShown
  <1>1. PageInv => AnswerIsShown
    BY DEF PageInv
  <1> QED BY <1>1, PageInvAlways, PTL

(* InServersOrder: cached, loaded and streamed messages are put together   *)
(* on a page in the order in which the server stored them.                 *)
THEOREM ShownInServersOrder == Spec => []InServersOrder
  <1>1. ASSUME ShellInv, PageInv PROVE InServersOrder
    <2> DEFINE list == rows[route[mount]]
               here == shown[mount]
    <2> SUFFICES ASSUME route[mount] # Null, NEW i \in 1 .. Len(here), NEW j \in 1 .. Len(here),
                        i < j, Contains(list, here[i]), Contains(list, here[j]),
                        {here[i].send, here[j].send} \cap early = {}
                 PROVE  /\ here[i] # here[j]
                        /\ \E k, l \in 1 .. Len(list) :
                             k < l /\ list[k] = here[i] /\ list[l] = here[j]
      BY DEF InServersOrder
    <2>1. PICK a, b : a = here[i] /\ b = here[j]
      OBVIOUS
    <2>2. Follows(here, a, b)
      BY <2>1 DEF Follows
    <2>3. mount \in Mounts /\ route[mount] \in Chats
      BY <1>1, PageNumbers DEF ShellInv, TypeOK, Routes
    <2>4. a \in In(list) /\ b \in In(list)
      BY <2>1, ContainsIs
    <2>5. a.stored /\ b.stored /\ chat[a.send] = route[mount] /\ chat[b.send] = route[mount]
      BY <1>1, <2>3, <2>4, SentHaveChats
    <2>6. Ordered(here)
      BY <1>1, <2>3, InAllLists DEF PageInv, ListsInv
    <2>7. Follows(list, a, b)
      BY <2>1, <2>2, <2>5, <2>6, FollowsIn DEF Ordered
    <2>8. a # b
      BY <1>1, <2>3, <2>4, <2>7 DEF ShellInv, RowsInv
    <2> QED BY <2>1, <2>7, <2>8 DEF Follows
  <1> QED BY <1>1, PageInvAlways, PTL

(* NothingVanishes: neither loadMessages nor the end of a stream takes a   *)
(* stored message of its chat from the page.                               *)
THEOREM NothingIsLost == Spec => NothingVanishes
  <1>1. ASSUME ShellInv, PageInv, [Next]_vars
        PROVE  mount' = mount =>
                 \A i \in 1 .. Len(shown[mount]) :
                   LET item == shown[mount][i] IN
                   (item.stored /\ chat[item.send] = route[mount] /\ item.send \notin early)
                   => Contains(shown'[mount], item)
    <2> SUFFICES ASSUME mount' = mount, NEW x \in In(shown[mount]), x.stored,
                        chat[x.send] = route[mount], x.send \notin early
                 PROVE  x \in In(shown'[mount])
      BY ContainsIs DEF In
    <2>1. Changes /\ mount \in Mounts
      BY <1>1, StepChanges, PageNumbers
    <2>2. CASE load[mount] = "answered" /\ shown'[mount] = fetched[mount]
      BY <1>1, <2>1, <2>2 DEF PageInv, FetchInv
    <2> QED BY <2>1, <2>2 DEF Changes, Kept
  <1> QED BY <1>1, PageInvAlways, PTL DEF NothingVanishes, Spec
-----------------------------------------------------------------------------
Busy(l) == step[l] # "free"

(* What the two invariants are about changes in three ways: a call begins, *)
(* a call that is running goes on, or a call ends.                         *)
LEMMA LoadBegins ==
  ASSUME DashboardTypeOK, NEW p \in Nat \ {0}, NEW f \in ActiveFilters, NEW showLoader \in BOOLEAN,
         Load(p, f, showLoader)
  PROVE  /\ step' \in [Loads -> {"free", "asked", "answered", "failed"}]
         /\ answer' \in [Loads -> Answer]
         /\ loading' \in BOOLEAN /\ error' = FALSE
         /\ loading' => loading \/ showLoader
         /\ \A l \in Loads : Busy(l) => Busy(l)' /\ answer'[l] = answer[l]
         /\ \E l \in Loads : /\ Busy(l)'
                             /\ answer'[l].page = p /\ answer'[l].filter = f
<1>1. PICK l \in Loads :
        /\ step[l] = "free"
        /\ step' = [step EXCEPT ![l] = "asked"]
        /\ answer' = [answer EXCEPT ![l] = [page |-> p, filter |-> f, total |-> 0]]
        /\ loading' = (loading \/ showLoader) /\ error' = FALSE
  BY DEF Load
<1>2. [page |-> p, filter |-> f, total |-> 0] \in Answer
  BY DEF Answer
<1>3. /\ step' \in [Loads -> {"free", "asked", "answered", "failed"}]
      /\ answer' \in [Loads -> Answer]
  BY <1>1, <1>2 DEF DashboardTypeOK
<1>4. \A k \in Loads : Busy(k) => Busy(k)' /\ answer'[k] = answer[k]
  BY <1>1 DEF DashboardTypeOK, Busy
<1>5. Busy(l)' /\ answer'[l].page = p /\ answer'[l].filter = f
  BY <1>1 DEF DashboardTypeOK, Busy
<1>6. loading' \in BOOLEAN /\ error' = FALSE /\ (loading' => loading \/ showLoader)
  BY <1>1 DEF DashboardTypeOK
<1> QED
  BY <1>3, <1>4, <1>5, <1>6

(* A call that is answered goes on asking for the same.                    *)
LEMMA RespondKeeps ==
  ASSUME DashboardTypeOK, NEW l \in Loads, Respond(l)
  PROVE  /\ step' \in [Loads -> {"free", "asked", "answered", "failed"}]
         /\ answer' \in [Loads -> Answer] /\ fails' \in 0 .. MaxFail
         /\ \A k \in Loads :
              Busy(k) => /\ Busy(k)'
                         /\ answer'[k].page = answer[k].page
                         /\ answer'[k].filter = answer[k].filter
<1> DEFINE total == TotalFor(answer[l].filter)
<1>1. total \in Nat
  BY DashboardAssumption DEF DashboardTypeOK, TotalFor
<1>2. CASE /\ step' = [step EXCEPT ![l] = "answered"]
           /\ answer' = [answer EXCEPT ![l].total = total]
           /\ UNCHANGED fails
  <2>1. answer[l] \in Answer
    BY DEF DashboardTypeOK
  <2>2. [answer[l] EXCEPT !.total = total] \in Answer
    BY <1>1, <2>1 DEF Answer
  <2>3. answer' = [answer EXCEPT ![l] = [answer[l] EXCEPT !.total = total]]
    BY <1>2
  <2>4. /\ [answer[l] EXCEPT !.total = total].page = answer[l].page
        /\ [answer[l] EXCEPT !.total = total].filter = answer[l].filter
    BY <2>1 DEF Answer
  <2> HIDE DEF total
  <2>5. answer' \in [Loads -> Answer]
    BY <2>2, <2>3 DEF DashboardTypeOK
  <2>6. \A k \in Loads : /\ answer'[k].page = answer[k].page
                         /\ answer'[k].filter = answer[k].filter
    BY <2>3, <2>4 DEF DashboardTypeOK
  <2>7. /\ step' \in [Loads -> {"free", "asked", "answered", "failed"}]
        /\ \A k \in Loads : Busy(k) => Busy(k)'
    BY <1>2 DEF DashboardTypeOK, Busy
  <2> QED
    BY <1>2, <2>5, <2>6, <2>7 DEF DashboardTypeOK
<1>3. CASE /\ fails < MaxFail /\ fails' = fails + 1
           /\ step' = [step EXCEPT ![l] = "failed"] /\ UNCHANGED answer
  BY <1>3, DashboardAssumption DEF DashboardTypeOK, Busy
<1> QED
  BY <1>2, <1>3 DEF Respond
-----------------------------------------------------------------------------
LEMMA DashboardTypeInit == DashboardInit => DashboardTypeOK
<1> SUFFICES ASSUME DashboardInit PROVE DashboardTypeOK
  OBVIOUS
<1>1. NoAnswer \in Answer
  BY DEF NoAnswer, Answer, ActiveFilters
<1>2. step \in [Loads -> {"free", "asked", "answered", "failed"}]
  BY DEF DashboardInit
<1>3. count \in [Known \cup {None} -> 0 .. MaxRows]
  BY DEF DashboardInit, Counts
<1>4. answer \in [Loads -> Answer]
  BY <1>1 DEF DashboardInit
<1>5. page \in Nat \ {0} /\ filter \in ActiveFilters
  BY DEF DashboardInit, ActiveFilters
<1>6. fails \in 0 .. MaxFail
  BY DashboardAssumption DEF DashboardInit
<1>7. alertsPage = None /\ loading = TRUE /\ error = FALSE
  BY DEF DashboardInit
<1> QED
  BY <1>2, <1>3, <1>4, <1>5, <1>6, <1>7 DEF DashboardTypeOK

LEMMA DashboardTypeStep ==
  DashboardTypeOK /\ [DashboardNext]_dashboardVars => DashboardTypeOK'
<1> SUFFICES ASSUME DashboardTypeOK, [DashboardNext]_dashboardVars PROVE DashboardTypeOK'
  OBVIOUS
<1>1. CASE Refresh
  <2>1. Load(page, filter, FALSE) /\ UNCHANGED <<count, page, filter, alertsPage, fails>>
    BY <1>1 DEF Refresh
  <2> QED
    BY <2>1, LoadBegins DEF DashboardTypeOK
<1>2. ASSUME NEW p \in Nat \ {0}, NEW f \in ActiveFilters, Select(p, f)
      PROVE  DashboardTypeOK'
  <2>1. Load(p, f, TRUE) /\ page' = p /\ filter' = f /\ UNCHANGED <<count, alertsPage, fails>>
    BY <1>2 DEF Select
  <2> QED
    BY <2>1, <1>2, LoadBegins DEF DashboardTypeOK
<1>3. CASE SelectFilter
  <2>1. PICK f \in ActiveFilters : Select(1, f)
    BY <1>3 DEF SelectFilter, ActiveFilters
  <2> QED
    BY <2>1, <1>2
<1>4. CASE SelectPage
  <2>1. PICK p \in Nat \ {0} : Select(p, filter)
    BY <1>4 DEF SelectPage, DashboardTypeOK
  <2> QED
    BY <2>1, <1>2 DEF DashboardTypeOK
<1>5. CASE Change
  BY <1>5 DEF Change, Counts, DashboardTypeOK
<1>6. ASSUME NEW l \in Loads, Respond(l)
      PROVE  DashboardTypeOK'
  <2>1. UNCHANGED <<count, page, filter, alertsPage, loading, error>>
    BY <1>6 DEF Respond
  <2> QED
    BY <1>6, <2>1, RespondKeeps DEF DashboardTypeOK
<1>7. ASSUME NEW l \in Loads, Receive(l)
      PROVE  DashboardTypeOK'
  <2>1. NoAnswer \in Answer
    BY DEF NoAnswer, Answer, ActiveFilters
  <2>2. /\ step' \in [Loads -> {"free", "asked", "answered", "failed"}]
        /\ answer' \in [Loads -> Answer]
    BY <1>7, <2>1 DEF Receive, Forget, DashboardTypeOK
  <2>3. (alertsPage' = None \/ alertsPage' \in Answer) /\ loading' \in BOOLEAN /\ error' \in BOOLEAN
    BY <1>7 DEF Receive, DashboardTypeOK
  <2> QED
    BY <1>7, <2>2, <2>3 DEF Receive, DashboardTypeOK
<1>8. CASE UNCHANGED dashboardVars
  BY <1>8 DEF dashboardVars, DashboardTypeOK
<1> QED
  BY <1>1, <1>3, <1>4, <1>5, <1>6, <1>7, <1>8 DEF DashboardNext

(* Page numbers stay positive whatever totals the buttons go by,           *)
(* and every state keeps its type.                                         *)
THEOREM DashboardTypeCorrect == DashboardSpec => []DashboardTypeOK
  BY DashboardTypeInit, DashboardTypeStep, PTL DEF DashboardSpec
-----------------------------------------------------------------------------
(* A call asks for what it is called with.                                 *)
LEMMA LoadAsks ==
  ASSUME DashboardTypeOK, NEW p \in Nat \ {0}, NEW f \in ActiveFilters, NEW showLoader \in BOOLEAN,
         Load(p, f, showLoader), page' = p, filter' = f
  PROVE  Asking'
<1>1. PICK l \in Loads :
        /\ step' = [step EXCEPT ![l] = "asked"]
        /\ answer' = [answer EXCEPT ![l] = [page |-> p, filter |-> f, total |-> 0]]
  BY DEF Load
<1>2. step'[l] # "free" /\ answer'[l].page = p /\ answer'[l].filter = f
  BY <1>1 DEF DashboardTypeOK
<1> QED
  BY <1>2 DEF Asking

LEMMA AskingStep ==
  DashboardTypeOK /\ LoadingIsAsking /\ [DashboardNext]_dashboardVars => LoadingIsAsking'
<1> SUFFICES ASSUME DashboardTypeOK, LoadingIsAsking, [DashboardNext]_dashboardVars, loading'
             PROVE  Asking'
  BY DEF LoadingIsAsking
<1>1. CASE Refresh
  <2>1. Load(page, filter, FALSE) /\ page' = page /\ filter' = filter
    BY <1>1 DEF Refresh
  <2> QED
    BY <2>1, LoadAsks DEF DashboardTypeOK
<1>2. ASSUME NEW p \in Nat \ {0}, NEW f \in ActiveFilters, Select(p, f)
      PROVE  Asking'
  <2>1. Load(p, f, TRUE) /\ page' = p /\ filter' = f
    BY <1>2 DEF Select
  <2> QED
    BY <2>1, LoadAsks
<1>3. CASE SelectFilter
  <2>1. PICK f \in ActiveFilters : Select(1, f)
    BY <1>3 DEF SelectFilter, ActiveFilters
  <2> QED
    BY <2>1, <1>2
<1>4. CASE SelectPage
  <2>1. PICK p \in Nat \ {0} : Select(p, filter)
    BY <1>4 DEF SelectPage, DashboardTypeOK
  <2> QED
    BY <2>1, <1>2 DEF DashboardTypeOK
<1>5. CASE Change
  BY <1>5 DEF Change, LoadingIsAsking, Asking
<1>6. ASSUME NEW l \in Loads, Respond(l)
      PROVE  Asking'
  <2>1. UNCHANGED <<page, filter, loading>>
    BY <1>6 DEF Respond
  <2>2. PICK k \in Loads : Busy(k) /\ answer[k].page = page /\ answer[k].filter = filter
    BY <2>1 DEF LoadingIsAsking, Asking, Busy
  <2> QED
    BY <1>6, <2>1, <2>2, RespondKeeps DEF Asking, Busy
<1>7. ASSUME NEW l \in Loads, Receive(l)
      PROVE  Asking'
  BY <1>7 DEF Receive
<1>8. CASE UNCHANGED dashboardVars
  BY <1>8 DEF dashboardVars, LoadingIsAsking, Asking
<1> QED
  BY <1>1, <1>3, <1>4, <1>5, <1>6, <1>7, <1>8 DEF DashboardNext

LEMMA AskingInit == DashboardInit => LoadingIsAsking
  BY DEF DashboardInit, LoadingIsAsking, Asking, NoAnswer

(* While the dashboard says that it is loading, what is selected           *)
(* now is being asked for (load).                                          *)
THEOREM LoaderTellsTheTruth == DashboardSpec => []LoadingIsAsking
  BY DashboardTypeCorrect, AskingInit, AskingStep, PTL DEF DashboardSpec
-----------------------------------------------------------------------------
LEMMA EmptyStep ==
  DashboardTypeOK /\ EmptyIsExplained /\ [DashboardNext]_dashboardVars => EmptyIsExplained'
<1> SUFFICES ASSUME DashboardTypeOK, EmptyIsExplained, [DashboardNext]_dashboardVars, alertsPage' = None
             PROVE  error' \/ \E l \in Loads : Busy(l)'
  BY DEF EmptyIsExplained, Busy
<1>1. CASE Refresh
  <2>1. Load(page, filter, FALSE)
    BY <1>1 DEF Refresh
  <2>2. page \in Nat \ {0} /\ filter \in ActiveFilters
    BY DEF DashboardTypeOK
  <2> QED
    BY <2>1, <2>2, LoadBegins
<1>2. ASSUME NEW p \in Nat \ {0}, NEW f \in ActiveFilters, Select(p, f)
      PROVE  \E l \in Loads : Busy(l)'
  <2>1. Load(p, f, TRUE)
    BY <1>2 DEF Select
  <2> QED
    BY <2>1, LoadBegins
<1>3. CASE SelectFilter
  <2>1. PICK f \in ActiveFilters : Select(1, f)
    BY <1>3 DEF SelectFilter, ActiveFilters
  <2> QED
    BY <2>1, <1>2
<1>4. CASE SelectPage
  <2>1. PICK p \in Nat \ {0} : Select(p, filter)
    BY <1>4 DEF SelectPage, DashboardTypeOK
  <2> QED
    BY <2>1, <1>2 DEF DashboardTypeOK
<1>5. CASE Change
  BY <1>5 DEF Change, EmptyIsExplained, Busy
<1>6. ASSUME NEW l \in Loads, Respond(l)
      PROVE  error' \/ \E k \in Loads : Busy(k)'
  <2>1. UNCHANGED <<alertsPage, error>>
    BY <1>6 DEF Respond
  <2>2. error \/ \E k \in Loads : Busy(k)
    BY <2>1 DEF EmptyIsExplained, Busy
  <2>3. \A k \in Loads : Busy(k) => Busy(k)'
    BY <1>6, RespondKeeps
  <2> QED
    BY <2>1, <2>2, <2>3
<1>7. ASSUME NEW l \in Loads, Receive(l)
      PROVE  error'
  <2>1. CASE step[l] = "answered"
    <3>1. alertsPage' \in Answer
      BY <1>7, <2>1 DEF Receive, DashboardTypeOK
    <3> QED
      BY <3>1, DashboardAssumption
  <2>2. CASE step[l] # "answered"
    BY <1>7, <2>2 DEF Receive
  <2> QED
    BY <2>1, <2>2
<1>8. CASE UNCHANGED dashboardVars
  BY <1>8 DEF dashboardVars, EmptyIsExplained, Busy
<1> QED
  BY <1>1, <1>3, <1>4, <1>5, <1>6, <1>7, <1>8 DEF DashboardNext

LEMMA EmptyInit == DashboardInit => EmptyIsExplained
<1> SUFFICES ASSUME DashboardInit PROVE \E l \in Loads : step[l] # "free"
  BY DEF EmptyIsExplained
<1>1. PICK l \in Loads : step = [k \in Loads |-> IF k = l THEN "asked" ELSE "free"]
  BY DEF DashboardInit
<1> QED
  BY <1>1

(* An empty dashboard has an error to show, or a call is running:          *)
(* the call that clears the error of another is running itself (load).     *)
THEOREM EmptinessIsExplained == DashboardSpec => []EmptyIsExplained
  BY DashboardTypeCorrect, EmptyInit, EmptyStep, PTL DEF DashboardSpec
=============================================================================
