------------------------------ MODULE ChatShell ------------------------------
(***************************************************************************)
(* The chat page of the browser (frontend/components/chat-shell.tsx): it   *)
(* loads the messages of the chat that is open, and sends new ones, which  *)
(* it shows as drafts until the server has answered.  Requests of pages    *)
(* that have been left go on, and answers come back in any order.  The     *)
(* server is the one of Exchange, which the backend implements.  Texts are *)
(* left out, and with them the tokens that lengthen a draft.               *)
(***************************************************************************)
EXTENDS Lists, SequencesExt

CONSTANTS
  Chats,        \* Slugs.
  Existing,     \* The chats that exist at first.
  Sends,        \* The messages there may ever be, numbered as they are sent.
  MaxMount,     \* Bound: how often a page is opened.
  MaxStop,      \* Bound: how often Stop is pressed.
  Null          \* No chat: the page /chat.

ASSUME ShellAssumption ==
  /\ Existing \subseteq Chats /\ Null \notin Chats
  /\ MaxMount \in Nat \ {0} /\ MaxStop \in Nat /\ Sends \subseteq Nat

VARIABLES
  asked, answered, result,  \* What the server has made of the messages.
  posted,       \* The messages whose request has been sent to the server.
  rows,         \* rows[c]: the messages of chat c, in the server's order.
  born,         \* The chats that exist.
  mount,        \* The number of the page that is open; others were before.
  route,        \* route[m]: activeChatSlug of page m.
  target,       \* Where the router is going to, if it is.
  shown,        \* shown[m]: the state messages of page m.
  load,         \* load[m]: how far the GET of page m is.
  fetched,      \* The answer to it that is on its way.
  cache,        \* messagesCache; what it has nothing of is shown as empty.
  pc,           \* pc[s]: how far handleSendMessage is with message s.
  at,           \* at[s]: the page s was sent on.
  chat,         \* chat[s]: chatSlug.
  stopped,      \* The messages for which Stop was pressed.
  early         \* History: those sent while their page was loading.

serverVars == <<asked, answered, result, posted, rows>>
pageVars == <<mount, route, target>>
loadVars == <<load, fetched>>
sendVars == <<pc, at, chat, stopped, early>>
vars == <<serverVars, born, pageVars, shown, cache, loadVars, sendVars>>

Mounts == 1 .. MaxMount
Nowhere == <<"nowhere">>
Routes == Chats \cup {Null}

Item == [send : Sends, role : {"user", "assistant"}, stored : BOOLEAN]
Stored(s, role) == [send |-> s, role |-> role, stored |-> TRUE]
Draft(s, role) == [send |-> s, role |-> role, stored |-> FALSE]

TypeOK ==
  /\ asked \subseteq Sends /\ answered \subseteq Sends
  /\ result \in [Sends -> {"open", "succeeded", "failed"}]
  /\ posted \subseteq {s \in Sends : chat[s] \in born}
  /\ rows \in [Chats -> Seq(Item)] /\ born \subseteq Chats
  /\ mount \in Mounts /\ route \in [Mounts -> Routes]
  /\ target \in Routes \cup {Nowhere}
  /\ shown \in [Mounts -> Seq(Item)]
  /\ load \in [Mounts -> {"none", "asked", "answered", "done"}]
  /\ fetched \in [Mounts -> Seq(Item)]
  /\ cache \in [Chats -> Seq(Item)]
  /\ pc \in [Sends -> {"new", "create", "open", "answered", "stopped", "failed"}]
  /\ at \in [Sends -> 0 .. MaxMount] /\ chat \in [Sends -> Routes]
  /\ stopped \subseteq Sends /\ early \subseteq Sends

Server == INSTANCE Exchange WITH Reqs <- Sends

Init ==
  /\ Server!Init /\ posted = {} /\ rows = [c \in Chats |-> <<>>]
  /\ born = Existing
  /\ mount = 1 /\ target = Nowhere
  /\ \E c \in Existing \cup {Null} :
       /\ route = [m \in Mounts |-> IF m = 1 THEN c ELSE Null]
       /\ load = [m \in Mounts |-> IF m = 1 /\ c # Null THEN "asked" ELSE "none"]
  /\ shown = [m \in Mounts |-> <<>>] /\ fetched = [m \in Mounts |-> <<>>]
  /\ cache = [c \in Chats |-> <<>>]
  /\ pc = [s \in Sends |-> "new"] /\ at = [s \in Sends |-> 0]
  /\ chat = [s \in Sends |-> Null]
  /\ stopped = {} /\ early = {}
-----------------------------------------------------------------------------
(* setMessages: with an updater that gives the list to the cache as well,  *)
(* if there is a chat.  React ignores the list of a page that was left,    *)
(* and may or may not run the updater.                                     *)
Cached(c, list) == IF c = Null THEN cache ELSE [cache EXCEPT ![c] = list]

SetMessages(m, list) == shown' = [shown EXCEPT ![m] = IF m = mount THEN list ELSE <<>>]

SetAndCache(m, c, list) ==
  /\ SetMessages(m, list)
  /\ \/ cache' = Cached(c, list)
     \/ m # mount /\ UNCHANGED cache
-----------------------------------------------------------------------------
Sending(s) == pc[s] \in {"create", "open"}
Idle(m) == \A s \in Sends : Sending(s) => at[s] # m

(* The effect of a new page: it shows the cached list and asks for the     *)
(* current one (loadMessages).  Of the page that was left only the list    *)
(* matters, for the handlers that still run.                               *)
Mount(c) ==
  /\ mount < MaxMount
  /\ mount' = mount + 1 /\ target' = Nowhere
  /\ route' = [route EXCEPT ![mount + 1] = c]
  /\ load' = [load EXCEPT ![mount + 1] = IF c = Null THEN "none" ELSE "asked"]
  /\ shown' = [m \in Mounts |->
                 IF m = mount + 1 /\ c # Null THEN cache[c]
                 ELSE IF m = mount /\ Idle(m) THEN <<>> ELSE shown[m]]
  /\ UNCHANGED <<serverVars, born, cache, fetched, sendVars>>

(* The user follows a link, or comes back from a page like the settings;   *)
(* that cancels where the router was going to, or it gets there.  A page   *)
(* of another path, or a return to the same, is a new instance of the      *)
(* component.                                                              *)
Navigate == \E c \in born \cup {Null} : Mount(c)
Arrive == target # Nowhere /\ Mount(target)

(* The button New Chat, when the chat has been created.                    *)
NewChat(c) ==
  /\ c \notin born
  /\ born' = born \cup {c} /\ target' = c
  /\ UNCHANGED <<serverVars, mount, route, shown, cache, loadVars, sendVars>>

(* The server reads the chat, or the request fails.                        *)
AnswerLoad(m) ==
  /\ load[m] = "asked"
  /\ \/ /\ load' = [load EXCEPT ![m] = "answered"]
        /\ fetched' = [fetched EXCEPT ![m] = rows[route[m]]]
     \/ load' = [load EXCEPT ![m] = "done"] /\ UNCHANGED fetched
  /\ UNCHANGED <<serverVars, born, pageVars, shown, cache, sendVars>>

(* A change could share the list between pages, or pages of one chat, or   *)
(* add what is loaded to what is shown.                                    *)
LoadedInto(list) ==
  /\ shown' = [shown EXCEPT ![mount] = list]
  /\ UNCHANGED <<serverVars, born, pageVars, cache, sendVars>>

ReceiveLoadAnywhere(m) ==
  /\ load[m] = "answered" /\ LoadedInto(fetched[m])
  /\ load' = [load EXCEPT ![m] = "done"] /\ UNCHANGED fetched

ReceiveLoadSameChat(m) ==
  /\ load[m] = "answered"
  /\ LoadedInto(IF route[m] = route[mount] THEN fetched[m] ELSE shown[mount])
  /\ load' = [load EXCEPT ![m] = "done"] /\ UNCHANGED fetched

ReceiveLoadAppends(m) ==
  /\ load[m] = "answered" /\ LoadedInto(shown[mount] \o fetched[m])
  /\ load' = [load EXCEPT ![m] = "done"] /\ UNCHANGED fetched

ReceiveLoad(m) ==
  /\ load[m] = "answered"
  /\ shown' = IF m = mount THEN [shown EXCEPT ![m] = fetched[m]] ELSE shown
  /\ cache' = [cache EXCEPT ![route[m]] = fetched[m]]
  /\ load' = [load EXCEPT ![m] = "done"] /\ fetched' = [fetched EXCEPT ![m] = <<>>]
  /\ UNCHANGED <<serverVars, born, pageVars, sendVars>>
-----------------------------------------------------------------------------
(* handleSendMessage, up to its first await: the drafts are shown; a page  *)
(* without a chat creates one first.                                       *)
Submit(s) ==
  /\ pc[s] = "new" /\ (\A q \in Sends : q < s => pc[q] # "new") /\ Idle(mount)
  /\ shown' = [shown EXCEPT ![mount] = @ \o <<Draft(s, "user"), Draft(s, "assistant")>>]
  /\ at' = [at EXCEPT ![s] = mount] /\ chat' = [chat EXCEPT ![s] = route[mount]]
  /\ early' = IF load[mount] \in {"asked", "answered"} THEN early \cup {s} ELSE early
  /\ IF route[mount] = Null
     THEN pc' = [pc EXCEPT ![s] = "create"] /\ UNCHANGED posted
     ELSE pc' = [pc EXCEPT ![s] = "open"] /\ posted' = posted \cup {s}
  /\ UNCHANGED <<asked, answered, result, rows, born, pageVars, cache, loadVars, stopped>>

(* The button is Stop while the page is sending.  It changes nothing once  *)
(* the stream has ended.                                                   *)
Stop(s) ==
  /\ Sending(s) /\ at[s] = mount /\ s \notin stopped /\ Cardinality(stopped) < MaxStop
  /\ stopped' = stopped \cup {s}
  /\ UNCHANGED <<serverVars, born, pageVars, shown, cache, loadVars,
                 pc, at, chat, early>>

(* The items of page m with this property (filter).                        *)
Those(m, Test(_)) == Only(shown[m], {i \in 1 .. Len(shown[m]) : Test(shown[m][i])})

WithoutDrafts(m, s) ==
  LET Other(item) == item.send # s \/ item.stored IN Those(m, Other)

(* How the handler goes on: with an error (handleSendError), after Stop,   *)
(* which keeps the drafts, or with the server's two messages.  The latter  *)
(* two load the list of chats before they reach the finally.               *)
Fail(s) ==
  /\ pc' = [pc EXCEPT ![s] = "failed"]
  /\ SetMessages(at[s], WithoutDrafts(at[s], s)) /\ UNCHANGED cache

Abort(s, c) ==
  /\ pc' = [pc EXCEPT ![s] = "stopped"]
  /\ SetAndCache(at[s], c, shown[at[s]])

(* A change could keep the draft of the question.                          *)
FinalizedKeepsQuestion(m, s) ==
  LET Other(item) == item # Draft(s, "assistant")
  IN  Append(Those(m, Other), Stored(s, "assistant"))

Finalized(m, s) ==
  WithoutDrafts(m, s) \o <<Stored(s, "user"), Stored(s, "assistant")>>

Finish(s) ==
  /\ pc' = [pc EXCEPT ![s] = "answered"]
  /\ SetAndCache(at[s], chat[s], Finalized(at[s], s))

(* A change could go on although there is no chat.                         *)
CreatedAnyway(s) ==
  /\ pc[s] = "create"
  /\ pc' = [pc EXCEPT ![s] = "open"] /\ posted' = posted \cup {s}
  /\ UNCHANGED <<asked, answered, result, rows, born, pageVars, shown, cache, loadVars,
                 at, chat, stopped, early>>

(* createChat: the page goes to the new chat, wherever the user is by now, *)
(* and the message is sent unless Stop was pressed.  If it fails the chat  *)
(* may be there all the same.                                              *)
Created(s) ==
  /\ pc[s] = "create"
  /\ \/ \E c \in Chats \ born :
          /\ born' = born \cup {c} /\ target' = c
          /\ chat' = [chat EXCEPT ![s] = c]
          /\ IF s \in stopped
             THEN Abort(s, c) /\ UNCHANGED posted
             ELSE /\ pc' = [pc EXCEPT ![s] = "open"] /\ posted' = posted \cup {s}
                  /\ UNCHANGED <<shown, cache>>
     \/ /\ \E more \in SUBSET (Chats \ born) :
             born' = born \cup more /\ \A c, d \in more : c = d
        /\ IF s \in stopped THEN Abort(s, Null) ELSE Fail(s)
        /\ UNCHANGED <<target, chat, posted>>
  /\ UNCHANGED <<asked, answered, result, rows, mount, route, loadVars, at, stopped, early>>

(* A change could forget that an aborted request rejects.                  *)
StreamedUnlessStopped(s) ==
  /\ pc[s] = "open" /\ s \notin stopped
  /\ Fail(s) \/ (result[s] = "succeeded" /\ Finish(s))
  /\ UNCHANGED <<serverVars, born, pageVars, loadVars, at, chat, stopped, early>>

(* streamMessage ends: with the event done, with an error event or a lost  *)
(* connection, or because Stop has aborted it.                             *)
Streamed(s) ==
  /\ pc[s] = "open"
  /\ IF s \in stopped THEN Abort(s, chat[s])
     ELSE Fail(s) \/ (result[s] = "succeeded" /\ Finish(s))
  /\ UNCHANGED <<serverVars, born, pageVars, loadVars, at, chat, stopped, early>>
-----------------------------------------------------------------------------
(* The server, as Exchange has it; a request that fails there goes no      *)
(* further, which needs no step.                                           *)
Insert(s, role) == rows' = [rows EXCEPT ![chat[s]] = Append(@, Stored(s, role))]

Serve(s) ==
  /\ s \in posted
  /\ \/ UNCHANGED result /\ Server!Ask(s) /\ Insert(s, "user")
     \/ UNCHANGED result /\ Server!Answer(s) /\ Insert(s, "assistant")
     \/ Server!Succeed(s) /\ UNCHANGED rows
  /\ UNCHANGED <<posted, born, pageVars, shown, cache, loadVars, sendVars>>

Next ==
  \/ Navigate \/ Arrive \/ \E c \in Chats : NewChat(c)
  \/ \E m \in Mounts : AnswerLoad(m) \/ ReceiveLoad(m)
  \/ \E s \in Sends :
       \/ Submit(s) \/ Stop(s) \/ Created(s) \/ Streamed(s) \/ Serve(s)

(* Every request is answered: the server ends each in 120 s, and a lost    *)
(* connection is an error.  Nothing makes the user or the router move.     *)
Fairness ==
  /\ \A s \in Sends : /\ WF_vars(Created(s)) /\ WF_vars(Streamed(s))
  /\ \A m \in Mounts : WF_vars(AnswerLoad(m)) /\ WF_vars(ReceiveLoad(m))

Spec == Init /\ [][Next]_vars /\ Fairness
-----------------------------------------------------------------------------
(* A page with a chat shows only messages of this chat, however late the   *)
(* answers of other pages come: unless two were sent on one page /chat,    *)
(* the second before the router had left it, for another chat (chatSlug).  *)
Hasty(s) == \E q \in Sends \ {s} : at[q] = at[s] /\ route[at[s]] = Null
OnlyThisChat ==
  route[mount] # Null =>
    \A i \in 1 .. Len(shown[mount]) :
      LET s == shown[mount][i].send IN chat[s] = route[mount] \/ Hasty(s)

(* A message that was answered is shown with its answer as long as the     *)
(* page is open, whatever arrives later, unless it was sent before the     *)
(* list had been loaded (handleSendMessage appends to what is shown).      *)
AnswerIsShown ==
  \A s \in Sends : pc[s] = "answered" /\ at[s] = mount /\ s \notin early =>
    \A role \in {"user", "assistant"} : Contains(shown[mount], Stored(s, role))

(* What is shown of the chat on the server is in the order it has there,   *)
(* and nothing twice, although cached, loaded and streamed messages are    *)
(* put together; with the same exception.                                  *)
InServersOrder ==
  route[mount] # Null =>
    \A i, j \in 1 .. Len(shown[mount]) :
      LET a == shown[mount][i]
          b == shown[mount][j]
          list == rows[route[mount]]
      IN  (i < j /\ Contains(list, a) /\ Contains(list, b)
             /\ {a.send, b.send} \cap early = {})
          => /\ a # b
             /\ \E k, l \in 1 .. Len(list) : k < l /\ list[k] = a /\ list[l] = b

(* A stored message of this chat does not vanish from the page: what is    *)
(* loaded is not older than what the cache had, and a failure removes no   *)
(* more than its own drafts.                                               *)
NothingVanishes ==
  [][mount' = mount =>
       \A i \in 1 .. Len(shown[mount]) :
         LET item == shown[mount][i] IN
         (item.stored /\ chat[item.send] = route[mount] /\ item.send \notin early)
         => Contains(shown'[mount], item)]_vars

(* The composer is given back, and the list of a page arrives or fails:    *)
(* again and again the user waits for nothing.                             *)
Settled == /\ \A s \in Sends : ~Sending(s)
           /\ \A m \in Mounts : load[m] \notin {"asked", "answered"}
EverythingSettles == []<>Settled
=============================================================================
