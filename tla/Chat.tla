-------------------------------- MODULE Chat --------------------------------
(***************************************************************************)
(* The chat service: a message of a user is stored, the model is asked     *)
(* with the history of the chat, and its answer is streamed and stored     *)
(* (backend/services/chat_service.go, llm_service.go, over                 *)
(* repositories/chat_repository.go and handlers/chat_handler.go).          *)
(* Requests for one chat run side by side: there is no lock and no         *)
(* transaction around the statements of one.                               *)
(***************************************************************************)
EXTENDS Accounts, LLM

CONSTANTS
  Chats,
  Texts,        \* What users write, trimmed.
  Chars,        \* Chars[t]: the length of text t.
  TokenChars,   \* The length of a token of an answer.
  MaxToken,     \* Bound: tokens in an answer.
  MaxBreak,     \* Bound: streams of one request that break off.
  Window,       \* LIMIT of the history (20 in the code).
  BaseURL,      \* LLM_BASE_URL: its path.
  NoUser, NoJob

ASSUME ChatAssumption ==
  /\ Window \in Nat \ {0} /\ TokenChars \in Nat
  /\ MaxToken \in Nat \ {0} /\ MaxBreak \in Nat
  /\ Chars \in [Texts -> Nat]
  /\ NoUser \notin Users

VARIABLES
  owner,        \* owner[c]: the user chat c belongs to.
  titled,       \* The chats whose title a request has generated.
  messages,     \* The table messages.
  clock,        \* NOW(); each INSERT has a time of its own.
  job,          \* job[r]: what request r sends, and where.
  had,          \* hadMessages.
  stamp,        \* The time of the INSERT that r is in.
  prompt,       \* The messages that r sends to the model.
  broken,       \* The streams that broke off for r.
  sent,         \* The tokens written to the client of r so far.
  reply         \* The answer of the model.

tableVars == <<owner, titled, messages, clock>>
workVars == <<had, stamp, prompt, broken, sent, reply>>
chatVars == <<tableVars, job, workVars>>

(* The attempts at an answer that say anything, in their order: a stream   *)
(* for every endpoint at most, then a reply in one piece.                  *)
NStream == Len(ChatEndpoints(BaseURL))
ASSUME EndpointAssumption == NStream \in Nat

Attempt == 1 .. NStream + 1
Whole == NStream + 1

(* A token is known by the attempt that it comes from.                     *)
Repeat(a, n) == [k \in 1 .. n |-> a]
Answer == UNION {[1 .. n -> Attempt] : n \in 0 .. MaxToken}
Job == [kind : {"plain", "stream"}, user : Users, chat : Chats, text : Texts]
ASSUME JobAssumption == NoJob \notin Job

Message ==
  [chat : Chats, role : {"user"}, text : Texts, req : Reqs, stamp : Nat]
    \cup [chat : Chats, role : {"assistant"}, text : Answer, req : Reqs, stamp : Nat]

ChatInit ==
  /\ owner = [c \in Chats |-> NoUser] /\ titled = {}
  /\ messages = {} /\ clock = 0
  /\ job = [r \in Reqs |-> NoJob]
  /\ had = [r \in Reqs |-> FALSE] /\ stamp = [r \in Reqs |-> 0]
  /\ prompt = [r \in Reqs |-> <<>>] /\ broken = [r \in Reqs |-> 0]
  /\ sent = [r \in Reqs |-> <<>>] /\ reply = [r \in Reqs |-> <<>>]
-----------------------------------------------------------------------------
(* ListMessagesByChat: by created_at, the oldest first.                    *)
InChat(c) == {m \in messages : m.chat = c}
Listing(c) ==
  [i \in 1 .. Cardinality(InChat(c)) |->
     CHOOSE m \in InChat(c) : Cardinality({k \in InChat(c) : k.stamp <= m.stamp}) = i]

Line(c, role, text) == [chat |-> c, role |-> role, text |-> text]
Cost(line) ==
  Tokens(IF line.role = "user" THEN Chars[line.text] ELSE TokenChars * Len(line.text))

(* The history, which begins with the chat's first message, the question   *)
(* if it is not the last of it, and of these what fits the context.        *)
History(c) ==
  [i \in 1 .. IF Len(Listing(c)) < Window THEN Len(Listing(c)) ELSE Window |->
     Line(c, Listing(c)[i].role, Listing(c)[i].text)]

(* A change could rely on the question being in the history that is read.  *)
WithQuestionInHistory(h, question) == h

WithQuestion(h, question) ==
  IF h # <<>> /\ Last(h).role = "user" /\ Last(h).text = question.text
  THEN h ELSE Append(h, question)

LimitByContext(lines) ==
  Only(lines, Kept([i \in 1 .. Len(lines) |-> Cost(lines[i])], CtxSize))

Question(r) == Line(job[r].chat, "user", job[r].text)
PromptOf(r) == LimitByContext(WithQuestion(History(job[r].chat), Question(r)))
-----------------------------------------------------------------------------
(* POST /api/chats, with a title of the user's or "New Chat".              *)
CreateChat(u, c) ==
  /\ owner[c] = NoUser
  /\ owner' = [owner EXCEPT ![c] = u]
  /\ UNCHANGED <<requestVars, titled, messages, clock, job, workVars>>

(* POST /api/chats/{slug}/messages and .../stream, with a text that is not *)
(* blank (400 or an error otherwise, before anything is done).             *)
Send(r, j) ==
  /\ job' = [job EXCEPT ![r] = j]
  /\ Goto(r, "lookup")
  /\ UNCHANGED <<gone, faults, tableVars, workVars>>

(* GetChatBySlug finds only chats of the user.                             *)
Lookup(r) ==
  /\ pc[r] = "lookup"
  /\ \/ Works(r) /\ Goto(r, IF owner[job[r].chat] = job[r].user THEN "peek" ELSE "failed")
     \/ Fails(r) /\ Goto(r, "failed")
  /\ UNCHANGED chatVars

(* A change could take an error for "there are messages".                  *)
PeekErrorIsYes(r) ==
  /\ pc[r] = "peek"
  /\ \/ Works(r) /\ had' = [had EXCEPT ![r] = InChat(job[r].chat) # {}]
     \/ Fails(r) /\ had' = [had EXCEPT ![r] = TRUE]
  /\ Goto(r, "ask")
  /\ UNCHANGED <<tableVars, job, stamp, prompt, broken, sent, reply>>

(* Is it the chat's first message?  An error counts as yes.                *)
Peek(r) ==
  /\ pc[r] = "peek"
  /\ \/ Works(r) /\ had' = [had EXCEPT ![r] = InChat(job[r].chat) # {}]
     \/ Fails(r) /\ UNCHANGED had
  /\ Goto(r, "ask")
  /\ UNCHANGED <<tableVars, job, stamp, prompt, broken, sent, reply>>
-----------------------------------------------------------------------------
(* CreateMessage: NOW() is the time at which the statement begins.         *)
BeginInsert(r, from, to) ==
  /\ pc[r] = from
  /\ \/ /\ Works(r) /\ Goto(r, to)
        /\ clock' = clock + 1 /\ stamp' = [stamp EXCEPT ![r] = clock + 1]
     \/ Fails(r) /\ Goto(r, "failed") /\ UNCHANGED <<clock, stamp>>
  /\ UNCHANGED <<owner, titled, messages, job, had, prompt, broken, sent, reply>>

(* It commits, or the error reaches the program that it has not; or it has *)
(* committed, and an error is all that the program gets to know.           *)
Insert(r, from, to, role, text) ==
  LET m == [chat |-> job[r].chat, role |-> role, text |-> text, req |-> r,
            stamp |-> stamp[r]]
  IN  /\ pc[r] = from
      /\ \/ Works(r) /\ Goto(r, to) /\ messages' = messages \cup {m}
         \/ Fails(r) /\ Goto(r, "failed") /\ messages' \in {messages, messages \cup {m}}
      /\ UNCHANGED <<owner, titled, clock, job, had, stamp, prompt, broken>>

Ask(r) == BeginInsert(r, "ask", "asking")
Asking(r) ==
  Insert(r, "asking", "history", "user", job[r].text) /\ UNCHANGED <<sent, reply>>
Reply(r) == BeginInsert(r, "reply", "replying")

(* A change could ignore the error of the second INSERT.                   *)
ReplyingIgnoresError(r) ==
  \/ Insert(r, "replying", "touch", "assistant", reply[r]) /\ UNCHANGED <<sent, reply>>
  \/ pc[r] = "replying" /\ Fails(r) /\ Goto(r, "touch") /\ UNCHANGED chatVars

Replying(r) ==
  /\ Insert(r, "replying", "touch", "assistant", reply[r])
  /\ sent' = [sent EXCEPT ![r] = <<>>] /\ reply' = [reply EXCEPT ![r] = <<>>]

GetHistory(r) ==
  /\ pc[r] = "history"
  /\ \/ Works(r) /\ Goto(r, "model") /\ prompt' = [prompt EXCEPT ![r] = PromptOf(r)]
     \/ Fails(r) /\ Goto(r, "failed") /\ UNCHANGED prompt
  /\ UNCHANGED <<tableVars, job, had, stamp, broken, sent, reply>>
-----------------------------------------------------------------------------
(* The model.  Endpoints that are not reached in time, answer 404 or       *)
(* stream no text are passed over.  The next attempt writes n tokens to    *)
(* the client.                                                             *)
ModelStep(r, a, n, step, text) ==
  /\ Goto(r, step)
  /\ sent' = [sent EXCEPT ![r] = IF step = "failed" THEN <<>> ELSE @ \o Repeat(a, n)]
  /\ reply' = [reply EXCEPT ![r] = text]
  /\ broken' = [broken EXCEPT ![r] = IF step = "model" THEN @ + 1 ELSE 0]
  /\ prompt' = [prompt EXCEPT ![r] = IF step = "model" THEN @ ELSE <<>>]
  /\ UNCHANGED <<gone, faults, tableVars, job, had, stamp>>

CanStream(r) == job[r].kind = "stream" /\ broken[r] < NStream /\ r \notin gone

(* A change could try the endpoint again that broke off, or return the     *)
(* reply of the fallback without writing it to the client.                 *)
StreamBreaksSame(r) ==
  \E n \in 1 .. MaxToken :
    /\ CanStream(r) /\ Len(sent[r]) < MaxBreak
    /\ Goto(r, "model")
    /\ sent' = [sent EXCEPT ![r] = @ \o Repeat(broken[r] + 1, n)]
    /\ UNCHANGED <<gone, faults, tableVars, job, had, stamp, prompt, broken, reply>>

WholeReplyUnsent(r) ==
  \E n \in 0 .. MaxToken :
    r \notin gone /\ ModelStep(r, Whole, 0, "reply", Repeat(Whole, n))

(* A stream that ends: with [DONE] or without.                             *)
StreamReply(r) ==
  \E n \in 1 .. MaxToken :
    /\ CanStream(r)
    /\ ModelStep(r, broken[r] + 1, n, "reply", Repeat(broken[r] + 1, n))

(* A stream breaks off, by an error or the client's timeout: the next      *)
(* endpoint is tried, though the client has got what there was of it.      *)
StreamBreaks(r) ==
  \E n \in 1 .. MaxToken :
    /\ CanStream(r) /\ broken[r] < MaxBreak
    /\ ModelStep(r, broken[r] + 1, n, "model", <<>>)

(* GenerateReply, and its fallback to plain completion, which is never     *)
(* empty.  A request for a stream writes the text in pieces.               *)
WholeReply(r) ==
  \E n \in 0 .. MaxToken :
    /\ r \notin gone
    /\ ModelStep(r, Whole, IF job[r].kind = "stream" THEN n ELSE 0, "reply",
                 Repeat(Whole, n))

(* All fail, as they do when the client is gone; or a chat endpoint says   *)
(* something else than 404 that is no reply, and no other is tried.        *)
NoAnswer(r) == ModelStep(r, Whole, 0, "failed", <<>>)

Generate(r) ==
  /\ pc[r] = "model"
  /\ StreamReply(r) \/ StreamBreaks(r) \/ WholeReply(r) \/ NoAnswer(r)
-----------------------------------------------------------------------------
(* UpdateChatTimestamp; its time only orders the list of chats.            *)
Touch(r) ==
  /\ pc[r] = "touch"
  /\ \/ Works(r) /\ Goto(r, IF had[r] THEN "done" ELSE "title")
     \/ Fails(r) /\ Goto(r, "failed")
  /\ UNCHANGED chatVars

(* GenerateTitle has a context of its own: it goes on without the client.  *)
MakeTitle(r) ==
  /\ pc[r] = "title"
  /\ Goto(r, "retitle") \/ Goto(r, "untitled")
  /\ UNCHANGED <<gone, faults, chatVars>>

(* UpdateChatTitle, whatever the title is by now; its error is ignored.    *)
Retitle(r) ==
  LET new == titled \cup {job[r].chat} IN
  /\ pc[r] = "retitle"
  /\ \/ Works(r) /\ Goto(r, "done") /\ titled' = new
     \/ Fails(r) /\ Goto(r, "untitled") /\ titled' \in {titled, new}
  /\ UNCHANGED <<owner, messages, clock, job, workVars>>

ChatStep(r) ==
  \/ Lookup(r) \/ Peek(r) \/ Ask(r) \/ Asking(r) \/ GetHistory(r) \/ Generate(r)
  \/ Reply(r) \/ Replying(r) \/ Touch(r) \/ MakeTitle(r) \/ Retitle(r)
=============================================================================
