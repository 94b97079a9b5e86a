------------------------------ MODULE Backend -------------------------------
(***************************************************************************)
(* The chat backend: its requests are about messages or about accounts,    *)
(* and a message needs a token that a login has given out.                 *)
(***************************************************************************)
EXTENDS Chat

vars == <<requestVars, chatVars, accountVars>>

(* The rows that request r has stored.                                     *)
Stored(r, role) == {m \in messages : m.req = r /\ m.role = role}

TypeOK ==
  /\ pc \in [Reqs -> {"new", "lookup", "peek", "ask", "asking", "history", "model",
                      "reply", "replying", "touch", "title", "retitle",
                      "register", "insert", "login"} \cup Ended]
  /\ gone \subseteq Reqs /\ faults \in 0 .. MaxFault
  /\ owner \in [Chats -> Users \cup {NoUser}] /\ titled \subseteq Chats
  /\ messages \subseteq Message /\ clock \in Nat
  /\ job \in [Reqs -> Job \cup {NoJob}]
  /\ had \in [Reqs -> BOOLEAN] /\ stamp \in [Reqs -> Nat]
  /\ broken \in [Reqs -> 0 .. NStream]
  /\ sent \in [Reqs -> Seq(Attempt)] /\ reply \in [Reqs -> Answer]
  /\ account \in [Users -> Passwords \cup {NoPassword}] /\ tokens \subseteq Users
  /\ form \in [Reqs -> Form \cup {NoForm}]

Init == RequestsInit /\ ChatInit /\ AccountsInit

Arrive(r) ==
  /\ Arrives(r)
  /\ \/ /\ \E j \in Job : j.user \in tokens /\ Send(r, j)
        /\ UNCHANGED accountVars
     \/ /\ \E f \in Form, step \in {"register", "login"} : Submit(r, step, f)
        /\ UNCHANGED chatVars

Step(r) ==
  \/ ChatStep(r) /\ UNCHANGED accountVars
  \/ AccountStep(r) /\ UNCHANGED chatVars

Elsewhere ==
  \/ \E u \in tokens, c \in Chats : CreateChat(u, c) /\ UNCHANGED accountVars
  \/ \E r \in Reqs : Disconnect(r) /\ UNCHANGED <<chatVars, accountVars>>
  \/ Exit /\ UNCHANGED <<chatVars, accountVars>>

Next == Elsewhere \/ \E r \in Reqs : Arrive(r) \/ Step(r)

Spec == Init /\ [][Next]_vars

-----------------------------------------------------------------------------
(* Whatever the chat holds by the time the history is read, however few of *)
(* its messages the window and the context leave: the last line that the   *)
(* model gets is the question (the prompt of GenerateReply).               *)
PromptEndsWithQuestion ==
  \A r \in Reqs : pc[r] = "model" => prompt[r] # <<>> /\ Last(prompt[r]) = Question(r)

(* A prompt fits the context; a question too long for it alone goes with   *)
(* older lines that fit without it (limitMessagesByContext).               *)
TotalCost(lines) ==
  LET total[i \in 0 .. Len(lines)] ==
        IF i = 0 THEN Tokens(SystemChars) ELSE total[i - 1] + Cost(lines[i])
  IN  total

Fits(lines) ==
  LET n == Len(lines)
      Within(cost) == cost <= InputBudget(CtxSize)
  IN  \/ Within(TotalCost(lines)[n])
      \/ /\ ~Within(Tokens(SystemChars) + Cost(lines[n]))
         /\ Within(TotalCost(lines)[n - 1]) \/ n = 1

PromptFits ==
  CtxSize # 0 => \A r \in Reqs : pc[r] = "model" => Fits(prompt[r])

(* The answer is one attempt's, whatever others have sent before they      *)
(* broke off, and its tokens are the last the client was sent, so that the *)
(* text a client ends with is the one that is stored (GenerateReplyStream).*)
OneAttemptsAnswer ==
  /\ \A r \in Reqs : pc[r] \in {"reply", "replying"} /\ job[r].kind = "stream" =>
       IsSuffix(reply[r], sent[r])
  /\ \A m \in messages : m.role = "assistant" =>
       \A j, k \in 1 .. Len(m.text) : m.text[j] = m.text[k]

(* A chat that was answered keeps a title nobody gave it only if one of    *)
(* its requests met trouble: the first message makes the title, whichever  *)
(* of two concurrent ones that is (hadMessages).                           *)
Trouble(r) == r \in gone \/ pc[r] \in {"failed", "untitled"}
UntitledOnlyAfterTrouble ==
  \A c \in Chats :
    LET rs == {r \in Reqs : job[r] # NoJob /\ job[r].chat = c /\ job[r].user = owner[c]} IN
    (rs # {} /\ \A r \in rs : ~Open(r)) =>
      c \in titled \/ \E r \in rs : Trouble(r)

(* Whoever is told that the account was created can log in to it: of two   *)
(* registrations of one email at once, the other gets an error (Register). *)
CreatedIsMine ==
  \A r \in Reqs : pc[r] = "done" /\ form[r] # NoForm =>
    account[form[r].user] = form[r].password

(* The promise of Exchange, kept although statements fail, or commit and   *)
(* report an error, and the process exits (SendMessage).                   *)
Promise == INSTANCE Exchange WITH
  asked <- {r \in Reqs : Stored(r, "user") # {}},
  answered <- {r \in Reqs : Stored(r, "assistant") # {}},
  result <- [r \in Reqs |-> IF job[r] = NoJob \/ Open(r) \/ pc[r] = "new" THEN "open"
                            ELSE IF Succeeded(r) THEN "succeeded" ELSE "failed"]
KeepsPromise == Promise!Spec

(* Every request comes to an end: each of its steps leads to a later one,  *)
(* except that a stream that broke off is followed by another, and of      *)
(* those there are no more than endpoints (the loops of                    *)
(* GenerateReplyStream and of the calls it falls back to).                 *)
Order == <<"new", "lookup", "peek", "ask", "asking", "history", "model", "reply",
           "replying", "touch", "title", "retitle", "register", "insert", "login",
           "done", "untitled", "failed">>
Rank(step) == CHOOSE i \in 1 .. Len(Order) : Order[i] = step
EveryStepAdvances ==
  [][\A r \in Reqs : Step(r) =>
       \/ Rank(pc'[r]) > Rank(pc[r])
       \/ pc'[r] = pc[r] /\ broken'[r] = broken[r] + 1 /\ broken'[r] <= NStream]_vars
=============================================================================
