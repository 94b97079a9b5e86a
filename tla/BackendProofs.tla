---------------------------- MODULE BackendProofs ---------------------------
(***************************************************************************)
(* What holds of Backend for every number of requests, users, chats and    *)
(* endpoints and every length of an answer.                                *)
(***************************************************************************)
EXTENDS Backend, ListProofs

-----------------------------------------------------------------------------
(* The steps of requests, and what a request is about.                     *)
ChatSteps == {"lookup", "peek", "ask", "asking", "history", "model", "reply", "replying",
              "touch", "title", "retitle"}
AccountSteps == {"register", "insert", "login"}
Steps == {"new"} \cup ChatSteps \cup AccountSteps \cup Ended

(* A request is about a message or about an account, never about both.     *)
Kind(r) ==
  /\ pc[r] = "new" => job[r] = NoJob /\ form[r] = NoForm
  /\ pc[r] \in ChatSteps \cup {"untitled"} => job[r] \in Job
  /\ pc[r] \in AccountSteps => form[r] \in Form
  /\ job[r] = NoJob \/ form[r] = NoForm

PcOK == pc \in [Reqs -> Steps] /\ gone \subseteq Reqs /\ faults \in 0 .. MaxFault
TablesOK ==
  /\ owner \in [Chats -> Users \cup {NoUser}] /\ titled \subseteq Chats
  /\ messages \subseteq Message /\ clock \in Nat
WorkOK ==
  /\ job \in [Reqs -> Job \cup {NoJob}]
  /\ had \in [Reqs -> BOOLEAN] /\ stamp \in [Reqs -> Nat]
  /\ broken \in [Reqs -> 0 .. NStream]
  /\ sent \in [Reqs -> Seq(Attempt)] /\ reply \in [Reqs -> Answer]
AccountsOK ==
  /\ account \in [Users -> Passwords \cup {NoPassword}] /\ tokens \subseteq Users
  /\ form \in [Reqs -> Form \cup {NoForm}]
KindsOK == \A r \in Reqs : Kind(r)

TypeInv == PcOK /\ TablesOK /\ WorkOK /\ AccountsOK /\ KindsOK

LEMMA TypeInvImplies == TypeInv => TypeOK
  BY DEF TypeInv, TypeOK, PcOK, TablesOK, WorkOK, AccountsOK, Steps, ChatSteps, AccountSteps

LEMMA NoFormIsNone == NoForm \notin Form
  BY AccountsAssumption DEF NoForm, Form

LEMMA TypeInvInit == Init => TypeInv
  <1> SUFFICES ASSUME Init PROVE TypeInv
    OBVIOUS
  <1>1. PcOK
    BY RequestAssumption DEF Init, RequestsInit, PcOK, Steps
  <1>2. TablesOK
    BY DEF Init, ChatInit, TablesOK
  <1>3. WorkOK
    <2>1. <<>> \in Seq(Attempt) /\ 0 \in 0 .. NStream
      BY EndpointAssumption
    <2>2. <<>> \in Answer
      <3>1. 0 \in 0 .. MaxToken /\ <<>> \in [1 .. 0 -> Attempt]
        BY ChatAssumption
      <3> QED BY <3>1 DEF Answer
    <2> QED BY <2>1, <2>2 DEF Init, ChatInit, WorkOK
  <1>4. AccountsOK
    BY AccountsAssumption DEF Init, AccountsInit, AccountsOK
  <1>5. KindsOK
    BY DEF Init, RequestsInit, ChatInit, AccountsInit, KindsOK, Kind, ChatSteps, AccountSteps, Ended
  <1> QED BY <1>1, <1>2, <1>3, <1>4, <1>5 DEF TypeInv

(* The tokens of an attempt.                                               *)
LEMMA RepeatType ==
  ASSUME NEW a \in Attempt, NEW n \in 0 .. MaxToken
  PROVE  Repeat(a, n) \in Answer /\ Repeat(a, n) \in Seq(Attempt) /\ Len(Repeat(a, n)) = n
  <1>1. n \in Nat
    BY ChatAssumption
  <1>2. Repeat(a, n) \in [1 .. n -> Attempt]
    BY DEF Repeat
  <1> QED BY <1>1, <1>2 DEF Answer

(* The step that a request goes to, and what works or fails there.         *)
LEMMA GotoStep ==
  ASSUME PcOK, NEW r \in Reqs, NEW step \in Steps, Goto(r, step)
  PROVE  /\ pc' \in [Reqs -> Steps] /\ pc'[r] = step
         /\ \A q \in Reqs \ {r} : pc'[q] = pc[q]
  BY DEF PcOK, Goto

LEMMA WorksOrFails ==
  ASSUME PcOK, NEW r \in Reqs, Works(r) \/ Fails(r)
  PROVE  gone' = gone /\ faults' \in 0 .. MaxFault
  BY RequestAssumption DEF PcOK, Works, Fails

(* A step about a message goes from a step of these to another, or ends.   *)
After(r, from, to) ==
  /\ pc[r] = from
  /\ \E step \in to : Goto(r, step)
  /\ Works(r) \/ Fails(r) \/ UNCHANGED <<gone, faults>>
  /\ UNCHANGED job

LEMMA ChatStepAfter ==
  ASSUME NEW r \in Reqs, ChatStep(r)
  PROVE  \/ After(r, "lookup", {"peek", "failed"})
         \/ After(r, "peek", {"ask"})
         \/ After(r, "ask", {"asking", "failed"})
         \/ After(r, "asking", {"history", "failed"})
         \/ After(r, "history", {"model", "failed"})
         \/ After(r, "model", {"model", "reply", "failed"})
         \/ After(r, "reply", {"replying", "failed"})
         \/ After(r, "replying", {"touch", "failed"})
         \/ After(r, "touch", {"done", "title", "failed"})
         \/ After(r, "title", {"retitle", "untitled"})
         \/ After(r, "retitle", {"done", "untitled"})
  <1>1. CASE Lookup(r)
    BY <1>1 DEF Lookup, After, chatVars
  <1>2. CASE Peek(r)
    BY <1>2 DEF Peek, After
  <1>3. CASE Ask(r)
    BY <1>3 DEF Ask, BeginInsert, After
  <1>4. CASE Asking(r)
    BY <1>4 DEF Asking, Insert, After
  <1>5. CASE GetHistory(r)
    BY <1>5 DEF GetHistory, After
  <1>6. CASE Generate(r)
    BY <1>6 DEF Generate, StreamReply, StreamBreaks, WholeReply, NoAnswer, ModelStep, After
  <1>7. CASE Reply(r)
    BY <1>7 DEF Reply, BeginInsert, After
  <1>8. CASE Replying(r)
    BY <1>8 DEF Replying, Insert, After
  <1>9. CASE Touch(r)
    BY <1>9 DEF Touch, After, chatVars
  <1>10. CASE MakeTitle(r)
    BY <1>10 DEF MakeTitle, After, chatVars
  <1>11. CASE Retitle(r)
    BY <1>11 DEF Retitle, After
  <1> QED BY <1>1, <1>2, <1>3, <1>4, <1>5, <1>6, <1>7, <1>8, <1>9, <1>10, <1>11 DEF ChatStep

LEMMA ChatStepPc ==
  ASSUME PcOK, NEW r \in Reqs, ChatStep(r)
  PROVE  /\ PcOK' /\ pc[r] \in ChatSteps /\ pc'[r] \in ChatSteps \cup Ended
         /\ \A q \in Reqs \ {r} : pc'[q] = pc[q]
         /\ job' = job
  <1>1. PICK step \in ChatSteps \cup Ended :
          pc[r] \in ChatSteps /\ Goto(r, step) /\ job' = job
          /\ (Works(r) \/ Fails(r) \/ UNCHANGED <<gone, faults>>)
    BY ChatStepAfter DEF After, ChatSteps, Ended
  <1>2. gone' = gone /\ faults' \in 0 .. MaxFault
    BY <1>1, WorksOrFails DEF PcOK
  <1>3. /\ pc' \in [Reqs -> Steps] /\ pc'[r] = step
        /\ \A q \in Reqs \ {r} : pc'[q] = pc[q]
    BY <1>1, GotoStep DEF Steps
  <1> QED BY <1>1, <1>2, <1>3 DEF PcOK

(* What a row is that is stored.                                           *)
LEMMA InsertType ==
  ASSUME TablesOK, WorkOK, NEW r \in Reqs, job[r] \in Job, NEW from, NEW to,
         NEW role, NEW text, Insert(r, from, to, role, text),
         \/ role = "user" /\ text \in Texts
         \/ role = "assistant" /\ text \in Answer
  PROVE  TablesOK'
  <1> DEFINE m == [chat |-> job[r].chat, role |-> role, text |-> text, req |-> r,
                   stamp |-> stamp[r]]
  <1>1. m \in Message
    BY DEF WorkOK, Job, Message
  <1>2. messages' \in {messages, messages \cup {m}} /\ UNCHANGED <<owner, titled, clock>>
    BY DEF Insert
  <1> QED BY <1>1, <1>2 DEF TablesOK

LEMMA ModelStepType ==
  ASSUME WorkOK, NEW r \in Reqs, NEW a \in Attempt, NEW n \in 0 .. MaxToken, NEW step,
         NEW text \in Answer, ModelStep(r, a, n, step, text),
         step = "model" => broken[r] < NStream
  PROVE  WorkOK'
  <1>1. Repeat(a, n) \in Seq(Attempt) /\ sent[r] \in Seq(Attempt) /\ broken[r] \in 0 .. NStream
    BY RepeatType DEF WorkOK
  <1>2. sent[r] \o Repeat(a, n) \in Seq(Attempt) /\ <<>> \in Seq(Attempt)
    BY <1>1
  <1>3. sent' \in [Reqs -> Seq(Attempt)]
    BY <1>2 DEF ModelStep, WorkOK
  <1>4. broken' \in [Reqs -> 0 .. NStream]
    BY <1>1, EndpointAssumption DEF ModelStep, WorkOK
  <1>5. reply' \in [Reqs -> Answer] /\ UNCHANGED <<job, had, stamp>>
    BY DEF ModelStep, WorkOK
  <1> QED BY <1>3, <1>4, <1>5 DEF WorkOK

LEMMA GenerateType ==
  ASSUME WorkOK, NEW r \in Reqs, Generate(r)
  PROVE  WorkOK'
  <1>1. MaxToken \in Nat \ {0} /\ NStream \in Nat /\ broken[r] \in 0 .. NStream
    BY ChatAssumption, EndpointAssumption DEF WorkOK
  <1>2. broken[r] < NStream => broken[r] + 1 \in Attempt
    BY <1>1 DEF Attempt
  <1>3. Whole \in Attempt
    BY <1>1 DEF Whole, Attempt
  <1>4. CASE StreamReply(r)
    <2>1. PICK n \in 1 .. MaxToken :
            broken[r] < NStream
            /\ ModelStep(r, broken[r] + 1, n, "reply", Repeat(broken[r] + 1, n))
      BY <1>4 DEF StreamReply, CanStream
    <2> QED BY <1>1, <1>2, <2>1, ModelStepType, RepeatType
  <1>5. CASE StreamBreaks(r)
    <2>1. PICK n \in 1 .. MaxToken :
            broken[r] < NStream /\ ModelStep(r, broken[r] + 1, n, "model", <<>>)
      BY <1>5 DEF StreamBreaks, CanStream
    <2>2. <<>> \in Answer
      <3>1. 0 \in 0 .. MaxToken /\ <<>> \in [1 .. 0 -> Attempt]
        BY <1>1
      <3> QED BY <3>1 DEF Answer
    <2> QED BY <1>1, <1>2, <2>1, <2>2, ModelStepType
  <1>6. CASE WholeReply(r)
    <2>1. PICK n \in 0 .. MaxToken :
            ModelStep(r, Whole, IF job[r].kind = "stream" THEN n ELSE 0, "reply", Repeat(Whole, n))
      BY <1>6 DEF WholeReply
    <2>2. (IF job[r].kind = "stream" THEN n ELSE 0) \in 0 .. MaxToken
      BY <1>1
    <2> QED BY <1>3, <2>1, <2>2, ModelStepType, RepeatType
  <1>7. CASE NoAnswer(r)
    <2>1. 0 \in 0 .. MaxToken /\ <<>> \in [1 .. 0 -> Attempt]
      BY <1>1
    <2>2. <<>> \in Answer
      BY <2>1 DEF Answer
    <2> QED BY <1>3, <1>7, <2>1, <2>2, ModelStepType DEF NoAnswer
  <1> QED BY <1>4, <1>5, <1>6, <1>7 DEF Generate

LEMMA ChatStepType ==
  ASSUME TypeInv, NEW r \in Reqs, ChatStep(r)
  PROVE  TablesOK' /\ WorkOK'
  <1> USE DEF TypeInv
  <1>1. job[r] \in Job
    BY ChatStepPc DEF KindsOK, Kind
  <1>2. ASSUME UNCHANGED tableVars PROVE TablesOK'
    BY <1>2 DEF tableVars, TablesOK
  <1>3. ASSUME UNCHANGED <<job, workVars>> PROVE WorkOK'
    BY <1>3 DEF workVars, WorkOK
  <1>4. ASSUME NEW from, NEW to, BeginInsert(r, from, to) PROVE TablesOK' /\ WorkOK'
    <2>1. clock' \in Nat /\ stamp' \in [Reqs -> Nat]
      BY <1>4 DEF BeginInsert, TablesOK, WorkOK
    <2> QED BY <1>4, <2>1 DEF BeginInsert, TablesOK, WorkOK
  <1>5. CASE Lookup(r) \/ Touch(r) \/ MakeTitle(r)
    BY <1>2, <1>3, <1>5 DEF Lookup, Touch, MakeTitle, chatVars
  <1>6. CASE Peek(r)
    BY <1>2, <1>6 DEF Peek, WorkOK, tableVars
  <1>7. CASE Ask(r) \/ Reply(r)
    BY <1>4, <1>7 DEF Ask, Reply
  <1>8. CASE Asking(r)
    <2>1. PICK text \in Texts : Insert(r, "asking", "history", "user", text)
      BY <1>1, <1>8 DEF Asking, Job
    <2>2. WorkOK'
      BY <1>8 DEF Asking, Insert, WorkOK
    <2>3. \E role : role = "user" /\ Insert(r, "asking", "history", role, text)
      BY <2>1
    <2>4. TablesOK'
      BY <1>1, <2>3, InsertType
    <2> QED BY <2>2, <2>4
  <1>9. CASE Replying(r)
    <2>1. Insert(r, "replying", "touch", "assistant", reply[r]) /\ reply[r] \in Answer
      BY <1>9 DEF Replying, WorkOK
    <2>2. 0 \in 0 .. MaxToken /\ <<>> \in [1 .. 0 -> Attempt]
      BY ChatAssumption
    <2>3. <<>> \in Answer /\ <<>> \in Seq(Attempt)
      BY <2>2 DEF Answer
    <2>4. WorkOK'
      BY <1>9, <2>3 DEF Replying, Insert, WorkOK
    <2> QED BY <1>1, <2>1, <2>4, InsertType
  <1>10. CASE GetHistory(r)
    BY <1>2, <1>10 DEF GetHistory, WorkOK
  <1>11. CASE Generate(r)
    <2>1. UNCHANGED tableVars
      BY <1>11 DEF Generate, StreamReply, StreamBreaks, WholeReply, NoAnswer, ModelStep
    <2> QED BY <1>2, <1>11, <2>1, GenerateType
  <1>12. CASE Retitle(r)
    <2>1. job[r].chat \in Chats
      BY <1>1 DEF Job
    <2>2. titled' \subseteq Chats
      BY <1>12, <2>1 DEF Retitle, TablesOK
    <2> QED BY <1>3, <1>12, <2>2 DEF Retitle, TablesOK
  <1> QED BY <1>5, <1>6, <1>7, <1>8, <1>9, <1>10, <1>11, <1>12 DEF ChatStep

LEMMA ChatUnchanged == ASSUME TablesOK, WorkOK, UNCHANGED chatVars PROVE TablesOK' /\ WorkOK'
  BY DEF chatVars, tableVars, workVars, TablesOK, WorkOK

LEMMA AccountStepType ==
  ASSUME TypeInv, NEW r \in Reqs, AccountStep(r)
  PROVE  /\ PcOK' /\ AccountsOK' /\ form' = form
         /\ pc[r] \in AccountSteps /\ pc'[r] \in AccountSteps \cup {"done", "failed"}
         /\ \A q \in Reqs \ {r} : pc'[q] = pc[q]
  <1> USE DEF TypeInv
  <1>1. /\ pc[r] \in AccountSteps /\ form' = form /\ (Works(r) \/ Fails(r))
        /\ \E step \in {"insert", "done", "failed"} : Goto(r, step)
    <2>1. CASE CheckEmail(r)
      BY <2>1 DEF CheckEmail, accountVars, AccountSteps
    <2>2. CASE InsertUser(r)
      BY <2>2 DEF InsertUser, AccountSteps
    <2>3. CASE Login(r)
      BY <2>3 DEF Login, AccountSteps
    <2> QED BY <2>1, <2>2, <2>3 DEF AccountStep
  <1>2. PICK step \in {"insert", "done", "failed"} : Goto(r, step)
    BY <1>1
  <1>3. /\ pc' \in [Reqs -> Steps] /\ pc'[r] = step
        /\ \A q \in Reqs \ {r} : pc'[q] = pc[q]
    BY <1>2, GotoStep DEF Steps, AccountSteps, Ended
  <1>4. gone' = gone /\ faults' \in 0 .. MaxFault
    BY <1>1, WorksOrFails
  <1>5. form[r] \in Form
    BY <1>1 DEF KindsOK, Kind
  <1>6. AccountsOK'
    <2>1. form[r].user \in Users /\ form[r].password \in Passwords
      BY <1>5 DEF Form
    <2>2. account' \in [Users -> Passwords \cup {NoPassword}] /\ tokens' \subseteq Users
      BY <2>1 DEF AccountStep, CheckEmail, InsertUser, Login, accountVars, AccountsOK
    <2> QED BY <1>1, <2>2 DEF AccountsOK
  <1> QED BY <1>1, <1>3, <1>4, <1>6 DEF PcOK, AccountSteps

LEMMA StepType == ASSUME TypeInv, NEW r \in Reqs, Step(r) PROVE TypeInv'
  <1>1. CASE ChatStep(r) /\ UNCHANGED accountVars
    <2>1. PcOK' /\ TablesOK' /\ WorkOK'
      BY <1>1, ChatStepPc, ChatStepType DEF TypeInv
    <2>2. AccountsOK'
      BY <1>1 DEF accountVars, AccountsOK, TypeInv
    <2>3. KindsOK'
      BY <1>1, ChatStepPc DEF TypeInv, KindsOK, Kind, accountVars, ChatSteps, AccountSteps, Ended
    <2> QED BY <2>1, <2>2, <2>3 DEF TypeInv
  <1>2. CASE AccountStep(r) /\ UNCHANGED chatVars
    <2>1. PcOK' /\ AccountsOK' /\ TablesOK' /\ WorkOK'
      BY <1>2, AccountStepType, ChatUnchanged DEF TypeInv
    <2>2. KindsOK'
      BY <1>2, AccountStepType
         DEF TypeInv, KindsOK, Kind, chatVars, ChatSteps, AccountSteps, Ended
    <2> QED BY <2>1, <2>2 DEF TypeInv
  <1> QED BY <1>1, <1>2 DEF Step

LEMMA ArriveType == ASSUME TypeInv, NEW r \in Reqs, Arrive(r) PROVE TypeInv'
  <1> USE DEF TypeInv
  <1>1. pc[r] = "new" /\ job[r] = NoJob /\ form[r] = NoForm
    BY DEF Arrive, Arrives, KindsOK, Kind
  <1>2. ASSUME NEW j \in Job, Send(r, j), UNCHANGED accountVars PROVE TypeInv'
    <2>1. /\ pc' \in [Reqs -> Steps] /\ pc'[r] = "lookup"
          /\ \A q \in Reqs \ {r} : pc'[q] = pc[q]
      BY <1>2, GotoStep DEF Send, Steps, ChatSteps
    <2>2. job' = [job EXCEPT ![r] = j] /\ form' = form /\ UNCHANGED <<gone, faults>>
      BY <1>2 DEF Send, accountVars
    <2>3. PcOK' /\ TablesOK' /\ AccountsOK' /\ WorkOK'
      BY <1>2, <2>1 DEF Send, accountVars, tableVars, workVars, PcOK, TablesOK, AccountsOK, WorkOK
    <2>4. KindsOK'
      BY <1>1, <2>1, <2>2 DEF KindsOK, Kind, ChatSteps, AccountSteps, WorkOK
    <2> QED BY <2>3, <2>4
  <1>3. ASSUME NEW f \in Form, NEW step \in {"register", "login"}, Submit(r, step, f),
               UNCHANGED chatVars
        PROVE  TypeInv'
    <2>1. /\ pc' \in [Reqs -> Steps] /\ pc'[r] = step
          /\ \A q \in Reqs \ {r} : pc'[q] = pc[q]
      BY <1>3, GotoStep DEF Submit, Steps, AccountSteps
    <2>2. form' = [form EXCEPT ![r] = f] /\ job' = job /\ UNCHANGED <<gone, faults>>
      BY <1>3 DEF Submit, chatVars
    <2>3. PcOK' /\ AccountsOK'
      BY <1>3, <2>1, <2>2 DEF Submit, PcOK, AccountsOK
    <2>4. KindsOK'
      BY <1>1, <2>1, <2>2 DEF KindsOK, Kind, ChatSteps, AccountSteps, AccountsOK
    <2> QED BY <1>3, <2>3, <2>4, ChatUnchanged
  <1> QED BY <1>2, <1>3 DEF Arrive

LEMMA ElsewhereType == ASSUME TypeInv, Elsewhere PROVE TypeInv'
  <1> USE DEF TypeInv
  <1>1. ASSUME NEW u \in tokens, NEW c \in Chats, CreateChat(u, c), UNCHANGED accountVars
        PROVE  TypeInv'
    <2>1. u \in Users
      BY DEF AccountsOK
    <2> QED BY <1>1, <2>1 DEF CreateChat, accountVars, requestVars, workVars,
                              PcOK, TablesOK, WorkOK, AccountsOK, KindsOK, Kind
  <1>2. ASSUME NEW r \in Reqs, Disconnect(r), UNCHANGED <<chatVars, accountVars>>
        PROVE  TypeInv'
    <2>1. PcOK' /\ AccountsOK' /\ KindsOK'
      BY <1>2 DEF Disconnect, accountVars, chatVars, PcOK, AccountsOK, KindsOK, Kind
    <2> QED BY <1>2, <2>1, ChatUnchanged
  <1>3. CASE Exit /\ UNCHANGED <<chatVars, accountVars>>
    <2>1. PcOK' /\ AccountsOK'
      BY <1>3 DEF Exit, accountVars, PcOK, AccountsOK, Steps, Ended
    <2>2. \A r \in Reqs : pc'[r] \in {pc[r], "failed"}
      BY <1>3 DEF Exit, PcOK
    <2>3. KindsOK'
      BY <1>3, <2>2 DEF accountVars, chatVars, KindsOK, Kind, ChatSteps, AccountSteps
    <2> QED BY <1>3, <2>1, <2>3, ChatUnchanged
  <1> QED BY <1>1, <1>2, <1>3 DEF Elsewhere

LEMMA TypeInvNext == TypeInv /\ [Next]_vars => TypeInv'
  <1> SUFFICES ASSUME TypeInv, [Next]_vars PROVE TypeInv'
    OBVIOUS
  <1>1. CASE UNCHANGED vars
    BY <1>1, ChatUnchanged
       DEF vars, requestVars, accountVars, chatVars, TypeInv, PcOK, AccountsOK, KindsOK, Kind
  <1> QED BY <1>1, StepType, ArriveType, ElsewhereType DEF Next

LEMMA TypeInvAlways == Spec => []TypeInv
  BY TypeInvInit, TypeInvNext, PTL DEF Spec

(* The types, whatever requests there are and however their steps mix.     *)
THEOREM TypeCorrect == Spec => []TypeOK
  BY TypeInvAlways, TypeInvImplies, PTL
-----------------------------------------------------------------------------
(* An account is never taken from who has it.                              *)
LEMMA AccountsStay ==
  ASSUME TypeInv, NEW r \in Reqs, AccountStep(r)
  PROVE  /\ \A u \in Users : account[u] # NoPassword => account'[u] = account[u]
         /\ pc'[r] = "done" => account'[form[r].user] = form[r].password
  <1>1. /\ form[r] \in Form /\ pc[r] \in AccountSteps /\ pc' = [pc EXCEPT ![r] = pc'[r]]
        /\ form[r].user \in Users /\ form[r].password \in Passwords
    <2>1. pc[r] \in AccountSteps /\ pc' \in [Reqs -> Steps] /\ \A q \in Reqs \ {r} : pc'[q] = pc[q]
      BY AccountStepType DEF PcOK
    <2>2. pc' = [pc EXCEPT ![r] = pc'[r]]
      BY <2>1 DEF TypeInv, PcOK
    <2>3. form[r] \in Form
      BY <2>1 DEF TypeInv, KindsOK, Kind
    <2> QED BY <2>1, <2>2, <2>3 DEF Form
  <1>2. \A s : Goto(r, s) => pc'[r] = s
    BY DEF Goto, TypeInv, PcOK
  <1>3. account \in [Users -> Passwords \cup {NoPassword}]
    BY DEF TypeInv, AccountsOK
  <1>4. CASE CheckEmail(r)
    <2>1. account' = account /\ pc'[r] \in {"insert", "failed"}
      BY <1>2, <1>4 DEF CheckEmail, accountVars
    <2> QED BY <2>1
  <1>5. CASE InsertUser(r)
    BY <1>1, <1>2, <1>3, <1>5 DEF InsertUser
  <1>6. CASE Login(r)
    <2>1. account' = account
      BY <1>6 DEF Login
    <2>2. pc'[r] = "done" => account[form[r].user] = form[r].password
      BY <1>2, <1>6 DEF Login
    <2> QED BY <2>1, <2>2
  <1> QED BY <1>4, <1>5, <1>6 DEF AccountStep

CreatedOf(r) ==
  pc[r] = "done" /\ form[r] # NoForm => account[form[r].user] = form[r].password

LEMMA CreatedOfNext ==
  ASSUME TypeInv, [Next]_vars, \A r \in Reqs : CreatedOf(r)
  PROVE  \A r \in Reqs : CreatedOf(r)'
  <1>1. ASSUME NEW r \in Reqs, AccountStep(r) PROVE \A q \in Reqs : CreatedOf(q)'
    <2>1. form' = form /\ \A q \in Reqs \ {r} : pc'[q] = pc[q]
      BY <1>1, AccountStepType
    <2>2. ASSUME NEW q \in Reqs, q # r, pc[q] = "done", form[q] # NoForm
          PROVE  account'[form[q].user] = form[q].password
      <3>1. account[form[q].user] = form[q].password
        BY <2>2 DEF CreatedOf
      <3>2. form[q].user \in Users /\ form[q].password # NoPassword
        BY <2>2, AccountsAssumption DEF TypeInv, AccountsOK, Form
      <3> QED BY <1>1, <3>1, <3>2, AccountsStay
    <2> QED BY <1>1, <2>1, <2>2, AccountsStay DEF CreatedOf
  <1>2. ASSUME NEW r \in Reqs, ChatStep(r), UNCHANGED accountVars
        PROVE  \A q \in Reqs : CreatedOf(q)'
    <2>1. pc[r] \in ChatSteps /\ \A q \in Reqs \ {r} : pc'[q] = pc[q]
      BY <1>2, ChatStepPc DEF TypeInv
    <2>2. form[r] = NoForm
      BY <2>1, JobAssumption DEF TypeInv, KindsOK, Kind
    <2> QED BY <1>2, <2>1, <2>2 DEF CreatedOf, accountVars
  <1>3. ASSUME NEW r \in Reqs, Arrive(r) PROVE \A q \in Reqs : CreatedOf(q)'
    <2>1. account' = account
      BY <1>3 DEF Arrive, Submit, accountVars
    <2>2. PICK step \in {"lookup", "register", "login"} : Goto(r, step)
      BY <1>3 DEF Arrive, Submit, Send
    <2>3. \A q \in Reqs \ {r} : form'[q] = form[q]
      BY <1>3 DEF Arrive, Submit, Send, accountVars, TypeInv, AccountsOK
    <2>4. pc'[r] = step /\ \A q \in Reqs \ {r} : pc'[q] = pc[q]
      BY <2>2 DEF Goto, TypeInv, PcOK
    <2> QED BY <2>1, <2>3, <2>4 DEF CreatedOf
  <1>4. CASE Elsewhere \/ UNCHANGED vars
    <2>1. UNCHANGED accountVars /\ \A q \in Reqs : pc'[q] \in {pc[q], "failed"}
      BY <1>4 DEF Elsewhere, CreateChat, Disconnect, Exit, vars, requestVars, TypeInv, PcOK
    <2> QED BY <2>1 DEF CreatedOf, accountVars
  <1> QED BY <1>1, <1>2, <1>3, <1>4 DEF Next, Step

(* Whoever is told that the account was created, or is logged in, has it   *)
(* with that password, whoever else registers the email at the time.       *)
THEOREM WhoRegistersHasTheAccount == Spec => []CreatedIsMine
  <1> DEFINE Created == \A r \in Reqs : CreatedOf(r)
  <1>1. Init => Created
    BY DEF Init, RequestsInit, CreatedOf
  <1>2. TypeInv /\ Created /\ [Next]_vars => Created'
    BY CreatedOfNext
  <1>3. Created => CreatedIsMine
    BY DEF CreatedOf, CreatedIsMine
  <1> HIDE DEF Created
  <1> QED BY <1>1, <1>2, <1>3, TypeInvAlways, PTL DEF Spec
-----------------------------------------------------------------------------
(* The order of the steps, and each step's place in it.                    *)
LEMMA Ranks ==
  /\ Rank("lookup") = 2 /\ Rank("peek") = 3 /\ Rank("ask") = 4 /\ Rank("asking") = 5
  /\ Rank("history") = 6 /\ Rank("model") = 7 /\ Rank("reply") = 8 /\ Rank("replying") = 9
  /\ Rank("touch") = 10 /\ Rank("title") = 11 /\ Rank("retitle") = 12
  /\ Rank("register") = 13 /\ Rank("insert") = 14 /\ Rank("login") = 15
  /\ Rank("done") = 16 /\ Rank("untitled") = 17 /\ Rank("failed") = 18
  <1>1. Len(Order) = 18
    BY DEF Order
  <1>2. ASSUME NEW i \in 1 .. 18, NEW s, Order[i] = s, \A j \in 1 .. 18 : j # i => Order[j] # s
        PROVE  Rank(s) = i
    BY <1>1, <1>2 DEF Rank
  <1>3. /\ Order[1] = "new" /\ Order[2] = "lookup" /\ Order[3] = "peek" /\ Order[4] = "ask"
        /\ Order[5] = "asking" /\ Order[6] = "history" /\ Order[7] = "model"
        /\ Order[8] = "reply" /\ Order[9] = "replying" /\ Order[10] = "touch"
        /\ Order[11] = "title" /\ Order[12] = "retitle" /\ Order[13] = "register"
        /\ Order[14] = "insert" /\ Order[15] = "login" /\ Order[16] = "done"
        /\ Order[17] = "untitled" /\ Order[18] = "failed"
    BY DEF Order
  <1>4. \A j \in 1 .. 18 : j = 1 \/ j = 2 \/ j = 3 \/ j = 4 \/ j = 5 \/ j = 6 \/ j = 7 \/ j = 8
          \/ j = 9 \/ j = 10 \/ j = 11 \/ j = 12 \/ j = 13 \/ j = 14 \/ j = 15 \/ j = 16 \/ j = 17
          \/ j = 18
    OBVIOUS
  <1>5. \A i, j \in 1 .. 18 : i # j => Order[i] # Order[j]
    BY <1>3, <1>4
  <1> QED BY <1>2, <1>3, <1>5

(* A stream that broke off is the only step that does not lead on.         *)
LEMMA ModelAdvances ==
  ASSUME TypeInv, NEW r \in Reqs, Generate(r), pc'[r] = "model"
  PROVE  broken'[r] = broken[r] + 1 /\ broken'[r] <= NStream
  <1>1. \A s : Goto(r, s) => s = "model"
    BY DEF Goto, TypeInv, PcOK
  <1>2. StreamBreaks(r)
    BY <1>1 DEF Generate, StreamReply, WholeReply, NoAnswer, ModelStep
  <1>3. broken[r] < NStream /\ broken' = [broken EXCEPT ![r] = broken[r] + 1]
    BY <1>2 DEF StreamBreaks, ModelStep, CanStream
  <1>4. broken'[r] = broken[r] + 1 /\ broken[r] \in Nat
    BY <1>3, EndpointAssumption DEF TypeInv, WorkOK
  <1> QED BY <1>3, <1>4, EndpointAssumption

LEMMA StepAdvances ==
  ASSUME TypeInv, NEW r \in Reqs, Step(r)
  PROVE  \/ Rank(pc'[r]) > Rank(pc[r])
         \/ pc'[r] = pc[r] /\ broken'[r] = broken[r] + 1 /\ broken'[r] <= NStream
  <1>1. \A s : Goto(r, s) => pc'[r] = s
    BY DEF Goto, TypeInv, PcOK
  <1>2. CASE ChatStep(r)
    <2>1. CASE pc[r] = "model"
      <3>1. Generate(r)
        BY <1>2, <2>1 DEF ChatStep, Lookup, Peek, Ask, Asking, Reply, Replying, BeginInsert,
                          Insert, GetHistory, Touch, MakeTitle, Retitle
      <3>2. After(r, "model", {"model", "reply", "failed"})
        BY <1>2, <2>1, ChatStepAfter DEF After
      <3>3. pc'[r] \in {"model", "reply", "failed"}
        BY <1>1, <3>2 DEF After
      <3> QED BY <2>1, <3>1, <3>3, Ranks, ModelAdvances
    <2>2. CASE pc[r] # "model"
      <3>1. \/ pc[r] = "lookup" /\ pc'[r] \in {"peek", "failed"}
            \/ pc[r] = "peek" /\ pc'[r] = "ask"
            \/ pc[r] = "ask" /\ pc'[r] \in {"asking", "failed"}
            \/ pc[r] = "asking" /\ pc'[r] \in {"history", "failed"}
            \/ pc[r] = "history" /\ pc'[r] \in {"model", "failed"}
            \/ pc[r] = "reply" /\ pc'[r] \in {"replying", "failed"}
            \/ pc[r] = "replying" /\ pc'[r] \in {"touch", "failed"}
            \/ pc[r] = "touch" /\ pc'[r] \in {"done", "title", "failed"}
            \/ pc[r] = "title" /\ pc'[r] \in {"retitle", "untitled"}
            \/ pc[r] = "retitle" /\ pc'[r] \in {"done", "untitled"}
        BY <1>1, <1>2, <2>2, ChatStepAfter DEF After
      <3> QED BY <3>1, Ranks
    <2> QED BY <2>1, <2>2
  <1>3. CASE AccountStep(r)
    <2>1. \/ pc[r] = "register" /\ pc'[r] \in {"insert", "failed"}
          \/ pc[r] = "insert" /\ pc'[r] \in {"done", "failed"}
          \/ pc[r] = "login" /\ pc'[r] \in {"done", "failed"}
      BY <1>1, <1>3 DEF AccountStep, CheckEmail, InsertUser, Login
    <2> QED BY <2>1, Ranks
  <1> QED BY <1>2, <1>3 DEF Step

(* No request goes on for ever: every step leads to a later one, or is a   *)
(* stream that broke off, of which there are no more than endpoints.       *)
THEOREM RequestsAdvance == Spec => EveryStepAdvances
  <1>1. TypeInv /\ [Next]_vars =>
          [\A r \in Reqs : Step(r) =>
             \/ Rank(pc'[r]) > Rank(pc[r])
             \/ pc'[r] = pc[r] /\ broken'[r] = broken[r] + 1 /\ broken'[r] <= NStream]_vars
    BY StepAdvances
  <1> QED BY <1>1, TypeInvAlways, PTL DEF Spec, EveryStepAdvances
-----------------------------------------------------------------------------
(* The promise of Exchange.  What a request has stored follows from where  *)
(* it is; its rows are rows of its chat.                                   *)
Before == {"new", "lookup", "peek", "ask", "asking"}
Between == {"history", "model", "reply", "replying"}
Behind == {"touch", "title", "retitle", "done", "untitled"}

Rows(r) ==
  /\ job[r] = NoJob \/ pc[r] \in Before => Stored(r, "user") = {}
  /\ job[r] = NoJob \/ pc[r] \in Before \cup Between => Stored(r, "assistant") = {}
  /\ job[r] # NoJob /\ pc[r] \in Between \cup Behind => Stored(r, "user") # {}
  /\ job[r] # NoJob /\ pc[r] \in Behind => Stored(r, "assistant") # {}

RowsInv == \A r \in Reqs : Rows(r)

(* The insertion of a row: it is of r and of that role.                    *)
LEMMA Inserted ==
  ASSUME NEW r \in Reqs, NEW from, NEW to, NEW role, NEW text, Insert(r, from, to, role, text)
  PROVE  /\ \A q, other : q # r \/ other # role => Stored(q, other)' = Stored(q, other)
         /\ \/ Stored(r, role)' = Stored(r, role) /\ Goto(r, "failed")
            \/ Stored(r, role)' # {} /\ (Goto(r, to) \/ Goto(r, "failed"))
  <1> DEFINE m == [chat |-> job[r].chat, role |-> role, text |-> text, req |-> r,
                   stamp |-> stamp[r]]
  <1>1. \/ messages' = messages /\ Goto(r, "failed")
        \/ messages' = messages \cup {m} /\ (Goto(r, to) \/ Goto(r, "failed"))
    BY DEF Insert
  <1>2. m.req = r /\ m.role = role
    OBVIOUS
  <1> HIDE DEF m
  <1> QED BY <1>1, <1>2 DEF Stored

LEMMA OnlyInsertsStore ==
  ASSUME NEW r \in Reqs, ChatStep(r), ~Asking(r), ~Replying(r)
  PROVE  UNCHANGED messages /\ pc[r] \notin {"asking", "replying"}
  BY DEF ChatStep, Lookup, Peek, Ask, Reply, BeginInsert, GetHistory, Generate, StreamReply,
         StreamBreaks, WholeReply, NoAnswer, ModelStep, Touch, MakeTitle, Retitle,
         chatVars, tableVars

(* What a step about a message does to the rows of its request.            *)
LEMMA ChatStepCases ==
  ASSUME TypeInv, NEW r \in Reqs, ChatStep(r)
  PROVE  /\ \A q \in Reqs \ {r} : \A role : Stored(q, role)' = Stored(q, role)
         /\ \/ /\ pc[r] = "asking" /\ Stored(r, "assistant")' = Stored(r, "assistant")
               /\ \/ pc'[r] = "failed" /\ Stored(r, "user")' = Stored(r, "user")
                  \/ pc'[r] \in {"history", "failed"} /\ Stored(r, "user")' # {}
            \/ /\ pc[r] = "replying" /\ Stored(r, "user")' = Stored(r, "user")
               /\ \/ pc'[r] = "failed" /\ Stored(r, "assistant")' = Stored(r, "assistant")
                  \/ pc'[r] \in {"touch", "failed"} /\ Stored(r, "assistant")' # {}
            \/ /\ \A role : Stored(r, role)' = Stored(r, role)
               /\ \/ pc[r] \in {"lookup", "peek", "ask"}
                     /\ pc'[r] \in {"peek", "ask", "asking", "failed"}
                  \/ pc[r] \in {"history", "model", "reply"}
                     /\ pc'[r] \in {"model", "reply", "replying", "failed"}
                  \/ pc[r] \in {"touch", "title", "retitle"}
                     /\ pc'[r] \in {"title", "retitle", "done", "untitled", "failed"}
  <1>1. \A s : Goto(r, s) => pc'[r] = s
    BY DEF Goto, TypeInv, PcOK
  <1>2. CASE Asking(r)
    <2>1. PICK text : Insert(r, "asking", "history", "user", text)
      BY <1>2 DEF Asking
    <2>2. pc[r] = "asking"
      BY <2>1 DEF Insert
    <2> QED BY <1>1, <2>1, <2>2, Inserted
  <1>3. CASE Replying(r)
    <2>1. PICK text : Insert(r, "replying", "touch", "assistant", text)
      BY <1>3 DEF Replying
    <2>2. pc[r] = "replying"
      BY <2>1 DEF Insert
    <2> QED BY <1>1, <2>1, <2>2, Inserted
  <1>4. CASE ~Asking(r) /\ ~Replying(r)
    <2>1. UNCHANGED messages /\ pc[r] \notin {"asking", "replying"}
      BY <1>4, OnlyInsertsStore
    <2>2. \A q, role : Stored(q, role)' = Stored(q, role)
      BY <2>1 DEF Stored
    <2>3. \/ pc[r] \in {"lookup", "peek", "ask"}
             /\ pc'[r] \in {"peek", "ask", "asking", "failed"}
          \/ pc[r] \in {"history", "model", "reply"}
             /\ pc'[r] \in {"model", "reply", "replying", "failed"}
          \/ pc[r] \in {"touch", "title", "retitle"}
             /\ pc'[r] \in {"title", "retitle", "done", "untitled", "failed"}
      BY <1>1, <2>1, ChatStepAfter DEF After
    <2> QED BY <2>2, <2>3
  <1> QED BY <1>2, <1>3, <1>4

(* What happens to the rows and the jobs otherwise: nothing, but that a    *)
(* request arrives or that all that are open fail.                         *)
LEMMA OtherCases ==
  ASSUME TypeInv, [Next]_vars, \A r \in Reqs : ~(ChatStep(r) /\ UNCHANGED accountVars)
  PROVE  /\ \A q, role : Stored(q, role)' = Stored(q, role)
         /\ \/ Exit /\ UNCHANGED job
            \/ \A q \in Reqs :
                 \/ job'[q] = job[q] /\ (pc'[q] = pc[q] \/ job[q] = NoJob)
                 \/ pc[q] = "new" /\ pc'[q] = "lookup" /\ job'[q] # NoJob
  <1>1. UNCHANGED messages
    BY DEF Next, vars, Step, Elsewhere, Arrive, CreateChat, Send, Submit, chatVars, tableVars
  <1>2. \A q, role : Stored(q, role)' = Stored(q, role)
    BY <1>1 DEF Stored
  <1>3. ASSUME NEW r \in Reqs, AccountStep(r), UNCHANGED chatVars
        PROVE  \A q \in Reqs : job'[q] = job[q] /\ (pc'[q] = pc[q] \/ job[q] = NoJob)
    <2>1. pc[r] \in AccountSteps /\ \A q \in Reqs \ {r} : pc'[q] = pc[q]
      BY <1>3, AccountStepType
    <2>2. job[r] = NoJob
      BY <2>1, NoFormIsNone DEF TypeInv, KindsOK, Kind
    <2> QED BY <1>3, <2>1, <2>2 DEF chatVars
  <1>4. ASSUME NEW r \in Reqs, Arrive(r)
        PROVE  \A q \in Reqs : \/ job'[q] = job[q] /\ (pc'[q] = pc[q] \/ job[q] = NoJob)
                               \/ pc[q] = "new" /\ pc'[q] = "lookup" /\ job'[q] # NoJob
    <2>1. pc[r] = "new" /\ job[r] = NoJob
      BY <1>4 DEF Arrive, Arrives, TypeInv, KindsOK, Kind
    <2>2. ASSUME NEW j \in Job, Send(r, j)
          PROVE  /\ pc'[r] = "lookup" /\ job'[r] = j /\ j # NoJob
                 /\ \A q \in Reqs \ {r} : pc'[q] = pc[q] /\ job'[q] = job[q]
      BY <2>2, JobAssumption DEF Send, Goto, TypeInv, PcOK, WorkOK
    <2>3. ASSUME NEW f, NEW step, Submit(r, step, f), UNCHANGED chatVars
          PROVE  job' = job /\ \A q \in Reqs \ {r} : pc'[q] = pc[q]
      BY <2>3 DEF Submit, Goto, TypeInv, PcOK, chatVars
    <2> QED BY <1>4, <2>1, <2>2, <2>3 DEF Arrive
  <1>5. CASE Exit /\ UNCHANGED <<chatVars, accountVars>>
    BY <1>2, <1>5 DEF chatVars
  <1>6. CASE \/ UNCHANGED vars
             \/ \E u \in tokens, c \in Chats : CreateChat(u, c)
             \/ \E r \in Reqs : Disconnect(r) /\ UNCHANGED chatVars
    <2>1. job' = job /\ pc' = pc
      BY <1>6 DEF vars, requestVars, chatVars, CreateChat, Disconnect
    <2> QED BY <1>2, <2>1
  <1>7. \/ \E r \in Reqs : (AccountStep(r) /\ UNCHANGED chatVars) \/ Arrive(r)
        \/ Exit /\ UNCHANGED <<chatVars, accountVars>>
        \/ UNCHANGED vars
        \/ \E u \in tokens, c \in Chats : CreateChat(u, c)
        \/ \E r \in Reqs : Disconnect(r) /\ UNCHANGED chatVars
    BY DEF Next, Step, Elsewhere
  <1>8. CASE \E r \in Reqs : (AccountStep(r) /\ UNCHANGED chatVars) \/ Arrive(r)
    BY <1>2, <1>3, <1>4, <1>8
  <1> QED BY <1>5, <1>6, <1>7, <1>8

LEMMA RowsInvNext ==
  ASSUME TypeInv, RowsInv, [Next]_vars
  PROVE  RowsInv'
  <1>1. ASSUME NEW r \in Reqs, ChatStep(r), UNCHANGED accountVars PROVE RowsInv'
    <2>1. job' = job /\ \A q \in Reqs \ {r} : pc'[q] = pc[q]
      BY <1>1, ChatStepPc DEF TypeInv
    <2>2. job[r] # NoJob
      BY <1>1, ChatStepPc, JobAssumption DEF TypeInv, KindsOK, Kind
    <2>3. \A q \in Reqs \ {r} : Rows(q)'
      BY <1>1, <2>1, ChatStepCases DEF RowsInv, Rows
    <2>4. Rows(r)'
      BY <1>1, <2>1, <2>2, ChatStepCases DEF RowsInv, Rows, Before, Between, Behind
    <2> QED BY <2>3, <2>4 DEF RowsInv
  <1>2. CASE \A r \in Reqs : ~(ChatStep(r) /\ UNCHANGED accountVars)
    <2>1. CASE Exit /\ UNCHANGED job
      <3>1. \A q \in Reqs : pc'[q] \in {pc[q], "failed"}
        BY <2>1 DEF Exit, TypeInv, PcOK
      <3> QED BY <1>2, <2>1, <3>1, OtherCases DEF RowsInv, Rows, Before, Between, Behind
    <2>2. CASE \A q \in Reqs :
                 \/ job'[q] = job[q] /\ (pc'[q] = pc[q] \/ job[q] = NoJob)
                 \/ pc[q] = "new" /\ pc'[q] = "lookup" /\ job'[q] # NoJob
      <3>1. \A q, role : Stored(q, role)' = Stored(q, role)
        BY <1>2, OtherCases
      <3> QED BY <2>2, <3>1 DEF RowsInv, Rows, Before, Between, Behind
    <2> QED BY <1>2, <2>1, <2>2, OtherCases
  <1> QED BY <1>1, <1>2

(* The state of Exchange that a state of Backend stands for.               *)
AskedBy == {r \in Reqs : Stored(r, "user") # {}}
AnsweredFor == {r \in Reqs : Stored(r, "assistant") # {}}
ResultAt(r) ==
  IF job[r] = NoJob \/ Open(r) \/ pc[r] = "new" THEN "open"
  ELSE IF Succeeded(r) THEN "succeeded" ELSE "failed"
ResultOf == [r \in Reqs |-> ResultAt(r)]

LEMMA ResultChanges ==
  ASSUME NEW r \in Reqs, \A q \in Reqs \ {r} : ResultAt(q)' = ResultAt(q)
  PROVE  /\ ResultAt(r)' = ResultAt(r) => ResultOf' = ResultOf
         /\ \A how : ResultAt(r)' = how => ResultOf' = [ResultOf EXCEPT ![r] = how]
         /\ ResultAt(r)' = "failed" =>
              ResultOf' = [q \in Reqs |-> IF q \in {r} THEN "failed" ELSE ResultOf[q]]
  BY DEF ResultOf

LEMMA PromiseNext ==
  ASSUME TypeInv, RowsInv, [Next]_vars
  PROVE  [Promise!Next]_Promise!vars
  <1> DEFINE AskRow(r) ==
               /\ ResultOf[r] = "open" /\ r \notin AskedBy /\ AskedBy' = AskedBy \cup {r}
               /\ ResultOf' = [ResultOf EXCEPT ![r] = "failed"] \/ ResultOf' = ResultOf
               /\ AnsweredFor' = AnsweredFor
             AnswerRow(r) ==
               /\ ResultOf[r] = "open" /\ r \in AskedBy \ AnsweredFor
               /\ AnsweredFor' = AnsweredFor \cup {r}
               /\ ResultOf' = [ResultOf EXCEPT ![r] = "failed"] \/ ResultOf' = ResultOf
               /\ AskedBy' = AskedBy
             EndWell(r) ==
               /\ ResultOf[r] = "open" /\ r \in AnsweredFor
               /\ ResultOf' = [ResultOf EXCEPT ![r] = "succeeded"]
               /\ AskedBy' = AskedBy /\ AnsweredFor' = AnsweredFor
             EndBadly(S) ==
               /\ \A r \in S : ResultOf[r] = "open"
               /\ ResultOf' = [r \in Reqs |-> IF r \in S THEN "failed" ELSE ResultOf[r]]
               /\ AskedBy' = AskedBy /\ AnsweredFor' = AnsweredFor
             Stutter ==
               ResultOf' = ResultOf /\ AskedBy' = AskedBy /\ AnsweredFor' = AnsweredFor
  <1>1. SUFFICES \/ \E r \in Reqs : AskRow(r) \/ AnswerRow(r) \/ EndWell(r)
                 \/ \E S \in SUBSET Reqs : EndBadly(S)
                 \/ Stutter
    BY DEF Promise!Next, Promise!Ask, Promise!Answer, Promise!Succeed, Promise!Fail, Promise!End,
           Promise!vars, ResultOf, ResultAt, AskedBy, AnsweredFor
  <1>2. ASSUME NEW r \in Reqs, ChatStep(r), UNCHANGED accountVars
        PROVE  AskRow(r) \/ AnswerRow(r) \/ EndWell(r) \/ EndBadly({r}) \/ Stutter
    <2>1. job' = job /\ \A q \in Reqs \ {r} : pc'[q] = pc[q]
      BY <1>2, ChatStepPc DEF TypeInv
    <2>2. job[r] # NoJob /\ pc[r] \in ChatSteps
      BY <1>2, ChatStepPc, JobAssumption DEF TypeInv, KindsOK, Kind
    <2>3. /\ \A q \in Reqs \ {r} : ResultAt(q)' = ResultAt(q)
          /\ \A q \in Reqs \ {r} : \A role : Stored(q, role)' = Stored(q, role)
      BY <1>2, <2>1, ChatStepCases DEF ResultAt, Open, Succeeded
    <2>4. /\ ResultAt(r)' = ResultAt(r) => ResultOf' = ResultOf
          /\ \A how : ResultAt(r)' = how => ResultOf' = [ResultOf EXCEPT ![r] = how]
          /\ ResultAt(r)' = "failed" =>
               ResultOf' = [q \in Reqs |-> IF q \in {r} THEN "failed" ELSE ResultOf[q]]
      BY <2>3, ResultChanges
    <2>5. /\ ResultOf[r] = "open" /\ ResultAt(r) = "open"
          /\ pc'[r] = "failed" => ResultAt(r)' = "failed"
          /\ pc'[r] \in {"done", "untitled"} => ResultAt(r)' = "succeeded"
          /\ pc'[r] \in ChatSteps => ResultAt(r)' = "open"
      BY <2>1, <2>2 DEF ResultOf, ResultAt, Open, Succeeded, ChatSteps, Ended
    <2>6. CASE pc[r] = "asking"
      <3>1. r \notin AskedBy /\ r \notin AnsweredFor
        BY <2>6 DEF RowsInv, Rows, Before, AskedBy, AnsweredFor
      <3>2. /\ Stored(r, "assistant")' = Stored(r, "assistant")
            /\ \/ pc'[r] = "failed" /\ Stored(r, "user")' = Stored(r, "user")
               \/ pc'[r] \in {"history", "failed"} /\ Stored(r, "user")' # {}
        BY <1>2, <2>6, ChatStepCases
      <3>3. AnsweredFor' = AnsweredFor
        BY <2>3, <3>2 DEF AnsweredFor
      <3>4. CASE pc'[r] = "failed" /\ Stored(r, "user")' = Stored(r, "user")
        <4>1. AskedBy' = AskedBy
          BY <2>3, <3>4 DEF AskedBy
        <4>2. EndBadly({r})
          BY <2>4, <2>5, <3>3, <3>4, <4>1
        <4> QED BY <4>2
      <3>5. CASE pc'[r] \in {"history", "failed"} /\ Stored(r, "user")' # {}
        <4>1. AskedBy' = AskedBy \cup {r}
          BY <2>3, <3>5 DEF AskedBy
        <4>2. AskRow(r)
          BY <2>4, <2>5, <3>1, <3>3, <3>5, <4>1 DEF ChatSteps
        <4> QED BY <4>2
      <3> QED BY <3>2, <3>4, <3>5
    <2>7. CASE pc[r] = "replying"
      <3>1. r \in AskedBy /\ r \notin AnsweredFor
        BY <2>2, <2>7 DEF RowsInv, Rows, Between, AskedBy, AnsweredFor
      <3>2. /\ Stored(r, "user")' = Stored(r, "user")
            /\ \/ pc'[r] = "failed" /\ Stored(r, "assistant")' = Stored(r, "assistant")
               \/ pc'[r] \in {"touch", "failed"} /\ Stored(r, "assistant")' # {}
        BY <1>2, <2>7, ChatStepCases
      <3>3. AskedBy' = AskedBy
        BY <2>3, <3>2 DEF AskedBy
      <3>4. CASE pc'[r] = "failed" /\ Stored(r, "assistant")' = Stored(r, "assistant")
        <4>1. AnsweredFor' = AnsweredFor
          BY <2>3, <3>4 DEF AnsweredFor
        <4>2. EndBadly({r})
          BY <2>4, <2>5, <3>3, <3>4, <4>1
        <4> QED BY <4>2
      <3>5. CASE pc'[r] \in {"touch", "failed"} /\ Stored(r, "assistant")' # {}
        <4>1. AnsweredFor' = AnsweredFor \cup {r}
          BY <2>3, <3>5 DEF AnsweredFor
        <4>2. AnswerRow(r)
          BY <2>4, <2>5, <3>1, <3>3, <3>5, <4>1 DEF ChatSteps
        <4> QED BY <4>2
      <3> QED BY <3>2, <3>4, <3>5
    <2>8. CASE pc[r] \notin {"asking", "replying"}
      <3>1. /\ \A role : Stored(r, role)' = Stored(r, role)
            /\ \/ pc'[r] \in ChatSteps \cup {"failed"}
               \/ pc[r] \in Behind /\ pc'[r] \in {"done", "untitled"}
        BY <1>2, <2>8, ChatStepCases DEF Behind, ChatSteps
      <3>2. AskedBy' = AskedBy /\ AnsweredFor' = AnsweredFor
        BY <2>3, <3>1 DEF AskedBy, AnsweredFor
      <3>3. CASE pc'[r] \in ChatSteps
        <4>1. Stutter
          BY <2>4, <2>5, <3>2, <3>3
        <4> QED BY <4>1
      <3>4. CASE pc'[r] = "failed"
        <4>1. EndBadly({r})
          BY <2>4, <2>5, <3>2, <3>4
        <4> QED BY <4>1
      <3>5. CASE pc[r] \in Behind /\ pc'[r] \in {"done", "untitled"}
        <4>1. r \in AnsweredFor
          BY <2>2, <3>5 DEF RowsInv, Rows, AnsweredFor
        <4>2. EndWell(r)
          BY <2>4, <2>5, <3>2, <3>5, <4>1
        <4> QED BY <4>2
      <3> QED BY <3>1, <3>3, <3>4, <3>5
    <2> QED BY <2>6, <2>7, <2>8
  <1>3. CASE \A r \in Reqs : ~(ChatStep(r) /\ UNCHANGED accountVars)
    <2>1. AskedBy' = AskedBy /\ AnsweredFor' = AnsweredFor
      BY <1>3, OtherCases DEF AskedBy, AnsweredFor
    <2>2. CASE Exit /\ UNCHANGED job
      <3> DEFINE S == {r \in Reqs : Open(r) /\ job[r] # NoJob}
      <3>1. \A r \in S : ResultOf[r] = "open"
        BY DEF ResultOf, ResultAt
      <3>2. ResultOf' = [r \in Reqs |-> IF r \in S THEN "failed" ELSE ResultOf[r]]
        <4>1. ASSUME NEW r \in Reqs
              PROVE  ResultAt(r)' = IF r \in S THEN "failed" ELSE ResultOf[r]
          <5>1. pc'[r] = IF Open(r) THEN "failed" ELSE pc[r]
            BY <2>2 DEF Exit
          <5> QED BY <2>2, <5>1 DEF ResultOf, ResultAt, Open, Succeeded, Ended
        <4> HIDE DEF S
        <4> QED BY <4>1 DEF ResultOf
      <3>3. EndBadly(S)
        BY <2>1, <3>1, <3>2
      <3>4. S \in SUBSET Reqs
        OBVIOUS
      <3> HIDE DEF S, EndBadly
      <3> QED BY <3>3, <3>4
    <2>3. CASE \A q \in Reqs :
                 \/ job'[q] = job[q] /\ (pc'[q] = pc[q] \/ job[q] = NoJob)
                 \/ pc[q] = "new" /\ pc'[q] = "lookup" /\ job'[q] # NoJob
      <3>1. \A q \in Reqs : ResultAt(q)' = ResultAt(q)
        BY <2>3 DEF ResultAt, Open, Succeeded, Ended
      <3>2. Stutter
        BY <2>1, <3>1 DEF ResultOf
      <3> QED BY <3>2
    <2> QED BY <1>3, <2>2, <2>3, OtherCases
  <1> HIDE DEF AskRow, AnswerRow, EndWell, EndBadly, Stutter
  <1>4. \A r \in Reqs : EndBadly({r}) => \E S \in SUBSET Reqs : EndBadly(S)
    OBVIOUS
  <1> QED BY <1>2, <1>3, <1>4

(* The chat keeps the promise of Exchange: whatever requests there are, a  *)
(* question and its answer are stored at most once and in this order, and  *)
(* nobody is told of an answer that is not stored.                         *)
THEOREM PromiseIsKept == Spec => KeepsPromise
  <1>1. Init => RowsInv
    BY DEF Init, RequestsInit, ChatInit, RowsInv, Rows, Stored, Between, Behind
  <1>2. Init => Promise!Init
    BY DEF Init, RequestsInit, ChatInit, Promise!Init, Stored
  <1>3. TypeInv /\ RowsInv /\ [Next]_vars => RowsInv' /\ [Promise!Next]_Promise!vars
    BY RowsInvNext, PromiseNext
  <1> QED BY <1>1, <1>2, <1>3, TypeInvAlways, PTL DEF Spec, KeepsPromise, Promise!Spec
-----------------------------------------------------------------------------
(* Who gives a chat its title: a request that found the chat without a     *)
(* message.  Once there is one, there is such a request behind its Peek.   *)
Early == {"new", "lookup", "peek", "ask"}

TitleOf(r) ==
  /\ job[r] # NoJob /\ pc[r] \in {"peek", "ask", "asking"} \cup Between \cup Behind =>
       owner[job[r].chat] = job[r].user
  /\ had[r] => job[r] # NoJob /\ InChat(job[r].chat) # {}
  /\ job[r] # NoJob /\ pc[r] = "done" => had[r] \/ job[r].chat \in titled
RowOf(m) == m.req \in Reqs /\ job[m.req] # NoJob /\ job[m.req].chat = m.chat
FirstOf(r, c) ==
  /\ job[r] # NoJob /\ job[r].chat = c /\ job[r].user = owner[c]
  /\ ~had[r] /\ pc[r] \notin Early

TitleInv ==
  /\ \A r \in Reqs : TitleOf(r)
  /\ \A m \in messages : RowOf(m)
  /\ \A c \in Chats : InChat(c) # {} => \E r \in Reqs : FirstOf(r, c)

LEMMA ChatStepTitles ==
  ASSUME TypeInv, NEW r \in Reqs, ChatStep(r)
  PROVE  /\ owner' = owner /\ titled \subseteq titled' /\ messages \subseteq messages'
         /\ \A m \in messages' : m \notin messages =>
              m.req = r /\ m.chat = job[r].chat /\ pc[r] \in {"asking", "replying"}
         /\ \A q \in Reqs \ {r} : had'[q] = had[q]
         /\ pc[r] # "peek" => had'[r] = had[r]
         /\ had'[r] => had[r] \/ InChat(job[r].chat) # {}
         /\ pc[r] = "lookup" => pc'[r] = "failed" \/ owner[job[r].chat] = job[r].user
         /\ pc'[r] = "done" => had'[r] \/ job[r].chat \in titled'
  <1>1. \A s : Goto(r, s) => pc'[r] = s
    BY DEF Goto, TypeInv, PcOK
  <1>2. \/ pc[r] = "touch" \/ pc[r] = "retitle" \/ pc'[r] # "done"
    BY <1>1, ChatStepAfter DEF After
  <1>3. CASE Lookup(r)
    BY <1>1, <1>2, <1>3 DEF Lookup, chatVars, tableVars, workVars
  <1>4. CASE Peek(r)
    BY <1>1, <1>2, <1>4 DEF Peek, tableVars, TypeInv, WorkOK
  <1>5. CASE Ask(r) \/ Reply(r)
    BY <1>1, <1>2, <1>5 DEF Ask, Reply, BeginInsert
  <1>6. ASSUME NEW from \in {"asking", "replying"}, NEW to, NEW role, NEW text,
               Insert(r, from, to, role, text)
        PROVE  /\ messages \subseteq messages' /\ UNCHANGED <<owner, titled, had>> /\ pc[r] = from
               /\ \A m \in messages' : m \notin messages => m.req = r /\ m.chat = job[r].chat
    <2> DEFINE m == [chat |-> job[r].chat, role |-> role, text |-> text, req |-> r,
                     stamp |-> stamp[r]]
    <2>1. messages' \in {messages, messages \cup {m}}
      BY <1>6 DEF Insert
    <2>2. m.req = r /\ m.chat = job[r].chat
      OBVIOUS
    <2> HIDE DEF m
    <2> QED BY <1>6, <2>1, <2>2 DEF Insert
  <1>7. CASE Asking(r) \/ Replying(r)
    <2>1. PICK from \in {"asking", "replying"} : \E to, role, text : Insert(r, from, to, role, text)
      BY <1>7 DEF Asking, Replying
    <2> QED BY <1>2, <1>6, <2>1
  <1>8. CASE GetHistory(r) \/ Generate(r)
    BY <1>1, <1>2, <1>8 DEF GetHistory, Generate, StreamReply, StreamBreaks, WholeReply,
                            NoAnswer, ModelStep, tableVars
  <1>9. CASE Touch(r) \/ MakeTitle(r)
    BY <1>1, <1>2, <1>9 DEF Touch, MakeTitle, chatVars, tableVars, workVars
  <1>10. CASE Retitle(r)
    BY <1>1, <1>10 DEF Retitle, workVars
  <1> QED BY <1>3, <1>4, <1>5, <1>7, <1>8, <1>9, <1>10 DEF ChatStep

LEMMA OtherTitles ==
  ASSUME TypeInv, [Next]_vars, \A r \in Reqs : ~(ChatStep(r) /\ UNCHANGED accountVars)
  PROVE  /\ UNCHANGED <<titled, messages, had>>
         /\ \A c \in Chats : owner[c] # NoUser => owner'[c] = owner[c]
  <1>1. CASE \E u \in tokens, c \in Chats : CreateChat(u, c)
    BY <1>1 DEF CreateChat, workVars, TypeInv, TablesOK
  <1>2. CASE UNCHANGED <<tableVars, workVars>>
    BY <1>2 DEF tableVars, workVars
  <1>3. \/ \E u \in tokens, c \in Chats : CreateChat(u, c)
        \/ UNCHANGED <<tableVars, workVars>>
    BY DEF Next, vars, Step, Elsewhere, Arrive, Send, Submit, chatVars
  <1> QED BY <1>1, <1>2, <1>3

LEMMA TitleInvNext ==
  ASSUME TypeInv, TitleInv, [Next]_vars
  PROVE  TitleInv'
  <1>1. ASSUME NEW r \in Reqs, job[r] # NoJob
        PROVE  job[r].chat \in Chats /\ job[r].user \in Users /\ job[r].user # NoUser
    BY <1>1, ChatAssumption DEF TypeInv, WorkOK, Job
  <1>2. \A m \in messages : m.chat \in Chats
    BY DEF TypeInv, TablesOK, Message
  <1>3. ASSUME NEW r \in Reqs, ChatStep(r), UNCHANGED accountVars PROVE TitleInv'
    <2>1. /\ job' = job /\ pc[r] \in ChatSteps /\ pc'[r] \in ChatSteps \cup Ended
          /\ \A q \in Reqs \ {r} : pc'[q] = pc[q]
      BY <1>3, ChatStepPc DEF TypeInv
    <2>2. job[r] # NoJob
      BY <2>1, JobAssumption DEF TypeInv, KindsOK, Kind
    <2>3. /\ owner' = owner /\ titled \subseteq titled' /\ messages \subseteq messages'
          /\ \A m \in messages' : m \notin messages =>
               m.req = r /\ m.chat = job[r].chat /\ pc[r] \in {"asking", "replying"}
          /\ \A q \in Reqs \ {r} : had'[q] = had[q]
          /\ pc[r] # "peek" => had'[r] = had[r]
          /\ had'[r] => had[r] \/ InChat(job[r].chat) # {}
          /\ pc[r] = "lookup" => pc'[r] = "failed" \/ owner[job[r].chat] = job[r].user
          /\ pc'[r] = "done" => had'[r] \/ job[r].chat \in titled'
      BY <1>3, ChatStepTitles
    <2>4. \A c : InChat(c) # {} => InChat(c)' # {}
      BY <2>3 DEF InChat
    <2>5. \A q \in Reqs \ {r} : TitleOf(q)'
      BY <2>1, <2>3, <2>4 DEF TitleInv, TitleOf
    <2>6. TitleOf(r)'
      <3>1. pc[r] # "lookup" => owner[job[r].chat] = job[r].user
        BY <2>1, <2>2 DEF TitleInv, TitleOf, ChatSteps, Between, Behind
      <3>2. pc'[r] # "failed" => owner'[job'[r].chat] = job'[r].user
        BY <2>1, <2>3, <3>1
      <3>3. had'[r] => InChat(job[r].chat) # {}
        BY <2>3 DEF TitleInv, TitleOf
      <3> QED BY <2>1, <2>2, <2>3, <2>4, <3>2, <3>3 DEF TitleOf, Between, Behind
    <2>7. \A m \in messages' : RowOf(m)'
      BY <2>1, <2>2, <2>3 DEF TitleInv, RowOf
    <2>8. \A q \in Reqs, c \in Chats : FirstOf(q, c) => FirstOf(q, c)'
      <3>1. pc[r] \notin Early => pc'[r] \notin Early /\ pc[r] # "peek"
        BY <1>3, <2>1, ChatStepCases DEF Early
      <3> QED BY <2>1, <2>3, <3>1 DEF FirstOf
    <2>9. ASSUME NEW c \in Chats, InChat(c)' # {} PROVE \E q \in Reqs : FirstOf(q, c)'
      <3>1. CASE InChat(c) # {}
        BY <2>8, <3>1 DEF TitleInv
      <3>2. CASE InChat(c) = {}
        <4>1. PICK m \in messages' : m.chat = c /\ m \notin messages
          BY <2>9, <3>2 DEF InChat
        <4>2. job[r].chat = c /\ pc[r] \in {"asking", "replying"}
          BY <2>3, <4>1
        <4>3. ~had'[r]
          BY <2>3, <3>2, <4>2 DEF TitleInv, TitleOf
        <4>4. owner[c] = job[r].user
          BY <2>2, <4>2 DEF TitleInv, TitleOf, Between
        <4>5. pc'[r] \notin Early
          BY <1>3, <4>2, ChatStepCases DEF Early
        <4> QED BY <2>1, <2>2, <2>3, <4>2, <4>3, <4>4, <4>5 DEF FirstOf
      <3> QED BY <3>1, <3>2
    <2> QED BY <2>5, <2>6, <2>7, <2>9 DEF TitleInv
  <1>4. CASE \A r \in Reqs : ~(ChatStep(r) /\ UNCHANGED accountVars)
    <2>1. /\ UNCHANGED <<titled, messages, had>>
          /\ \A c \in Chats : owner[c] # NoUser => owner'[c] = owner[c]
      BY <1>4, OtherTitles
    <2>2. \A c : InChat(c)' = InChat(c)
      BY <2>1 DEF InChat
    <2>3. ASSUME \A q \in Reqs : job[q] # NoJob => job'[q] = job[q] /\ pc'[q] \in {pc[q], "failed"},
                 \A q \in Reqs : job[q] = NoJob /\ job'[q] # NoJob => pc'[q] = "lookup"
          PROVE  TitleInv'
      <3>1. \A q \in Reqs : TitleOf(q)'
        <4>1. ASSUME NEW q \in Reqs, job[q] # NoJob PROVE TitleOf(q)'
          <5>1. pc[q] \in {"peek", "ask", "asking"} \cup Between \cup Behind =>
                  owner'[job[q].chat] = job[q].user
            BY <1>1, <2>1, <4>1 DEF TitleInv, TitleOf
          <5>2. job'[q] = job[q] /\ (pc'[q] = pc[q] \/ pc'[q] = "failed")
            BY <2>3, <4>1
          <5> QED BY <2>1, <2>2, <4>1, <5>1, <5>2 DEF TitleInv, TitleOf, Between, Behind
        <4>2. ASSUME NEW q \in Reqs, job[q] = NoJob PROVE TitleOf(q)'
          BY <2>1, <2>3, <4>2 DEF TitleInv, TitleOf, Between, Behind
        <4> QED BY <4>1, <4>2
      <3>2. \A m \in messages' : RowOf(m)'
        BY <2>1, <2>3 DEF TitleInv, RowOf
      <3>3. ASSUME NEW c \in Chats, NEW q \in Reqs, FirstOf(q, c) PROVE FirstOf(q, c)'
        <4>1. owner'[c] = owner[c]
          BY <1>1, <2>1, <3>3 DEF FirstOf
        <4> QED BY <2>1, <2>3, <3>3, <4>1 DEF FirstOf, Early
      <3>4. \A c \in Chats : InChat(c)' # {} => \E q \in Reqs : FirstOf(q, c)'
        BY <2>2, <3>3 DEF TitleInv
      <3> QED BY <3>1, <3>2, <3>4 DEF TitleInv
    <2>4. CASE Exit /\ UNCHANGED job
      <3>1. \A q \in Reqs : pc'[q] \in {pc[q], "failed"}
        BY <2>4 DEF Exit, TypeInv, PcOK
      <3> QED BY <2>3, <2>4, <3>1
    <2>5. CASE \A q \in Reqs :
                 \/ job'[q] = job[q] /\ (pc'[q] = pc[q] \/ job[q] = NoJob)
                 \/ pc[q] = "new" /\ pc'[q] = "lookup" /\ job'[q] # NoJob
      <3>1. \A q \in Reqs : pc[q] = "new" => job[q] = NoJob
        BY DEF TypeInv, KindsOK, Kind
      <3> QED BY <2>3, <2>5, <3>1
    <2> QED BY <1>4, <2>4, <2>5, OtherCases
  <1> QED BY <1>3, <1>4

(* Of the requests of a chat that all were answered and titled the chat    *)
(* for as far as they had to, one did.                                     *)
LEMMA TitleInvImplies ==
  ASSUME TypeInv, RowsInv, TitleInv
  PROVE  UntitledOnlyAfterTrouble
  <1> SUFFICES ASSUME NEW c \in Chats,
                      NEW rs, rs = {r \in Reqs : /\ job[r] # NoJob /\ job[r].chat = c
                                                 /\ job[r].user = owner[c]},
                      rs # {}, \A r \in rs : ~Open(r), \A r \in rs : ~Trouble(r)
               PROVE  c \in titled
    BY DEF UntitledOnlyAfterTrouble
  <1>1. \A r \in rs : pc[r] = "done"
    BY DEF TypeInv, PcOK, KindsOK, Kind, Steps, Ended, Open, Trouble
  <1>2. PICK q \in rs : Stored(q, "user") # {}
    BY <1>1 DEF RowsInv, Rows, Behind
  <1>3. PICK m \in messages : m.req = q
    BY <1>2 DEF Stored
  <1>4. m \in InChat(c)
    BY <1>3 DEF InChat, TitleInv, RowOf
  <1>5. PICK r \in Reqs : FirstOf(r, c)
    BY <1>4 DEF TitleInv
  <1>6. r \in rs /\ ~had[r]
    BY <1>5 DEF FirstOf
  <1> QED BY <1>1, <1>6 DEF TitleInv, TitleOf

(* However the first messages of a chat overlap, one of them gives it its  *)
(* title, unless one of its requests fails or loses its client.            *)
THEOREM TitleIsNotForgotten == Spec => []UntitledOnlyAfterTrouble
  <1>1. Init => RowsInv /\ TitleInv
    BY DEF Init, RequestsInit, ChatInit, RowsInv, Rows, Stored, Between, Behind,
           TitleInv, TitleOf, InChat
  <1>2. TypeInv /\ RowsInv /\ TitleInv /\ [Next]_vars => RowsInv' /\ TitleInv'
    BY RowsInvNext, TitleInvNext
  <1> QED BY <1>1, <1>2, TypeInvAlways, TitleInvImplies, PTL DEF Spec
-----------------------------------------------------------------------------
(* The tokens of an answer are those of one attempt, and were sent last.   *)
LEMMA SuffixOfConcat ==
  ASSUME NEW S, NEW s \in Seq(S), NEW t \in Seq(S)
  PROVE  IsSuffix(t, s \o t)
  <1> DEFINE u == s \o t
  <1>1. u \in Seq(S) /\ Len(u) = Len(s) + Len(t) /\ Len(s) \in Nat /\ Len(t) \in Nat
    OBVIOUS
  <1>2. \A i \in 1 .. Len(t) : u[Len(u) - i + 1] = t[Len(t) - i + 1]
    <2>1. ASSUME NEW i \in 1 .. Len(t) PROVE u[Len(s) + (Len(t) - i + 1)] = t[Len(t) - i + 1]
      <3>1. Len(t) - i + 1 \in 1 .. Len(t)
        BY <1>1
      <3> QED BY <3>1
    <2>2. \A i \in 1 .. Len(t) : Len(s) + (Len(t) - i + 1) = Len(u) - i + 1
      BY <1>1
    <2> QED BY <2>1, <2>2
  <1> HIDE DEF u
  <1>3. Reverse(t) \in Seq(S) /\ Len(Reverse(t)) = Len(t)
    <2>1. \A i \in 1 .. Len(t) : Len(t) - i + 1 \in 1 .. Len(t)
      BY <1>1
    <2> QED BY <2>1 DEF Reverse
  <1>4. Reverse(u) \in Seq(S) /\ Len(Reverse(u)) = Len(u)
    <2>1. \A i \in 1 .. Len(u) : Len(u) - i + 1 \in 1 .. Len(u)
      BY <1>1
    <2> QED BY <1>1, <2>1 DEF Reverse
  <1>5. \A i \in 1 .. Len(t) : Reverse(t)[i] = Reverse(u)[i]
    BY <1>1, <1>2 DEF Reverse
  <1>6. SubSeq(Reverse(t), 1, Len(t)) = SubSeq(Reverse(u), 1, Len(t))
    BY <1>1, <1>3, <1>4, <1>5
  <1>7. IsSuffix(t, u)
    BY <1>1, <1>3, <1>4, <1>6 DEF IsSuffix, IsPrefix
  <1> QED BY <1>7 DEF u

SameToken(text) == \A j, k \in 1 .. Len(text) : text[j] = text[k]

AnswerOf(r) ==
  /\ pc[r] \in {"reply", "replying"} /\ job[r].kind = "stream" => IsSuffix(reply[r], sent[r])
  /\ SameToken(reply[r])

AnswerInv ==
  /\ \A r \in Reqs : AnswerOf(r)
  /\ \A m \in messages : m.role = "assistant" => SameToken(m.text)

LEMMA ReplyOfOneAttempt ==
  ASSUME TypeInv, NEW r \in Reqs, NEW a \in Attempt, NEW n \in 0 .. MaxToken,
         NEW k \in {0, n}, ModelStep(r, a, k, "reply", Repeat(a, n)),
         job[r].kind = "stream" => k = n
  PROVE  AnswerOf(r)'
  <1>1. reply'[r] = Repeat(a, n) /\ SameToken(Repeat(a, n))
    BY RepeatType DEF ModelStep, TypeInv, WorkOK, SameToken, Repeat
  <1>2. job' = job
    BY DEF ModelStep
  <1>3. ASSUME k = n PROVE IsSuffix(reply'[r], sent'[r])
    <2>1. sent'[r] = sent[r] \o Repeat(a, n)
      BY <1>3 DEF ModelStep, TypeInv, WorkOK
    <2>2. sent[r] \in Seq(Attempt) /\ Repeat(a, n) \in Seq(Attempt)
      BY RepeatType DEF TypeInv, WorkOK
    <2> QED BY <1>1, <2>1, <2>2, SuffixOfConcat
  <1> QED BY <1>1, <1>2, <1>3 DEF AnswerOf

LEMMA EmptyIsOne ==
  ASSUME NEW r \in Reqs, reply'[r] = <<>>, pc'[r] \notin {"reply", "replying"}
  PROVE  AnswerOf(r)'
  BY DEF AnswerOf, SameToken

LEMMA GenerateAnswers ==
  ASSUME TypeInv, NEW r \in Reqs, Generate(r)
  PROVE  /\ AnswerOf(r)' /\ UNCHANGED messages
         /\ \A q \in Reqs \ {r} : reply'[q] = reply[q] /\ sent'[q] = sent[q]
  <1>1. \A s : Goto(r, s) => pc'[r] = s
    BY DEF Goto, TypeInv, PcOK
  <1>2. /\ UNCHANGED messages
        /\ \A q \in Reqs \ {r} : reply'[q] = reply[q] /\ sent'[q] = sent[q]
    BY DEF Generate, StreamReply, StreamBreaks, WholeReply, NoAnswer, ModelStep, tableVars,
           TypeInv, WorkOK
  <1>3. MaxToken \in Nat \ {0} /\ NStream \in Nat /\ broken[r] \in 0 .. NStream
    BY ChatAssumption, EndpointAssumption DEF TypeInv, WorkOK
  <1>4. CASE StreamReply(r)
    <2>1. PICK n \in 1 .. MaxToken :
            broken[r] < NStream
            /\ ModelStep(r, broken[r] + 1, n, "reply", Repeat(broken[r] + 1, n))
      BY <1>4 DEF StreamReply, CanStream
    <2>2. broken[r] + 1 \in Attempt /\ n \in 0 .. MaxToken
      BY <1>3, <2>1 DEF Attempt
    <2> QED BY <1>2, <2>1, <2>2, ReplyOfOneAttempt
  <1>5. CASE WholeReply(r)
    <2>1. PICK n \in 0 .. MaxToken :
            ModelStep(r, Whole, IF job[r].kind = "stream" THEN n ELSE 0, "reply", Repeat(Whole, n))
      BY <1>5 DEF WholeReply
    <2>2. Whole \in Attempt
      BY <1>3 DEF Whole, Attempt
    <2>3. PICK k \in {0, n} : ModelStep(r, Whole, k, "reply", Repeat(Whole, n))
                              /\ (job[r].kind = "stream" => k = n)
      BY <2>1
    <2> QED BY <1>2, <2>2, <2>3, ReplyOfOneAttempt
  <1>6. CASE StreamBreaks(r) \/ NoAnswer(r)
    <2>1. reply'[r] = <<>> /\ pc'[r] \notin {"reply", "replying"}
      BY <1>1, <1>6 DEF StreamBreaks, NoAnswer, ModelStep, TypeInv, WorkOK
    <2> QED BY <1>2, <2>1, EmptyIsOne
  <1> QED BY <1>4, <1>5, <1>6 DEF Generate

LEMMA AnswerInvNext ==
  ASSUME TypeInv, AnswerInv, [Next]_vars
  PROVE  AnswerInv'
  <1>1. \A r \in Reqs : \A s : Goto(r, s) => pc'[r] = s
    BY DEF Goto, TypeInv, PcOK
  <1>2. ASSUME NEW r \in Reqs, ChatStep(r), AnswerOf(r)',
               \A q \in Reqs \ {r} : reply'[q] = reply[q] /\ sent'[q] = sent[q]
        PROVE  \A q \in Reqs : AnswerOf(q)'
    <2>1. job' = job /\ \A q \in Reqs \ {r} : pc'[q] = pc[q]
      BY <1>2, ChatStepPc DEF TypeInv
    <2> QED BY <1>2, <2>1 DEF AnswerInv, AnswerOf
  <1>3. ASSUME NEW r \in Reqs, Replying(r) PROVE AnswerInv'
    <2> DEFINE m == [chat |-> job[r].chat, role |-> "assistant", text |-> reply[r], req |-> r,
                     stamp |-> stamp[r]]
    <2>1. messages' \in {messages, messages \cup {m}}
      BY <1>3 DEF Replying, Insert
    <2>2. SameToken(m.text)
      BY DEF AnswerInv, AnswerOf
    <2>3. ChatStep(r)
      BY <1>3 DEF ChatStep
    <2>4. reply'[r] = <<>> /\ \A q \in Reqs \ {r} : reply'[q] = reply[q] /\ sent'[q] = sent[q]
      BY <1>3 DEF Replying, TypeInv, WorkOK
    <2>5. pc'[r] \notin {"reply", "replying"}
      BY <1>1, <1>3 DEF Replying, Insert
    <2>6. AnswerOf(r)'
      BY <2>4, <2>5, EmptyIsOne
    <2>7. \A n \in messages' : n.role = "assistant" => SameToken(n.text)
      <3> HIDE DEF m
      <3> QED BY <2>1, <2>2 DEF AnswerInv
    <2> QED BY <1>2, <2>3, <2>4, <2>6, <2>7 DEF AnswerInv, SameToken
  <1>4. ASSUME NEW r \in Reqs, Asking(r) PROVE AnswerInv'
    <2>1. \A m \in messages' : m \notin messages => m.role = "user"
      BY <1>4 DEF Asking, Insert
    <2>2. ChatStep(r) /\ UNCHANGED <<sent, reply, job>>
      BY <1>4 DEF ChatStep, Asking, Insert
    <2>3. pc'[r] \notin {"reply", "replying"}
      BY <1>1, <1>4 DEF Asking, Insert
    <2>4. AnswerOf(r)'
      BY <2>2, <2>3 DEF AnswerInv, AnswerOf
    <2> QED BY <1>2, <2>1, <2>2, <2>4 DEF AnswerInv, SameToken
  <1>5. ASSUME NEW r \in Reqs, Generate(r) PROVE AnswerInv'
    <2>1. ChatStep(r)
      BY <1>5 DEF ChatStep
    <2> QED BY <1>2, <1>5, <2>1, GenerateAnswers DEF AnswerInv, SameToken
  <1>6. ASSUME NEW r \in Reqs, ChatStep(r), UNCHANGED <<sent, reply, messages>>,
               pc'[r] \in {"reply", "replying"} => pc[r] = "reply"
        PROVE  AnswerInv'
    <2>1. job' = job
      BY <1>6, ChatStepPc DEF TypeInv
    <2>2. AnswerOf(r)'
      BY <1>6, <2>1 DEF AnswerInv, AnswerOf
    <2> QED BY <1>2, <1>6, <2>2 DEF AnswerInv, SameToken
  <1>7. ASSUME NEW r \in Reqs, ChatStep(r) PROVE AnswerInv'
    <2>1. CASE Lookup(r) \/ Peek(r) \/ Ask(r) \/ GetHistory(r) \/ Reply(r)
               \/ Touch(r) \/ MakeTitle(r) \/ Retitle(r)
      <3>1. UNCHANGED <<sent, reply, messages>>
        BY <2>1 DEF Lookup, Peek, Ask, Reply, BeginInsert, GetHistory, Touch, MakeTitle,
                    Retitle, chatVars, tableVars, workVars
      <3>2. pc'[r] \in {"reply", "replying"} => pc[r] = "reply"
        BY <1>1, <2>1 DEF Lookup, Peek, Ask, Reply, BeginInsert, GetHistory, Touch, MakeTitle,
                          Retitle
      <3> QED BY <1>6, <1>7, <3>1, <3>2
    <2> QED BY <1>3, <1>4, <1>5, <1>7, <2>1 DEF ChatStep
  <1>8. CASE \A r \in Reqs : ~ChatStep(r)
    <2>1. UNCHANGED <<messages, sent, reply>>
      BY <1>8 DEF Next, vars, Step, Elsewhere, Arrive, CreateChat, Send, Submit,
                  chatVars, tableVars, workVars
    <2>2. \A r \in Reqs : pc'[r] \in {"reply", "replying"} => pc'[r] = pc[r] /\ job'[r] = job[r]
      <3>1. CASE Exit /\ UNCHANGED job
        BY <3>1 DEF Exit, TypeInv, PcOK
      <3>2. CASE \A q \in Reqs :
                   \/ job'[q] = job[q] /\ (pc'[q] = pc[q] \/ job[q] = NoJob)
                   \/ pc[q] = "new" /\ pc'[q] = "lookup" /\ job'[q] # NoJob
        <4>1. TypeInv'
          BY TypeInvNext
        <4>2. \A q \in Reqs : pc'[q] \in {"reply", "replying"} => job'[q] # NoJob
          BY <4>1, JobAssumption DEF TypeInv, KindsOK, Kind, ChatSteps
        <4> QED BY <3>2, <4>2
      <3> QED BY <1>8, <3>1, <3>2, OtherCases
    <2>3. \A r \in Reqs : AnswerOf(r)'
      BY <2>1, <2>2 DEF AnswerInv, AnswerOf
    <2> QED BY <2>1, <2>3 DEF AnswerInv, SameToken
  <1> QED BY <1>7, <1>8

(* Of whatever number of endpoints streams break off: an answer is that of *)
(* one attempt, and what the client was sent ends with all of it.          *)
THEOREM AnswersAreWhole == Spec => []OneAttemptsAnswer
  <1>1. Init => AnswerInv
    BY DEF Init, RequestsInit, ChatInit, AnswerInv, AnswerOf, SameToken
  <1>2. TypeInv /\ AnswerInv /\ [Next]_vars => AnswerInv'
    BY AnswerInvNext
  <1>3. AnswerInv => OneAttemptsAnswer
    BY DEF AnswerInv, AnswerOf, SameToken, OneAttemptsAnswer
  <1> QED BY <1>1, <1>2, <1>3, TypeInvAlways, PTL DEF Spec
-----------------------------------------------------------------------------
(* The loop over the messages does what UsedFrom says.                     *)
IsUsed(used, base, cost, budget) ==
  LET n == Len(cost) IN
  /\ used \in [1 .. n + 1 -> Nat]
  /\ used[n + 1] = base
  /\ \A i \in 1 .. n : used[i] =
       used[i + 1] + (IF used[i + 1] + cost[i] > budget THEN 0 ELSE cost[i])

LEMMA UsedFromIs ==
  ASSUME NEW base \in Nat, NEW cost \in Seq(Nat), NEW budget \in Nat
  PROVE  IsUsed(UsedFrom(base, cost, budget), base, cost, budget)
  <1> DEFINE n == Len(cost)
             Plus(v, i) == v + (IF v + cost[i] > budget THEN 0 ELSE cost[i])
             Body(f) == [i \in 1 .. n + 1 |-> IF i = n + 1 THEN base ELSE Plus(f[i + 1], i)]
             step == [p \in Nat \X Nat |-> IF p[1] < n THEN Plus(p[2], n - p[1]) ELSE p[2]]
  <1>1. n \in Nat /\ \A i \in 1 .. n : cost[i] \in Nat
    OBVIOUS
  <1>2. \A v \in Nat : \A i \in 1 .. n : Plus(v, i) \in Nat
    BY <1>1
  <1>3. step \in [Nat \X Nat -> Nat]
    <2>1. \A p \in Nat \X Nat : p[1] \in Nat /\ p[2] \in Nat /\ (p[1] < n => n - p[1] \in 1 .. n)
      BY <1>1
    <2> HIDE DEF Plus, n
    <2> QED BY <1>2, <2>1
  <1> HIDE DEF Plus, n
  <1>4. PICK f \in [0 .. n -> Nat] : IsRun(f, n, base, step)
    <2> HIDE DEF step
    <2> QED BY <1>1, <1>3, Recursion
  <1> DEFINE g == [i \in 1 .. n + 1 |-> f[n + 1 - i]]
  <1>5. ASSUME NEW i \in 1 .. n PROVE g[i] = Plus(g[i + 1], i)
    <2>1. n - i \in 0 .. n - 1 /\ (n - i) + 1 = n + 1 - i /\ n - (n - i) = i /\ i + 1 \in 1 .. n + 1
          /\ n + 1 - (i + 1) = n - i /\ n - i < n /\ n - i \in Nat /\ i \in 1 .. n + 1
      BY <1>1
    <2>2. f[n + 1 - i] = step[<<n - i, f[n - i]>>] /\ f[n - i] \in Nat
      <3> HIDE DEF step
      <3> QED BY <1>1, <1>4, <2>1 DEF IsRun
    <2>3. step[<<n - i, f[n - i]>>] = Plus(f[n - i], i)
      BY <2>1, <2>2
    <2> QED BY <2>1, <2>2, <2>3
  <1>6. g = Body(g)
    <2>1. g[n + 1] = base
      <3>1. n + 1 \in 1 .. n + 1 /\ (n + 1) - (n + 1) = 0
        BY <1>1
      <3>2. g[n + 1] = f[(n + 1) - (n + 1)]
        BY <1>1, <3>1
      <3> HIDE DEF g
      <3> QED BY <1>4, <3>1, <3>2 DEF IsRun
    <2>2. \A i \in 1 .. n + 1 : i = n + 1 \/ i \in 1 .. n
      BY <1>1
    <2>3. \A i \in 1 .. n + 1 : g[i] = IF i = n + 1 THEN base ELSE Plus(g[i + 1], i)
      BY <1>5, <2>1, <2>2
    <2>4. g = [i \in 1 .. n + 1 |-> g[i]]
      OBVIOUS
    <2> HIDE DEF g
    <2> QED BY <2>3, <2>4
  <1> HIDE DEF g
  <1> DEFINE used == CHOOSE h : h = Body(h)
  <1>7. used = Body(used)
    <2> HIDE DEF Body
    <2> QED BY <1>6
  <1>8. UsedFrom(base, cost, budget) = used
    BY DEF UsedFrom, Plus, n
  <1> HIDE DEF used
  <1>9. used[n + 1] = base /\ \A i \in 1 .. n : used[i] = Plus(used[i + 1], i)
    <2>1. \A i \in 1 .. n : i \in 1 .. n + 1 /\ i # n + 1
      BY <1>1
    <2>2. n + 1 \in 1 .. n + 1
      BY <1>1
    <2> QED BY <1>7, <2>1, <2>2
  <1>10. used \in [1 .. n + 1 -> Nat]
    <2> DEFINE S == {k \in Nat : k <= n => used[n + 1 - k] \in Nat}
    <2>1. 0 \in S
      BY <1>1, <1>9
    <2>2. ASSUME NEW k \in Nat, k \in S PROVE k + 1 \in S
      <3>1. CASE k + 1 <= n
        <4>1. n - k \in 1 .. n /\ n + 1 - k = (n - k) + 1 /\ n + 1 - (k + 1) = n - k /\ k <= n
          BY <1>1, <3>1
        <4>2. used[(n - k) + 1] \in Nat
          BY <2>2, <4>1
        <4>3. used[n - k] \in Nat
          BY <1>2, <1>9, <4>1, <4>2
        <4> QED BY <4>1, <4>3
      <3> QED BY <3>1
    <2> HIDE DEF S
    <2>3. \A k \in Nat : k \in S
      BY <2>1, <2>2, Induction
    <2>4. ASSUME NEW i \in 1 .. n + 1 PROVE used[i] \in Nat
      <3>1. n + 1 - i \in Nat /\ n + 1 - i <= n /\ n + 1 - (n + 1 - i) = i
        BY <1>1
      <3> QED BY <2>3, <3>1 DEF S
    <2>5. used = [i \in 1 .. n + 1 |-> used[i]]
      BY <1>7
    <2> QED BY <2>4, <2>5
  <1> QED BY <1>8, <1>9, <1>10 DEF IsUsed, Plus, n

(* An older message leaves the budget as it is, or is within it.           *)
LEMMA UsedFits ==
  ASSUME NEW base \in Nat, NEW cost \in Seq(Nat), NEW budget \in Nat,
         NEW i \in 1 .. Len(cost) + 1
  PROVE  /\ base <= budget => UsedFrom(base, cost, budget)[i] <= budget
         /\ base > budget => UsedFrom(base, cost, budget)[i] = base
  <1> DEFINE n == Len(cost)
             used == UsedFrom(base, cost, budget)
             Good(u) == (base <= budget => u <= budget) /\ (base > budget => u = base)
             S == {k \in Nat : k <= n => Good(used[n + 1 - k])}
  <1>1. n \in Nat /\ \A k \in 1 .. n : cost[k] \in Nat
    OBVIOUS
  <1>2. /\ used \in [1 .. n + 1 -> Nat] /\ used[n + 1] = base
        /\ \A k \in 1 .. n : used[k] =
             used[k + 1] + (IF used[k + 1] + cost[k] > budget THEN 0 ELSE cost[k])
    BY UsedFromIs DEF IsUsed
  <1> HIDE DEF n, used
  <1>3. 0 \in S
    BY <1>1, <1>2
  <1>4. ASSUME NEW k \in Nat, k \in S PROVE k + 1 \in S
    <2>1. CASE k + 1 <= n
      <3>1. n - k \in 1 .. n /\ n + 1 - k = (n - k) + 1 /\ n + 1 - (k + 1) = n - k /\ k <= n
            /\ (n - k) + 1 \in 1 .. n + 1
        BY <1>1, <2>1
      <3>2. Good(used[(n - k) + 1])
        BY <1>4, <3>1
      <3>3. /\ used[(n - k) + 1] \in Nat /\ cost[n - k] \in Nat
            /\ used[n - k] = used[(n - k) + 1] +
                 (IF used[(n - k) + 1] + cost[n - k] > budget THEN 0 ELSE cost[n - k])
        BY <1>1, <1>2, <3>1
      <3>4. Good(used[n - k])
        BY <3>2, <3>3
      <3> QED BY <3>1, <3>4
    <2> QED BY <2>1
  <1> HIDE DEF S
  <1>5. \A k \in Nat : k \in S
    BY <1>3, <1>4, Induction
  <1>6. n + 1 - i \in Nat /\ n + 1 - i <= n /\ n + 1 - (n + 1 - i) = i
    BY <1>1 DEF n
  <1>7. Good(used[i])
    BY <1>5, <1>6 DEF S
  <1> QED BY <1>7 DEF n, used

(* The cost of the first i lines of a prompt, with the system prompt.      *)
LEMMA TotalCostIs ==
  ASSUME NEW lines, NEW n \in Nat, Len(lines) = n,
         \A i \in 1 .. n : Cost(lines[i]) \in Nat
  PROVE  /\ TotalCost(lines)[0] = Tokens(SystemChars)
         /\ \A i \in 0 .. n - 1 :
              TotalCost(lines)[i + 1] = TotalCost(lines)[i] + Cost(lines[i + 1])
  <1> DEFINE base == Tokens(SystemChars)
             Body(f) == [i \in 0 .. n |-> IF i = 0 THEN base ELSE f[i - 1] + Cost(lines[i])]
             step == [p \in Nat \X Nat |-> IF p[1] < n THEN p[2] + Cost(lines[p[1] + 1]) ELSE 0]
  <1>1. base \in Nat
    BY ContextAssumption DEF Tokens
  <1>2. step \in [Nat \X Nat -> Nat]
    <2>1. \A p \in Nat \X Nat : p[1] \in Nat /\ p[2] \in Nat /\ (p[1] < n => p[1] + 1 \in 1 .. n)
      OBVIOUS
    <2> QED BY <2>1
  <1>3. PICK f \in [0 .. n -> Nat] : IsRun(f, n, base, step)
    <2> HIDE DEF step, base
    <2> QED BY <1>1, <1>2, Recursion
  <1>4. f = Body(f)
    <2>1. f[0] = base
      BY <1>3 DEF IsRun
    <2>2. ASSUME NEW i \in 1 .. n PROVE f[i] = f[i - 1] + Cost(lines[i])
      <3>1. i - 1 \in 0 .. n - 1 /\ (i - 1) + 1 = i /\ i - 1 < n /\ i - 1 \in Nat
        OBVIOUS
      <3>2. f[i] = step[<<i - 1, f[i - 1]>>] /\ f[i - 1] \in Nat
        <4> HIDE DEF step
        <4> QED BY <1>3, <3>1 DEF IsRun
      <3> QED BY <3>1, <3>2
    <2>3. \A i \in 0 .. n : i = 0 \/ i \in 1 .. n
      OBVIOUS
    <2>4. \A i \in 0 .. n : f[i] = IF i = 0 THEN base ELSE f[i - 1] + Cost(lines[i])
      BY <2>1, <2>2, <2>3
    <2> HIDE DEF step, base
    <2> QED BY <2>4
  <1> DEFINE total == CHOOSE h : h = Body(h)
  <1>5. total = Body(total)
    <2> HIDE DEF Body
    <2> QED BY <1>4
  <1>6. TotalCost(lines) = total
    BY DEF TotalCost
  <1> HIDE DEF total, base
  <1>7. ASSUME NEW i \in 0 .. n - 1 PROVE total[i + 1] = total[i] + Cost(lines[i + 1])
    <2>1. i + 1 \in 0 .. n /\ i + 1 # 0 /\ (i + 1) - 1 = i
      OBVIOUS
    <2> QED BY <1>5, <2>1
  <1>8. total[0] = base
    BY <1>5
  <1> QED BY <1>6, <1>7, <1>8 DEF base

AsCounted(total, used, m) ==
  total \in Nat /\ total + used[m + 1] = Tokens(SystemChars) + used[1]

(* What the loop has counted is what the lines it keeps cost.              *)
LEMMA CountedIsTotal ==
  ASSUME NEW n \in Nat, NEW lines, NEW cost \in Seq(Nat), Len(cost) = n,
         \A i \in 1 .. n : cost[i] = Cost(lines[i]),
         NEW budget \in Nat, NEW kept \in SUBSET (1 .. n), NEW m \in 0 .. n,
         \A i \in 1 .. m : i \in kept <=> i \in Fitting(Tokens(SystemChars), cost, budget)
  PROVE  AsCounted(TotalCost(Only(lines, kept))[Cardinality(Till(kept, m))],
                   UsedFrom(Tokens(SystemChars), cost, budget), m)
  <1> DEFINE base == Tokens(SystemChars)
             used == UsedFrom(base, cost, budget)
             part == Only(lines, kept)
             c == Cardinality(kept)
             total == TotalCost(part)
             B(i) == Cardinality(Till(kept, i))
             S == {i \in Nat : i <= m =>
                     total[B(i)] \in Nat /\ total[B(i)] + used[i + 1] = base + used[1]}
  <1>1. base \in Nat
    BY ContextAssumption DEF Tokens
  <1>2. /\ used \in [1 .. n + 1 -> Nat]
        /\ \A i \in 1 .. n : used[i] =
             used[i + 1] + (IF used[i + 1] + cost[i] > budget THEN 0 ELSE cost[i])
    <2>1. IsUsed(used, base, cost, budget)
      <3> HIDE DEF base
      <3> QED BY <1>1, UsedFromIs
    <2> QED BY <2>1 DEF IsUsed
  <1>3. c \in Nat /\ part = [i \in 1 .. c |-> lines[Nth(kept, i)]] /\ Len(part) = c
    <2>1. c \in Nat
      BY NthIs
    <2>2. part = [i \in 1 .. c |-> lines[Nth(kept, i)]]
      BY DEF Only
    <2> HIDE DEF c, part
    <2> QED BY <2>1, <2>2
  <1>4. \A i \in 1 .. c : Cost(part[i]) \in Nat
    <2>1. \A i \in 1 .. c : Nth(kept, i) \in 1 .. n
      BY NthIs
    <2>2. \A i \in 1 .. n : Cost(lines[i]) \in Nat
      OBVIOUS
    <2> HIDE DEF c, part
    <2> QED BY <1>3, <2>1, <2>2
  <1>5. total[0] = base /\ \A i \in 0 .. c - 1 : total[i + 1] = total[i] + Cost(part[i + 1])
    <2> HIDE DEF c, part, base
    <2> QED BY <1>3, <1>4, TotalCostIs DEF base
  <1> HIDE DEF base, used, part, total, c
  <1>6. 0 \in S
    <2>1. Till(kept, 0) = {}
      <3>1. \A j \in kept : ~(j <= 0)
        OBVIOUS
      <3> QED BY <3>1 DEF Till
    <2>2. B(0) = 0
      BY <2>1, FS_EmptySet
    <2> QED BY <1>1, <1>2, <1>5, <2>2
  <1>7. ASSUME NEW i \in Nat, i \in S PROVE i + 1 \in S
    <2> SUFFICES ASSUME i + 1 <= m
                 PROVE  /\ total[B(i + 1)] \in Nat
                        /\ total[B(i + 1)] + used[(i + 1) + 1] = base + used[1]
      OBVIOUS
    <2>1. i \in 0 .. n - 1 /\ i + 1 \in 1 .. m /\ i + 1 \in 1 .. n /\ (i + 1) + 1 \in 1 .. n + 1
          /\ i + 1 \in 1 .. n + 1
      OBVIOUS
    <2>2. B(i) \in Nat /\ B(i + 1) = B(i) + (IF i + 1 \in kept THEN 1 ELSE 0)
      BY <2>1, TillNext
    <2>3. total[B(i)] \in Nat /\ total[B(i)] + used[i + 1] = base + used[1]
      BY <1>7
    <2>4. /\ used[i + 1] \in Nat /\ used[(i + 1) + 1] \in Nat /\ cost[i + 1] \in Nat
          /\ used[i + 1] = used[(i + 1) + 1] +
               (IF used[(i + 1) + 1] + cost[i + 1] > budget THEN 0 ELSE cost[i + 1])
      BY <1>2, <2>1
    <2>5. i + 1 \in kept <=> used[(i + 1) + 1] + cost[i + 1] <= budget
      BY <2>1 DEF Fitting, used, base
    <2>6. CASE i + 1 \in kept
      <3>1. B(i + 1) \in 1 .. c /\ Nth(kept, B(i + 1)) = i + 1
        BY <2>6, NthIs DEF c
      <3>2. part[B(i + 1)] = lines[i + 1] /\ cost[i + 1] = Cost(lines[i + 1])
        BY <1>3, <2>1, <3>1
      <3>3. B(i) \in 0 .. c - 1 /\ B(i + 1) = B(i) + 1
        BY <1>3, <2>2, <2>6, <3>1
      <3>4. total[B(i + 1)] = total[B(i)] + cost[i + 1]
        BY <1>5, <3>2, <3>3
      <3>5. used[i + 1] = used[(i + 1) + 1] + cost[i + 1]
        BY <2>4, <2>5, <2>6
      <3> HIDE DEF B
      <3> QED BY <1>1, <2>3, <2>4, <3>4, <3>5
    <2>7. CASE i + 1 \notin kept
      <3>1. B(i + 1) = B(i) /\ used[i + 1] = used[(i + 1) + 1]
        BY <2>2, <2>4, <2>5, <2>7
      <3> HIDE DEF B
      <3> QED BY <2>3, <3>1
    <2> QED BY <2>6, <2>7
  <1> HIDE DEF S
  <1>8. \A i \in Nat : i \in S
    BY <1>6, <1>7, Induction
  <1>9. m \in Nat /\ m \in S
    BY <1>8
  <1> QED BY <1>9 DEF S, total, part, used, base, AsCounted

(* What is left of a prompt fits, or is the question, or fits without it.  *)
LEMMA LimitFits ==
  ASSUME NEW lines, NEW n \in Nat \ {0}, Len(lines) = n, CtxSize # 0,
         \A i \in 1 .. n : Cost(lines[i]) \in Nat
  PROVE  Fits(LimitByContext(lines))
  <1> DEFINE base == Tokens(SystemChars)
             budget == InputBudget(CtxSize)
             cost == [i \in 1 .. n |-> Cost(lines[i])]
             fitting == Fitting(base, cost, budget)
             kept == fitting \cup {n}
             used == UsedFrom(base, cost, budget)
             part == Only(lines, kept)
             c == Cardinality(kept)
             total == TotalCost(part)
             B(i) == Cardinality(Till(kept, i))
  <1>1. base \in Nat /\ budget \in Nat
    BY ContextAssumption DEF Tokens, InputBudget
  <1>2. cost \in Seq(Nat) /\ Len(cost) = n /\ \A i \in 1 .. n : cost[i] = Cost(lines[i])
    OBVIOUS
  <1>3. LimitByContext(lines) = part
    BY <1>2 DEF LimitByContext, Kept
  <1> HIDE DEF base, budget, cost
  <1>4. fitting \subseteq 1 .. n /\ kept \in SUBSET (1 .. n) /\ n \in kept
    BY <1>2 DEF Fitting
  <1>5. /\ used \in [1 .. n + 1 -> Nat] /\ used[n + 1] = base
        /\ \A i \in 1 .. n : used[i] =
             used[i + 1] + (IF used[i + 1] + cost[i] > budget THEN 0 ELSE cost[i])
    <2>1. IsUsed(used, base, cost, budget)
      BY <1>1, <1>2, UsedFromIs
    <2> QED BY <1>2, <2>1 DEF IsUsed
  <1>6. \A i \in 1 .. n : i \in fitting <=> used[i + 1] + cost[i] <= budget
    BY <1>2 DEF Fitting
  <1>7. /\ base <= budget => used[1] <= budget
        /\ \A i \in 1 .. n + 1 : base > budget => used[i] = base
    <2>1. 1 \in 1 .. n + 1
      OBVIOUS
    <2>2. \A i \in 1 .. n + 1 : (base <= budget => used[i] <= budget)
                                /\ (base > budget => used[i] = base)
      BY <1>1, <1>2, UsedFits
    <2> QED BY <2>1, <2>2
  <1> HIDE DEF used, fitting
  <1>8. c \in Nat /\ B(n) = c /\ Len(part) = c /\ part[c] = lines[n] /\ c # 0
    <2>1. /\ IsFiniteSet(kept) /\ c \in Nat
          /\ B(n) \in 1 .. c /\ Nth(kept, B(n)) = n
      BY <1>4, NthIs
    <2>2. Till(kept, n) = kept
      <3>1. \A j \in kept : j <= n
        BY <1>4
      <3> HIDE DEF kept
      <3> QED BY <3>1 DEF Till
    <2>3. part = [i \in 1 .. c |-> lines[Nth(kept, i)]]
      BY DEF Only
    <2> HIDE DEF kept, part, c
    <2>4. B(n) = c
      BY <2>2 DEF c
    <2>5. part[c] = lines[n]
      BY <2>1, <2>3, <2>4
    <2> QED BY <2>1, <2>3, <2>4, <2>5
  <1>9. Fits(part) <=>
          \/ total[c] <= budget
          \/ ~(base + cost[n] <= budget) /\ (total[c - 1] <= budget \/ c = 1)
    <2> HIDE DEF kept, c
    <2>1. n \in 1 .. n
      OBVIOUS
    <2> QED BY <1>2, <1>8, <2>1 DEF Fits, base, budget
  <1>10. CASE n \in fitting
    <2>1. \A i \in 1 .. n : i \in kept <=> i \in fitting
      BY <1>10
    <2>2. total[B(n)] \in Nat /\ total[B(n)] + used[n + 1] = base + used[1]
      <3> HIDE DEF kept
      <3>1. n \in 0 .. n
        OBVIOUS
      <3>2. AsCounted(total[B(n)], used, n)
        BY <1>1, <1>2, <1>4, <2>1, <3>1, CountedIsTotal DEF base, used, fitting
      <3> QED BY <3>2 DEF AsCounted, base
    <2>3. n \in 1 .. n /\ 1 \in 1 .. n + 1
      OBVIOUS
    <2>4. base <= budget
      BY <1>1, <1>2, <1>5, <1>6, <1>10, <2>3
    <2> HIDE DEF kept, c, B, total
    <2>5. total[c] \in Nat /\ total[c] + base = base + used[1] /\ used[1] \in Nat
      BY <1>5, <1>8, <2>2, <2>3
    <2>6. total[c] <= budget
      BY <1>1, <1>7, <2>4, <2>5
    <2> QED BY <1>3, <1>9, <2>6
  <1>11. CASE n \notin fitting
    <2>1. ~(base + cost[n] <= budget) /\ used[n] = base
      <3>1. n \in 1 .. n
        OBVIOUS
      <3>2. cost[n] \in Nat
        BY <1>2, <3>1
      <3> QED BY <1>1, <1>5, <1>6, <1>11, <3>1, <3>2
    <2>2. CASE base > budget
      <3>1. fitting = {}
        <4>1. ASSUME NEW i \in 1 .. n, used[i + 1] + cost[i] <= budget PROVE FALSE
          <5>1. cost[i] \in Nat /\ i + 1 \in 1 .. n + 1
            BY <1>2
          <5>2. used[i + 1] = base
            BY <1>7, <2>2, <5>1
          <5> QED BY <1>1, <2>2, <4>1, <5>1, <5>2
        <4> QED BY <1>4, <1>6, <4>1
      <3>2. kept = {n}
        BY <3>1
      <3>3. c = 1
        BY <3>2, FS_Singleton
      <3> HIDE DEF kept, c, total
      <3> QED BY <1>3, <1>9, <2>1, <3>3
    <2>3. CASE base <= budget
      <3>1. n - 1 \in 0 .. n /\ \A i \in 1 .. n - 1 : i \in kept <=> i \in fitting
        OBVIOUS
      <3>2. /\ total[B(n - 1)] \in Nat
            /\ total[B(n - 1)] + used[(n - 1) + 1] = base + used[1]
        <4> HIDE DEF kept
        <4>1. AsCounted(total[B(n - 1)], used, n - 1)
          BY <1>1, <1>2, <1>4, <3>1, CountedIsTotal DEF base, used, fitting
        <4> QED BY <4>1 DEF AsCounted, base
      <3>3. c = B(n - 1) + 1 /\ B(n - 1) \in Nat
        <4>1. n - 1 \in 0 .. n - 1 /\ (n - 1) + 1 = n
          OBVIOUS
        <4> HIDE DEF kept, c
        <4>2. /\ B(n - 1) \in Nat
              /\ B((n - 1) + 1) = B(n - 1) + (IF (n - 1) + 1 \in kept THEN 1 ELSE 0)
          BY <1>4, <4>1, TillNext
        <4>3. B(n) = B(n - 1) + 1
          BY <1>4, <4>1, <4>2
        <4> QED BY <1>8, <4>2, <4>3
      <3> HIDE DEF kept, c, B, total
      <3>4. c - 1 = B(n - 1) /\ (n - 1) + 1 = n /\ 1 \in 1 .. n + 1
        BY <3>3
      <3>5. total[c - 1] = used[1] /\ used[1] \in Nat
        BY <1>1, <1>5, <2>1, <3>2, <3>4
      <3> QED BY <1>3, <1>7, <1>9, <2>1, <2>3, <3>5
    <2> QED BY <1>1, <2>2, <2>3
  <1> QED BY <1>3, <1>10, <1>11
-----------------------------------------------------------------------------
(* The last message of a prompt is always kept, and stays the last.        *)
LEMMA LastIsKept ==
  ASSUME NEW cost, NEW ctx, Len(cost) \in Nat \ {0}
  PROVE  Kept(cost, ctx) \in SUBSET (1 .. Len(cost)) /\ Len(cost) \in Kept(cost, ctx)
  BY DEF Kept, Fitting

LEMMA LastInOrder ==
  ASSUME NEW n \in Nat, NEW kept \in SUBSET (1 .. n), n \in kept
  PROVE  Cardinality(kept) \in Nat \ {0} /\ Nth(kept, Cardinality(kept)) = n
  <1>1. Till(kept, n) = kept
    <2>1. \A j \in kept : j <= n
      OBVIOUS
    <2> QED BY <2>1 DEF Till
  <1>2. Cardinality(kept) \in Nat
    BY NthIs
  <1>3. /\ Cardinality(Till(kept, n)) \in 1 .. Cardinality(kept)
        /\ Nth(kept, Cardinality(Till(kept, n))) = n
    BY NthIs
  <1> QED BY <1>1, <1>2, <1>3

LEMMA LimitKeepsLast ==
  ASSUME NEW lines, Len(lines) \in Nat \ {0}
  PROVE  LimitByContext(lines) # <<>> /\ Last(LimitByContext(lines)) = lines[Len(lines)]
  <1>1. PICK kept : kept = Kept([i \in 1 .. Len(lines) |-> Cost(lines[i])], CtxSize)
    OBVIOUS
  <1>2. kept \in SUBSET (1 .. Len(lines)) /\ Len(lines) \in kept
    BY <1>1, LastIsKept
  <1>3. PICK c \in Nat \ {0} : c = Cardinality(kept)
    BY <1>2, LastInOrder
  <1>4. LimitByContext(lines) = [i \in 1 .. c |-> lines[Nth(kept, i)]]
    BY <1>1, <1>3 DEF LimitByContext, Only
  <1>5. LimitByContext(lines)[c] = lines[Len(lines)]
    <2>1. c \in 1 .. c /\ Nth(kept, c) = Len(lines)
      BY <1>2, <1>3, LastInOrder
    <2> QED BY <1>4, <2>1
  <1>6. Len(LimitByContext(lines)) = c
    BY <1>4
  <1> HIDE DEF LimitByContext
  <1> QED BY <1>3, <1>5, <1>6 DEF Last

-----------------------------------------------------------------------------
(* The messages of a chat have an order: a time is that of one INSERT, and *)
(* of those that have begun none has the time of another, nor of a row.    *)
Inserting == {r \in Reqs : pc[r] \in {"asking", "replying"}}

StampsInv ==
  /\ IsFiniteSet(messages)
  /\ \A m \in messages : m.stamp <= clock
  /\ \A m, k \in messages : m.stamp = k.stamp => m = k
  /\ \A r \in Inserting : stamp[r] <= clock
  /\ \A r \in Inserting : \A m \in messages : m.stamp # stamp[r]
  /\ \A r, q \in Inserting : stamp[r] = stamp[q] => r = q

LEMMA StampsInvNext ==
  ASSUME TypeInv, StampsInv, [Next]_vars
  PROVE  StampsInv'
  <1>1. ASSUME NEW r \in Reqs, ChatStep(r) PROVE \A q \in Reqs \ {r} : pc'[q] = pc[q]
    BY <1>1, ChatStepPc DEF TypeInv
  <1>2. \A r \in Reqs : \A s : Goto(r, s) => pc'[r] = s
    BY DEF Goto, TypeInv, PcOK
  <1>3. /\ \A m \in messages : m.stamp \in Nat
        /\ clock \in Nat /\ stamp \in [Reqs -> Nat]
    BY DEF TypeInv, TablesOK, WorkOK, Message
  <1>4. ASSUME UNCHANGED <<messages, clock, stamp>>, Inserting' \subseteq Inserting
        PROVE  StampsInv'
    BY <1>4 DEF StampsInv
  <1>5. ASSUME NEW r \in Reqs, Ask(r) \/ Reply(r) PROVE StampsInv'
    <2>1. PICK from \in {"ask", "reply"}, to \in {"asking", "replying"} : BeginInsert(r, from, to)
      BY <1>5 DEF Ask, Reply
    <2>2. messages' = messages
      BY <2>1 DEF BeginInsert
    <2>3. Inserting' \subseteq Inserting \cup {r}
      BY <1>1, <1>5 DEF ChatStep, Inserting
    <2>4. CASE clock' = clock + 1 /\ stamp' = [stamp EXCEPT ![r] = clock + 1]
      <3>1. stamp'[r] = clock + 1 /\ \A q \in Reqs \ {r} : stamp'[q] = stamp[q]
        BY <1>3, <2>4
      <3>2. \A q \in Inserting' : q = r \/ (q \in Inserting /\ q \in Reqs \ {r})
        BY <2>3 DEF Inserting
      <3>3. \A q \in Inserting' : stamp'[q] = clock + 1 \/ stamp'[q] = stamp[q]
        BY <3>1, <3>2
      <3>4. /\ \A m \in messages' : m.stamp <= clock'
            /\ \A q \in Inserting' : stamp'[q] <= clock'
        BY <1>3, <2>2, <2>4, <3>1, <3>2 DEF StampsInv, Inserting
      <3>5. \A q \in Inserting' : \A m \in messages' : m.stamp # stamp'[q]
        BY <1>3, <2>2, <3>1, <3>2 DEF StampsInv
      <3>6. \A q, o \in Inserting' : stamp'[q] = stamp'[o] => q = o
        <4>1. \A q \in Inserting : stamp[q] # clock + 1
          BY <1>3 DEF StampsInv, Inserting
        <4> QED BY <3>1, <3>2, <4>1 DEF StampsInv
      <3> QED BY <2>2, <3>4, <3>5, <3>6 DEF StampsInv
    <2>5. CASE Goto(r, "failed") /\ UNCHANGED <<clock, stamp>>
      <3>1. Inserting' \subseteq Inserting
        BY <1>2, <2>3, <2>5 DEF Inserting
      <3> QED BY <1>4, <2>2, <2>5, <3>1
    <2> QED BY <2>1, <2>4, <2>5 DEF BeginInsert
  <1>6. ASSUME NEW r \in Reqs, Asking(r) \/ Replying(r) PROVE StampsInv'
    <2>1. PICK from, to, role, text :
            /\ from \in {"asking", "replying"} /\ to \in {"history", "touch"}
            /\ Insert(r, from, to, role, text)
      BY <1>6 DEF Asking, Replying
    <2>2. UNCHANGED <<clock, stamp>> /\ r \in Inserting
      BY <2>1 DEF Insert, Inserting
    <2>3. PICK m : m.stamp = stamp[r] /\ messages' \in {messages, messages \cup {m}}
      <3> DEFINE new == [chat |-> job[r].chat, role |-> role, text |-> text, req |-> r,
                         stamp |-> stamp[r]]
      <3>1. new.stamp = stamp[r] /\ messages' \in {messages, messages \cup {new}}
        BY <2>1 DEF Insert
      <3> HIDE DEF new
      <3> QED BY <3>1
    <2>4. Inserting' \subseteq Inserting /\ r \notin Inserting'
      BY <1>1, <1>2, <1>6, <2>1 DEF ChatStep, Inserting, Insert
    <2>5. IsFiniteSet(messages')
      BY <2>3, FS_AddElement DEF StampsInv
    <2>6. \A k \in messages' : k \in messages \/ k = m
      BY <2>3
    <2>7. \A k \in messages' : k.stamp <= clock'
      BY <2>2, <2>3, <2>6 DEF StampsInv
    <2>8. \A k, l \in messages' : k.stamp = l.stamp => k = l
      BY <2>2, <2>3, <2>6 DEF StampsInv
    <2>9. \A q \in Inserting' : stamp'[q] <= clock' /\ \A k \in messages' : k.stamp # stamp'[q]
      BY <2>2, <2>3, <2>4, <2>6 DEF StampsInv
    <2>10. \A q, o \in Inserting' : stamp'[q] = stamp'[o] => q = o
      BY <2>2, <2>4 DEF StampsInv
    <2> QED BY <2>5, <2>7, <2>8, <2>9, <2>10 DEF StampsInv
  <1>7. ASSUME NEW r \in Reqs, ChatStep(r), ~Ask(r), ~Reply(r), ~Asking(r), ~Replying(r)
        PROVE  StampsInv'
    <2>1. /\ UNCHANGED <<messages, clock, stamp>>
          /\ pc'[r] \notin {"asking", "replying"}
      BY <1>2, <1>7 DEF ChatStep, Lookup, Peek, GetHistory, Generate, StreamReply, StreamBreaks,
           WholeReply, NoAnswer, ModelStep, Touch, MakeTitle, Retitle, chatVars, tableVars, workVars
    <2>2. Inserting' \subseteq Inserting
      BY <1>1, <1>7, <2>1 DEF Inserting
    <2> QED BY <1>4, <2>1, <2>2
  <1>8. CASE \A r \in Reqs : ~ChatStep(r)
    <2>1. UNCHANGED <<messages, clock, stamp>>
      BY <1>8 DEF Next, vars, Step, Elsewhere, Arrive, CreateChat, Send, Submit,
                  chatVars, tableVars, workVars
    <2>2. Inserting' \subseteq Inserting
      <3>1. CASE Exit /\ UNCHANGED job
        BY <3>1 DEF Exit, Inserting, TypeInv, PcOK
      <3>2. CASE \A q \in Reqs :
                   \/ job'[q] = job[q] /\ (pc'[q] = pc[q] \/ job[q] = NoJob)
                   \/ pc[q] = "new" /\ pc'[q] = "lookup" /\ job'[q] # NoJob
        <4>1. TypeInv'
          BY TypeInvNext
        <4>2. \A q \in Reqs : pc'[q] \in {"asking", "replying"} => job'[q] # NoJob
          BY <4>1, JobAssumption DEF TypeInv, KindsOK, Kind, ChatSteps
        <4> QED BY <3>2, <4>2 DEF Inserting
      <3> QED BY <1>8, <3>1, <3>2, OtherCases
    <2> QED BY <1>4, <2>1, <2>2
  <1> QED BY <1>5, <1>6, <1>7, <1>8

(* So the listing of a chat is one of its messages at every position.      *)
LEMMA ListingIs ==
  ASSUME TypeInv, StampsInv, NEW c
  PROVE  /\ Len(Listing(c)) \in Nat
         /\ \A i \in 1 .. Len(Listing(c)) : Listing(c)[i] \in InChat(c)
  <1> DEFINE T == InChat(c)
             key == [m \in T |-> m.stamp]
             n == Cardinality(T)
             Older(m) == Cardinality({k \in InChat(c) : k.stamp <= m.stamp})
  <1>1. T \in SUBSET messages /\ IsFiniteSet(T)
    <2>1. T \in SUBSET messages
      BY DEF InChat
    <2> QED BY <2>1, FS_Subset DEF StampsInv
  <1>2. key \in [T -> Nat] /\ \A s, t \in T : key[s] = key[t] => s = t
    BY <1>1 DEF TypeInv, TablesOK, Message, StampsInv
  <1>3. n \in Nat /\ \A i \in 1 .. n : \E m \in T : Cardinality(Upto(T, key, m)) = i
    <2> HIDE DEF T, key
    <2> QED BY <1>1, <1>2, RanksByKey DEF n
  <1>4. \A m \in T : Older(m) = Cardinality(Upto(T, key, m))
    <2>1. \A m \in T : Upto(T, key, m) = {k \in InChat(c) : k.stamp <= m.stamp}
      BY DEF Upto
    <2> HIDE DEF T, key
    <2> QED BY <2>1
  <1>5. \A i \in 1 .. n : \E m \in T : Older(m) = i
    BY <1>3, <1>4
  <1>6. Listing(c) = [i \in 1 .. n |-> CHOOSE m \in T : Older(m) = i]
    BY DEF Listing
  <1> HIDE DEF T, n, Older
  <1>7. \A i \in 1 .. n : (CHOOSE m \in T : Older(m) = i) \in T
    BY <1>5
  <1>8. Len(Listing(c)) = n
    BY <1>3, <1>6
  <1> QED BY <1>3, <1>6, <1>7, <1>8 DEF T

LEMMA CostOfMessage ==
  ASSUME NEW m \in Message, NEW c
  PROVE  Cost(Line(c, m.role, m.text)) \in Nat
  <1>1. \A k \in Nat : Tokens(k) \in Nat
    BY DEF Tokens
  <1>2. CASE m.role = "user" /\ m.text \in Texts
    <2>1. Chars[m.text] \in Nat
      BY <1>2, ChatAssumption
    <2> QED BY <1>1, <1>2, <2>1 DEF Cost, Line
  <1>3. CASE m.role = "assistant" /\ m.text \in Answer
    <2>1. Len(m.text) \in Nat
      BY <1>3 DEF Answer
    <2>2. TokenChars * Len(m.text) \in Nat
      <3>1. \A a, k \in Nat : a * k \in Nat
        OBVIOUS
      <3> QED BY <2>1, <3>1, ChatAssumption
    <2> QED BY <1>1, <1>3, <2>2 DEF Cost, Line
  <1> QED BY <1>2, <1>3 DEF Message

LEMMA HistoryLines ==
  ASSUME TypeInv, StampsInv, NEW c
  PROVE  \E n \in Nat :
           /\ History(c) = [i \in 1 .. n |-> History(c)[i]] /\ Len(History(c)) = n
           /\ \A i \in 1 .. n : /\ \E role, text : History(c)[i] = Line(c, role, text)
                                /\ Cost(History(c)[i]) \in Nat
  <1>1. PICK l : l = Listing(c)
    OBVIOUS
  <1>2. Len(l) \in Nat /\ \A i \in 1 .. Len(l) : l[i] \in Message
    BY <1>1, ListingIs DEF InChat, TypeInv, TablesOK
  <1>3. PICK n \in Nat : n = IF Len(l) < Window THEN Len(l) ELSE Window
    BY <1>2, ChatAssumption
  <1>4. History(c) = [i \in 1 .. n |-> Line(c, l[i].role, l[i].text)]
    BY <1>1, <1>3 DEF History
  <1>5. \A i \in 1 .. n : History(c)[i] = Line(c, l[i].role, l[i].text) /\ i \in 1 .. Len(l)
    BY <1>2, <1>3, <1>4, ChatAssumption
  <1>6. \A i \in 1 .. n : Cost(History(c)[i]) \in Nat
    BY <1>2, <1>5, CostOfMessage
  <1>7. Len(History(c)) = n /\ History(c) = [i \in 1 .. n |-> History(c)[i]]
    BY <1>4
  <1> QED BY <1>5, <1>6, <1>7

(* A prompt ends with its question, and fits.                              *)
IsPrompt(r, p) ==
  /\ p # <<>> /\ Last(p) = Question(r)
  /\ CtxSize # 0 => Fits(p)

LEMMA PromptIs ==
  ASSUME TypeInv, StampsInv, NEW r \in Reqs, job[r] \in Job
  PROVE  IsPrompt(r, PromptOf(r))
  <1>0. PICK c : c = job[r].chat
    OBVIOUS
  <1>1. PICK h : h = History(c)
    OBVIOUS
  <1>2. PICK q : q = Question(r)
    OBVIOUS
  <1>3. PICK n \in Nat :
          /\ h = [i \in 1 .. n |-> h[i]] /\ Len(h) = n
          /\ \A i \in 1 .. n : (\E role, text : h[i] = Line(c, role, text)) /\ Cost(h[i]) \in Nat
    BY <1>1, HistoryLines
  <1>4. PICK lines : lines = WithQuestion(h, q)
    OBVIOUS
  <1>5. Cost(q) \in Nat
    <2>1. Chars[job[r].text] \in Nat
      BY ChatAssumption DEF Job
    <2> QED BY <1>2, <2>1 DEF Question, Line, Cost, Tokens
  <1>6. /\ Len(lines) \in Nat \ {0} /\ lines[Len(lines)] = q
        /\ \A i \in 1 .. Len(lines) : Cost(lines[i]) \in Nat
    <2>1. CASE h # <<>> /\ Last(h).role = "user" /\ Last(h).text = q.text
      <3>1. n # 0
        BY <1>3, <2>1
      <3>2. PICK role, text : h[n] = Line(c, role, text) /\ Last(h) = h[n]
        BY <1>3, <3>1 DEF Last
      <3>3. role = "user" /\ text = job[r].text
        BY <1>0, <1>2, <2>1, <3>2 DEF Question, Line
      <3>4. Last(h) = q
        BY <1>0, <1>2, <3>2, <3>3 DEF Question
      <3> QED BY <1>3, <1>4, <2>1, <3>1, <3>4 DEF WithQuestion, Last
    <2>2. CASE ~(h # <<>> /\ Last(h).role = "user" /\ Last(h).text = q.text)
      <3> DEFINE S == {h[i] : i \in 1 .. n} \cup {q}
      <3>1. lines = Append(h, q)
        BY <1>4, <2>2 DEF WithQuestion
      <3>2. h \in Seq(S) /\ q \in S /\ \A line \in S : Cost(line) \in Nat
        BY <1>3, <1>5
      <3> HIDE DEF S
      <3>3. lines \in Seq(S) /\ Len(lines) \in Nat \ {0} /\ lines[Len(lines)] = q
        BY <3>1, <3>2
      <3>4. \A i \in 1 .. Len(lines) : lines[i] \in S
        BY <3>3
      <3> QED BY <3>2, <3>3, <3>4
    <2> QED BY <2>1, <2>2
  <1>7. PromptOf(r) = LimitByContext(lines)
    BY <1>0, <1>1, <1>2, <1>4 DEF PromptOf
  <1>8. PromptOf(r) # <<>> /\ Last(PromptOf(r)) = Question(r)
    BY <1>2, <1>6, <1>7, LimitKeepsLast
  <1>9. CtxSize # 0 => Fits(PromptOf(r))
    BY <1>6, <1>7, LimitFits
  <1> QED BY <1>8, <1>9 DEF IsPrompt

PromptInv ==
  /\ \A r \in Reqs : pc[r] = "model" => IsPrompt(r, prompt[r])
  /\ prompt = [r \in Reqs |-> prompt[r]]

LEMMA PromptInvNext ==
  ASSUME TypeInv, StampsInv, PromptInv, [Next]_vars
  PROVE  PromptInv'
  <1>1. \A r \in Reqs : \A s : Goto(r, s) => pc'[r] = s
    BY DEF Goto, TypeInv, PcOK
  <1>2. ASSUME NEW r \in Reqs, Asking(r) \/ Replying(r) PROVE PromptInv'
    <2>1. PICK to \in {"history", "touch"} : \E from, role, text : Insert(r, from, to, role, text)
      BY <1>2 DEF Asking, Replying
    <2>2. prompt' = prompt /\ job' = job /\ pc'[r] # "model"
      BY <1>1, <2>1 DEF Insert
    <2>3. \A q \in Reqs \ {r} : pc'[q] = pc[q]
      BY <1>2, ChatStepPc DEF TypeInv, ChatStep
    <2> QED BY <2>2, <2>3 DEF PromptInv, IsPrompt, Question
  <1>3. ASSUME NEW r \in Reqs, GetHistory(r) \/ Generate(r) PROVE PromptInv'
    <2>1. job' = job
      BY <1>3 DEF GetHistory, Generate, StreamReply, StreamBreaks, WholeReply, NoAnswer,
                  ModelStep, tableVars
    <2>2. \A q \in Reqs \ {r} : pc'[q] = pc[q]
      BY <1>3, ChatStepPc DEF TypeInv, ChatStep
    <2>3. \E p : prompt' = [prompt EXCEPT ![r] = p]
      <3>1. CASE GetHistory(r)
        <4>1. prompt' = prompt \/ prompt' = [prompt EXCEPT ![r] = PromptOf(r)]
          BY <3>1 DEF GetHistory
        <4>2. prompt = [prompt EXCEPT ![r] = prompt[r]]
          BY DEF PromptInv
        <4> QED BY <4>1, <4>2
      <3>2. CASE Generate(r)
        <4>1. \A a, n, step, text : ModelStep(r, a, n, step, text) =>
                \E p : prompt' = [prompt EXCEPT ![r] = p]
          BY DEF ModelStep
        <4> QED BY <3>2, <4>1 DEF Generate, StreamReply, StreamBreaks, WholeReply, NoAnswer
      <3> QED BY <1>3, <3>1, <3>2
    <2>4. /\ prompt' = [q \in Reqs |-> prompt'[q]]
          /\ \A q \in Reqs \ {r} : prompt'[q] = prompt[q]
      BY <2>3 DEF PromptInv
    <2>5. pc'[r] = "model" => IsPrompt(r, prompt'[r])
      <3>1. CASE GetHistory(r)
        <4>1. pc'[r] = "model" => prompt' = [prompt EXCEPT ![r] = PromptOf(r)]
          BY <1>1, <3>1 DEF GetHistory
        <4>2. pc'[r] = "model" => prompt'[r] = PromptOf(r)
          BY <4>1 DEF PromptInv
        <4>3. job[r] \in Job
          BY <3>1 DEF GetHistory, TypeInv, KindsOK, Kind, ChatSteps
        <4> QED BY <4>2, <4>3, PromptIs
      <3>2. CASE Generate(r)
        <4>1. \A a, n, step, text :
                ModelStep(r, a, n, step, text) /\ pc'[r] = "model" => prompt'[r] = prompt[r]
          BY <1>1 DEF ModelStep, PromptInv
        <4>2. pc[r] = "model"
          BY <3>2 DEF Generate
        <4>3. pc'[r] = "model" => prompt'[r] = prompt[r]
          BY <3>2, <4>1 DEF Generate, StreamReply, StreamBreaks, WholeReply, NoAnswer
        <4> QED BY <4>2, <4>3 DEF PromptInv
      <3> QED BY <1>3, <3>1, <3>2
    <2> QED BY <2>1, <2>2, <2>4, <2>5 DEF PromptInv, IsPrompt, Question
  <1>4. ASSUME NEW r \in Reqs, ChatStep(r), ~Asking(r), ~Replying(r), ~GetHistory(r), ~Generate(r)
        PROVE  PromptInv'
    <2>1. /\ UNCHANGED <<prompt, job>>
          /\ pc'[r] # "model"
      BY <1>1, <1>4 DEF ChatStep, Lookup, Peek, Ask, Reply, BeginInsert, Touch, MakeTitle, Retitle,
                        chatVars, tableVars, workVars
    <2>2. \A q \in Reqs \ {r} : pc'[q] = pc[q]
      BY <1>4, ChatStepPc DEF TypeInv
    <2> QED BY <2>1, <2>2 DEF PromptInv, IsPrompt, Question
  <1>5. CASE \A r \in Reqs : ~ChatStep(r)
    <2>1. UNCHANGED prompt
      BY <1>5 DEF Next, vars, Step, Elsewhere, Arrive, CreateChat, Send, Submit,
                  chatVars, tableVars, workVars
    <2>2. \A r \in Reqs : pc'[r] = "model" => pc'[r] = pc[r] /\ job'[r] = job[r]
      <3>1. CASE Exit /\ UNCHANGED job
        BY <3>1 DEF Exit, TypeInv, PcOK
      <3>2. CASE \A q \in Reqs :
                   \/ job'[q] = job[q] /\ (pc'[q] = pc[q] \/ job[q] = NoJob)
                   \/ pc[q] = "new" /\ pc'[q] = "lookup" /\ job'[q] # NoJob
        <4>1. TypeInv'
          BY TypeInvNext
        <4>2. \A q \in Reqs : pc'[q] = "model" => job'[q] # NoJob
          BY <4>1, JobAssumption DEF TypeInv, KindsOK, Kind, ChatSteps
        <4> QED BY <3>2, <4>2
      <3> QED BY <1>5, <3>1, <3>2, OtherCases
    <2> QED BY <2>1, <2>2 DEF PromptInv, IsPrompt, Question
  <1> QED BY <1>2, <1>3, <1>4, <1>5

LEMMA PromptInvAlways == Spec => [](StampsInv /\ PromptInv)
  <1>1. Init => StampsInv /\ PromptInv
    BY FS_EmptySet DEF Init, RequestsInit, ChatInit, StampsInv, Inserting, PromptInv
  <1>2. TypeInv /\ StampsInv /\ PromptInv /\ [Next]_vars => (StampsInv /\ PromptInv)'
    BY StampsInvNext, PromptInvNext
  <1> QED BY <1>1, <1>2, TypeInvAlways, PTL DEF Spec

(* Whoever else writes into the chat, however many messages it has and     *)
(* however little the model can take: the question is what comes last.     *)
THEOREM QuestionComesLast == Spec => []PromptEndsWithQuestion
  <1>1. PromptInv => PromptEndsWithQuestion
    BY DEF PromptInv, IsPrompt, PromptEndsWithQuestion
  <1> QED BY <1>1, PromptInvAlways, PTL

(* Whatever context, however long the texts: what the loop leaves of the   *)
(* messages is within the budget, with the system prompt, as soon as the   *)
(* question itself is, and the older ones are without it (by induction     *)
(* over the messages, from the newest).                                    *)
THEOREM PromptsFit == Spec => []PromptFits
  <1>1. PromptInv => PromptFits
    BY DEF PromptInv, IsPrompt, PromptFits
  <1> QED BY <1>1, PromptInvAlways, PTL
=============================================================================
