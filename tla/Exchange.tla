------------------------------ MODULE Exchange ------------------------------
(***************************************************************************)
(* What the chat backend promises about each message sent to it, with none *)
(* of its machinery: the question is stored at most once, the answer at    *)
(* most once and after it, both stay, nothing is stored after the request  *)
(* has ended, and success is reported only of an answer that is stored.    *)
(***************************************************************************)
CONSTANT Reqs

VARIABLES asked, answered, result

vars == <<asked, answered, result>>

Init == asked = {} /\ answered = {} /\ result = [r \in Reqs |-> "open"]

End(r, how) == result' = [result EXCEPT ![r] = how]

(* A row is stored; the error that ends the request may come with that.    *)
Ask(r) ==
  /\ result[r] = "open" /\ r \notin asked
  /\ asked' = asked \cup {r}
  /\ End(r, "failed") \/ UNCHANGED result
  /\ UNCHANGED answered

Answer(r) ==
  /\ result[r] = "open" /\ r \in asked \ answered
  /\ answered' = answered \cup {r}
  /\ End(r, "failed") \/ UNCHANGED result
  /\ UNCHANGED asked

Succeed(r) ==
  /\ result[r] = "open" /\ r \in answered
  /\ End(r, "succeeded")
  /\ UNCHANGED <<asked, answered>>

(* One request fails, or the process ends and all of them do.              *)
Fail(S) ==
  /\ \A r \in S : result[r] = "open"
  /\ result' = [r \in Reqs |-> IF r \in S THEN "failed" ELSE result[r]]
  /\ UNCHANGED <<asked, answered>>

Next ==
  \/ \E r \in Reqs : Ask(r) \/ Answer(r) \/ Succeed(r)
  \/ \E S \in SUBSET Reqs : Fail(S)

Spec == Init /\ [][Next]_vars
=============================================================================
