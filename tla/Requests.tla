------------------------------ MODULE Requests ------------------------------
(***************************************************************************)
(* The HTTP requests of a server (backend/main.go, services/api/main.go):  *)
(* a goroutine each.  A request's context ends when its client disconnects *)
(* or its time is up, and every database statement and model call that     *)
(* uses the context fails then.  When the process exits, its open requests *)
(* end without an answer.                                                  *)
(***************************************************************************)
EXTENDS Naturals

CONSTANTS
  Reqs,         \* The requests there may ever be, numbered as they arrive.
  MaxFault      \* Bound: how often the database fails a statement.

ASSUME RequestAssumption == Reqs \subseteq Nat /\ MaxFault \in Nat

VARIABLES
  pc,           \* pc[r]: the step that request r takes next.
  gone,         \* The requests whose client has disconnected.
  faults        \* How often the database has failed.

requestVars == <<pc, gone, faults>>

(* How a request ends: with the answer it asks for, with that answer but   *)
(* without the title it should have made, or with an error.                *)
Ended == {"done", "untitled", "failed"}
Open(r) == pc[r] \notin Ended \cup {"new"}
Succeeded(r) == pc[r] \in {"done", "untitled"}

RequestsInit == pc = [r \in Reqs |-> "new"] /\ gone = {} /\ faults = 0

Arrives(r) == pc[r] = "new" /\ \A q \in Reqs : q < r => pc[q] # "new"

Goto(r, step) == pc' = [pc EXCEPT ![r] = step]

(* A call under the context of r returns a result, or an error.            *)
Works(r) == r \notin gone /\ UNCHANGED <<gone, faults>>
Fails(r) ==
  /\ IF r \in gone THEN UNCHANGED faults ELSE faults < MaxFault /\ faults' = faults + 1
  /\ UNCHANGED gone

(* The client closes the connection, or a write to it fails, as all do     *)
(* 120 s after the request was read; the SIEM API gives a request 60 s.    *)
Disconnect(r) ==
  /\ Open(r) /\ r \notin gone
  /\ gone' = gone \cup {r}
  /\ UNCHANGED <<pc, faults>>

(* The process exits, 20 s (10 s) after a signal at the latest, and is     *)
(* restarted.                                                              *)
Exit ==
  /\ \E r \in Reqs : Open(r)
  /\ pc' = [r \in Reqs |-> IF Open(r) THEN "failed" ELSE pc[r]]
  /\ UNCHANGED <<gone, faults>>
=============================================================================
