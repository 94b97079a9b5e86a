------------------------------ MODULE LineFate ------------------------------
(***************************************************************************)
(* What the log collector promises about the lines its watcher reads, with *)
(* none of its machinery.  Lines are numbered in the order the watcher     *)
(* reads them.  A line that has been read is pending until its fate is     *)
(* settled, and its fate, stored in raw_logs or lost, is settled once:     *)
(* at most one row per line, and a lost line never comes back.  Settled    *)
(* lines are always a prefix of the pending ones (no line overtakes an     *)
(* earlier one), and the lines of one INSERT share one fate (the batch is  *)
(* all or nothing).                                                        *)
(***************************************************************************)
EXTENDS Naturals

CONSTANTS
  MaxLine     \* Lines are numbered 1 .. MaxLine.

VARIABLES
  fate        \* fate[l]: what has become of line l so far.

Line == 1 .. MaxLine

Fate == {"unread", "pending", "stored", "lost"}

TypeOK == fate \in [Line -> Fate]

Init == fate = [l \in Line |-> "unread"]

(* The line every earlier one of which has been read. *)
IsNext(l) == fate[l] = "unread" /\ \A k \in Line : k < l => fate[k] # "unread"

(* The watcher reads the next line: it joins the pending ones, or it is   *)
(* dropped at once.                                                        *)
Read(l) ==
  /\ IsNext(l)
  /\ \E f \in {"pending", "lost"} : fate' = [fate EXCEPT ![l] = f]

(* The pending lines up to and including line l are settled together.      *)
Settle(l, f) ==
  /\ fate[l] = "pending"
  /\ fate' = [k \in Line |-> IF k <= l /\ fate[k] = "pending" THEN f ELSE fate[k]]

Next ==
  \E l \in Line : \/ Read(l)
                  \/ \E f \in {"stored", "lost"} : Settle(l, f)

Spec == Init /\ [][Next]_fate
=============================================================================
