------------------------------- MODULE MCSiem -------------------------------
(***************************************************************************)
(* A small instance of Siem: around a new year, with two days a window.    *)
(***************************************************************************)
EXTENDS Siem

CONSTANTS p1, p2, n1, n2, x1

Bsd == [matches |-> {"bsdNoPRI"}, word |-> NoWord, status |-> 0, pri |-> 0,
        dated |-> TRUE, about |-> "failure", agent |-> "host", lag |-> 1]
Json == [matches |-> {"json", "object", "nginx"}, word |-> "FATAL", status |-> 200,
         pri |-> 0, dated |-> TRUE, about |-> "other", agent |-> "app", lag |-> -1]

LineShapes == {Bsd, Json}
AlertShapes == {[severity |-> "HIGH", technique |-> "T1110"]}
Limits == [mitreTechniques |-> 1, topAgents |-> 1]

Plain(list, page) == [list |-> list, page |-> page, filter |-> Null]
Asked == {Overview, Plain("events", 1), [Plain("events", 1) EXCEPT !.filter = "CRITICAL"],
          [Plain("alerts", 1) EXCEPT !.filter = "open"]}
=============================================================================
