------------------------------ MODULE Dashboard ------------------------------
(***************************************************************************)
(* The SIEM dashboard of the browser (frontend/components/                 *)
(* siem-dashboard.tsx): it shows the overview and a page of the alerts,    *)
(* filtered or not, and asks for both again whenever the selection changes *)
(* and every 30 s.  Requests are not cancelled, so that an answer about an *)
(* earlier selection may be the last to come.  An answer is known by its   *)
(* selection and the number of alerts that there are for it.               *)
(***************************************************************************)
EXTENDS Integers

CONSTANTS
  Filters,      \* What can be filtered by: a field and a value.
  Known,        \* Those that the API knows: the dashboard also offers "level".
  None,         \* No filter, or nothing to show.
  PageSize,     \* Alerts on a page (10 in the code).
  MaxRows,      \* Bound: alerts in the table.
  Loads,        \* Bound: calls of load that run at a time.
  MaxFail       \* Bound: calls of load that fail.

VARIABLES
  count,        \* count[f]: the alerts in the table that pass filter f.
  page, filter, \* The selection: page and activeFilter.
  alertsPage,   \* The states overview and alertsPage: an answer, or None.
  loading, error,
  step,         \* step[l]: how far call l of load is.
  answer,       \* answer[l]: what it asks for, and the total once it knows.
  fails         \* How many calls have failed.

dashboardVars == <<count, page, filter, alertsPage, loading, error, step, answer, fails>>

ActiveFilters == Filters \cup {None}
Answer == [page : Nat \ {0}, filter : ActiveFilters, total : Nat]

ASSUME DashboardAssumption ==
  /\ Known \subseteq Filters /\ None \notin Filters \cup Answer
  /\ PageSize \in Nat \ {0} /\ MaxRows \in Nat /\ MaxFail \in Nat

NoAnswer == [page |-> 1, filter |-> None, total |-> 0]

DashboardTypeOK ==
  /\ count \in [Known \cup {None} -> 0 .. MaxRows]
  /\ page \in Nat \ {0} /\ filter \in ActiveFilters
  /\ alertsPage = None \/ alertsPage \in Answer
  /\ loading \in BOOLEAN /\ error \in BOOLEAN
  /\ step \in [Loads -> {"free", "asked", "answered", "failed"}]
  /\ answer \in [Loads -> Answer]
  /\ fails \in 0 .. MaxFail
-----------------------------------------------------------------------------
(* load: a call for the selection that the component has, with the loader  *)
(* if the selection is new.                                                *)
Load(p, f, showLoader) ==
  \E l \in Loads :
    /\ step[l] = "free"
    /\ step' = [step EXCEPT ![l] = "asked"]
    /\ answer' = [answer EXCEPT ![l] = [page |-> p, filter |-> f, total |-> 0]]
    /\ loading' = (loading \/ showLoader) /\ error' = FALSE

(* The interval that the effect of the selection has set up, which is      *)
(* cleared when the selection changes, and the button Refresh, which is    *)
(* disabled while loading.  A change could keep the first interval.        *)
RefreshFirst ==
  Load(1, None, FALSE) /\ UNCHANGED <<count, page, filter, alertsPage, fails>>

Refresh ==
  Load(page, filter, FALSE) /\ UNCHANGED <<count, page, filter, alertsPage, fails>>

(* A change could call the load of the selection before.                   *)
SelectStale(p, f) ==
  /\ page' = p /\ filter' = f
  /\ Load(page, filter, TRUE)
  /\ UNCHANGED <<count, alertsPage, fails>>

(* The effect of a new page or filter.                                     *)
Select(p, f) ==
  /\ page' = p /\ filter' = f
  /\ Load(p, f, TRUE)
  /\ UNCHANGED <<count, alertsPage, fails>>

(* Nothing but the loader is there before the first call has ended.        *)
Visible == ~loading \/ alertsPage # None

(* A filter leads to the first page (handleApplyFilter).  It is a new      *)
(* object, so that the same filter is asked for again.                     *)
SelectFilter ==
  Visible /\ \E f \in Filters \cup (IF filter = None THEN {} ELSE {None}) : Select(1, f)

(* The buttons of the pagination go by the total of what is shown, which   *)
(* may be about another filter.                                            *)
TotalPages == (alertsPage.total + PageSize - 1) \div PageSize

SelectPage ==
  /\ alertsPage # None
  /\ \E p \in 1 .. page + 2 :
       /\ p = page - 1 \/ (p \in page - 2 .. TotalPages /\ p # page)
       /\ Select(p, filter)
-----------------------------------------------------------------------------
(* The API ignores a filter it does not know (ListAlerts).                 *)
TotalFor(f) == count[IF f \in Known THEN f ELSE None]

(* Both requests of a call have been answered, or one has failed           *)
(* (Promise.all).                                                          *)
Respond(l) ==
  /\ step[l] = "asked"
  /\ \/ /\ step' = [step EXCEPT ![l] = "answered"]
        /\ answer' = [answer EXCEPT ![l].total = TotalFor(answer[l].filter)]
        /\ UNCHANGED fails
     \/ /\ fails < MaxFail /\ fails' = fails + 1
        /\ step' = [step EXCEPT ![l] = "failed"] /\ UNCHANGED answer
  /\ UNCHANGED <<count, page, filter, alertsPage, loading, error>>

Forget(l) ==
  /\ step' = [step EXCEPT ![l] = "free"] /\ answer' = [answer EXCEPT ![l] = NoAnswer]

(* The rest of load, whatever is selected by now.                          *)
Receive(l) ==
  /\ step[l] \in {"answered", "failed"} /\ Forget(l)
  /\ loading' = FALSE
  /\ IF step[l] = "answered"
     THEN alertsPage' = answer[l] /\ UNCHANGED error
     ELSE error' = TRUE /\ UNCHANGED alertsPage
  /\ UNCHANGED <<count, page, filter, fails>>

(* Alerts come, go and change.                                             *)
Counts == {c \in [Known \cup {None} -> 0 .. MaxRows] : \A f \in Known : c[f] <= c[None]}

Change ==
  /\ count' \in Counts
  /\ UNCHANGED <<page, filter, alertsPage, loading, error, step, answer, fails>>

(* The effect of the first render asks for the first page.                 *)
DashboardInit ==
  /\ count \in Counts
  /\ page = 1 /\ filter = None /\ alertsPage = None /\ loading = TRUE /\ error = FALSE
  /\ \E l \in Loads : step = [k \in Loads |-> IF k = l THEN "asked" ELSE "free"]
  /\ answer = [l \in Loads |-> NoAnswer] /\ fails = 0

DashboardNext ==
  \/ Refresh \/ SelectFilter \/ SelectPage \/ Change
  \/ \E l \in Loads : Respond(l) \/ Receive(l)

(* The interval goes on, and every request is answered, in any order; a    *)
(* lost one counts as failed.                                              *)
DashboardFairness ==
  /\ WF_dashboardVars(Refresh)
  /\ \A l \in Loads : WF_dashboardVars(Respond(l)) /\ WF_dashboardVars(Receive(l))

DashboardSpec == DashboardInit /\ [][DashboardNext]_dashboardVars /\ DashboardFairness
-----------------------------------------------------------------------------
(* Whoever waits is being served: while the dashboard says that it is      *)
(* loading, the selection that is there now is being asked for, although   *)
(* the end of any other call ends the loader as well.                      *)
Asking == \E l \in Loads : /\ step[l] # "free"
                           /\ answer[l].page = page /\ answer[l].filter = filter
LoadingIsAsking == loading => Asking

(* The dashboard is empty only with an error that says why, or while a     *)
(* call is running, although each call clears the error of another.        *)
EmptyIsExplained ==
  alertsPage = None => error \/ \E l \in Loads : step[l] # "free"

(* Once the selection and the table are left alone and requests succeed,   *)
(* the dashboard comes to show what is selected as it is in the table, and *)
(* neither an error nor the loader: late answers are corrected by the next *)
(* refresh.                                                                *)
LoadStep == Refresh \/ \E l \in Loads : Respond(l) \/ Receive(l)
Expected == [page |-> page, filter |-> filter, total |-> TotalFor(filter)]
Converges ==
  <>[][LoadStep]_dashboardVars => <>[](alertsPage = Expected /\ ~error /\ ~loading)
=============================================================================
