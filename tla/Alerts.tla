------------------------------- MODULE Alerts -------------------------------
(***************************************************************************)
(* The alerts: a periodic run walks over the alert types, looks up who is  *)
(* to be told about what, and creates a notification unless the user has   *)
(* an unread one about it.  Users read their inbox, owners switch types    *)
(* off and on, and what the alerts are about changes all the time.         *)
(***************************************************************************)
EXTENDS Integers, Sequences, FiniteSets

CONSTANTS
  Runs,       \* the runs of the alerts that can be in progress
  Requests,   \* the requests that change preferences
  Users, Subjects,
  MaxDay,     \* bound on the days that pass
  Window,     \* the default look-ahead, in days; clients set 0 or none
  MaxDeaths   \* bound on the runs and requests that die

AlertTypes == <<"OVERDUE_INVOICE", "PAYMENT_DUE", "LOW_INVENTORY",
                "PO_AWAITING_APPROVAL", "BUDGET_OVERRUN", "DEADLINE_APPROACHING">>
Types == {AlertTypes[n] : n \in DOMAIN AlertTypes}
Days == 0..MaxDay
Roles == {"OWNER", "ACCOUNTANT", "inactive"}

ASSUME AlertsAssumption ==
  /\ MaxDay \in Nat /\ Window \in Nat /\ MaxDeaths \in Nat
  /\ Runs \cap Requests = {}

VARIABLES
  today,
  role,       \* the role of each user, or that the account is switched off
  subject,    \* what alerts are about: invoices, stock, orders, projects
  unread,     \* how many unread notifications a user has about something
  pref,       \* the preference rows
  deaths,     \* how many runs and requests have died
  job         \* what each run or request holds

vars == <<today, role, subject, unread, pref, deaths, job>>
-----------------------------------------------------------------------------
(* open: an invoice is outstanding, stock is below its minimum, an order   *)
(* is submitted, a project is active.  over: more was spent than budgeted. *)
Subject == [kind : {"invoice", "stock", "order", "project"}, open : BOOLEAN,
            due : Days, over : BOOLEAN]

NULL == -1
Pref == [there : BOOLEAN, enabled : BOOLEAN, window : Days \cup {NULL}]
NoPref == [there |-> FALSE, enabled |-> TRUE, window |-> NULL]

(* The default window, where a row gives none or there is no row.          *)
Ahead(t) == IF pref[t].there /\ pref[t].window # NULL THEN pref[t].window ELSE Window

RoleFor(t) == IF t \in {"OVERDUE_INVOICE", "PAYMENT_DUE"} THEN "ACCOUNTANT" ELSE "OWNER"
Recipients(t) == {u \in Users : role[u] = RoleFor(t)}

KindFor(t) ==
  IF t \in {"OVERDUE_INVOICE", "PAYMENT_DUE"} THEN "invoice"
  ELSE IF t = "LOW_INVENTORY" THEN "stock"
  ELSE IF t = "PO_AWAITING_APPROVAL" THEN "order" ELSE "project"

Soon(t, s) == subject[s].due \in today..(today + Ahead(t))
Flagged(t) ==
  {s \in Subjects :
     /\ subject[s].kind = KindFor(t) /\ subject[s].open
     /\ t = "OVERDUE_INVOICE" => subject[s].due < today
     /\ t \in {"PAYMENT_DUE", "DEADLINE_APPROACHING"} => Soon(t, s)
     /\ t = "BUDGET_OVERRUN" => subject[s].over}

(* The types somebody can be told about in this behaviour.                 *)
Relevant == {t \in Types : \E s \in Subjects : subject[s].kind = KindFor(t)}

Cells == Users \X Types \X Subjects

(* next, stage: which alert type a run is at, and what it asks for next;   *)
(* todo: what it has still to look up; missing: what it found nobody       *)
(* notified of; keys: the rows a PATCH has still to save.                  *)
Idle == [op |-> "idle", next |-> 1, stage |-> "enabled", todo |-> {}, missing |-> {}, keys |-> {}]
Job == [op : {"idle", "run", "prefs"}, next : 1..(Len(AlertTypes) + 1),
        stage : {"enabled", "rows", "generate"}, todo : SUBSET Cells,
        missing : SUBSET Cells, keys : SUBSET Types]
-----------------------------------------------------------------------------
(* generate_all_notifications. *)

StartRun(r) ==
  /\ job[r] = Idle
  /\ job' = [job EXCEPT ![r].op = "run"]
  /\ UNCHANGED <<today, role, subject, unread, pref, deaths>>

AtType(r, stage) ==
  /\ job[r].op = "run" /\ job[r].todo = {} /\ job[r].missing = {}
  /\ job[r].next <= Len(AlertTypes) /\ job[r].stage = stage

(* Whether a type is on takes two queries: is there a row that says so?    *)
(* If not, is there a row at all?                                          *)
SwitchedOn(t) == pref[t].there /\ pref[t].enabled
AskEnabled(r) ==
  /\ AtType(r, "enabled")
  /\ job' = [job EXCEPT ![r].stage =
                IF SwitchedOn(AlertTypes[job[r].next]) THEN "generate" ELSE "rows"]
  /\ UNCHANGED <<today, role, subject, unread, pref, deaths>>

SkipType(r) ==
  /\ AtType(r, "rows") /\ pref[AlertTypes[job[r].next]].there
  /\ job' = [job EXCEPT ![r].stage = "enabled", ![r].next = @ + 1]
  /\ UNCHANGED <<today, role, subject, unread, pref, deaths>>

NoRowOfType(r) ==
  /\ AtType(r, "rows") /\ ~pref[AlertTypes[job[r].next]].there
  /\ job' = [job EXCEPT ![r].stage = "generate"]
  /\ UNCHANGED <<today, role, subject, unread, pref, deaths>>

Generate(r) ==
  LET t == AlertTypes[job[r].next] IN
  /\ AtType(r, "generate")
  /\ job' = [job EXCEPT ![r].stage = "enabled", ![r].next = @ + 1,
                        ![r].todo = Recipients(t) \X {t} \X Flagged(t)]
  /\ UNCHANGED <<today, role, subject, unread, pref, deaths>>

(* _notify: is there an unread one?  Then, later, create it. *)
NeverPending(cell) == FALSE
PendingOfAnyType(cell) == \E t \in Types : unread[<<cell[1], t, cell[3]>>] > 0
AlreadyPending(cell) == unread[cell] > 0
LookUp(r) ==
  /\ job[r].op = "run" /\ job[r].missing = {}
  /\ \E cell \in job[r].todo :
       job' = [job EXCEPT ![r].todo = @ \ {cell},
                          ![r].missing = IF AlreadyPending(cell) THEN {} ELSE {cell}]
  /\ UNCHANGED <<today, role, subject, unread, pref, deaths>>

Notify(r) ==
  /\ \E cell \in job[r].missing :
       unread' = [unread EXCEPT ![cell] = IF @ < 2 THEN @ + 1 ELSE @]
  /\ job' = [job EXCEPT ![r].missing = {}]
  /\ UNCHANGED <<today, role, subject, pref, deaths>>

EndRun(r) ==
  /\ job[r].op = "run" /\ job[r].todo = {} /\ job[r].missing = {}
  /\ job[r].next > Len(AlertTypes)
  /\ job' = [job EXCEPT ![r] = Idle]
  /\ UNCHANGED <<today, role, subject, unread, pref, deaths>>

(* A run stops, or a request fails, half way; what it saved stays.         *)
Die(r) ==
  /\ job[r] # Idle
  /\ deaths < MaxDeaths
  /\ deaths' = deaths + 1
  /\ job' = [job EXCEPT ![r] = Idle]
  /\ UNCHANGED <<today, role, subject, unread, pref>>
-----------------------------------------------------------------------------
(* The inbox. *)

MarkRead(cell) ==
  /\ unread[cell] > 0
  /\ unread' = [unread EXCEPT ![cell] = @ - 1]
  /\ UNCHANGED <<today, role, subject, pref, deaths, job>>

MarkAllRead(u) ==
  /\ unread' = [cell \in Cells |-> IF cell[1] = u THEN 0 ELSE unread[cell]]
  /\ UNCHANGED <<today, role, subject, pref, deaths, job>>
-----------------------------------------------------------------------------
(* The preferences.  Missing rows are created when they are first looked   *)
(* at, all in one statement; a PATCH then saves one row after the other.   *)

Created == [there |-> TRUE, enabled |-> TRUE, window |-> NULL]
AllRows == [t \in Types |-> IF pref[t].there THEN pref[t] ELSE Created]

ShowPrefs ==
  /\ pref' = AllRows
  /\ UNCHANGED <<today, role, subject, unread, deaths, job>>

Windows(t) == IF t \in {"PAYMENT_DUE", "DEADLINE_APPROACHING"} THEN {0, NULL} ELSE {NULL}
PatchPrefs(r) ==
  /\ job[r] = Idle
  /\ pref' = AllRows
  /\ \E keys \in (SUBSET Relevant) \ {{}} :
       job' = [job EXCEPT ![r] = [Idle EXCEPT !.op = "prefs", !.keys = keys]]
  /\ UNCHANGED <<today, role, subject, unread, deaths>>

SavePref(r) ==
  /\ job[r].op = "prefs"
  /\ \E t \in job[r].keys : \E enabled \in BOOLEAN, window \in Windows(t) :
       /\ pref' = [pref EXCEPT ![t] = [there |-> TRUE, enabled |-> enabled, window |-> window]]
       /\ job' = [job EXCEPT ![r] = IF job[r].keys = {t} THEN Idle
                                    ELSE [job[r] EXCEPT !.keys = job[r].keys \ {t}]]
  /\ UNCHANGED <<today, role, subject, unread, deaths>>
-----------------------------------------------------------------------------
(* What the alerts are about, as the rest of the application changes it.   *)

NewDay ==
  /\ today < MaxDay
  /\ today' = today + 1
  /\ UNCHANGED <<role, subject, unread, pref, deaths, job>>

SubjectChanges(s) ==
  /\ \E open, over \in BOOLEAN :
       subject' = [subject EXCEPT ![s].open = open,
                                  ![s].over = over /\ subject[s].kind = "project"]
  /\ UNCHANGED <<today, role, unread, pref, deaths, job>>

UserChanges(u) ==
  /\ \E new \in Roles : role' = [role EXCEPT ![u] = new]
  /\ UNCHANGED <<today, subject, unread, pref, deaths, job>>
-----------------------------------------------------------------------------
Init ==
  /\ today = 0
  /\ role \in [Users -> {"OWNER", "ACCOUNTANT"}]
  /\ subject \in [Subjects -> {s \in Subject : ~s.open /\ ~s.over}]
  /\ unread = [cell \in Cells |-> 0]
  /\ pref = [t \in Types |-> NoPref]
  /\ deaths = 0
  /\ job = [r \in Runs \cup Requests |-> Idle]

Run(r) ==
  \/ AskEnabled(r) \/ SkipType(r) \/ NoRowOfType(r) \/ Generate(r)
  \/ LookUp(r) \/ Notify(r) \/ EndRun(r)

Next ==
  \/ \E r \in Runs : StartRun(r) \/ Run(r)
  \/ \E r \in Requests : PatchPrefs(r) \/ SavePref(r)
  \/ \E r \in Runs \cup Requests : Die(r)
  \/ \E cell \in Cells : MarkRead(cell)
  \/ \E u \in Users : MarkAllRead(u) \/ UserChanges(u)
  \/ \E s \in Subjects : SubjectChanges(s)
  \/ ShowPrefs \/ NewDay

(* The command is scheduled again and again, and its process goes on.      *)
Fairness ==
  \A r \in Runs : WF_vars(StartRun(r) \/ Run(r))
Spec == Init /\ [][Next]_vars /\ Fairness
-----------------------------------------------------------------------------
(* What the first property below needs of the environment: the command is  *)
(* not started while it runs.                                              *)
OneRunAtATime == \A r, q \in Runs : r = q
-----------------------------------------------------------------------------
(* Every variable holds a value of its kind. *)
TypeOK ==
  /\ today \in Days /\ role \in [Users -> Roles]
  /\ subject \in [Subjects -> Subject]
  /\ unread \in [Cells -> 0..2]
  /\ pref \in [Types -> Pref]
  /\ deaths \in 0..MaxDeaths
  /\ job \in [Runs \cup Requests -> Job]

(* Nobody has two unread notifications about the same thing, however often *)
(* the alerts run (notifications/services.py, "deduplicated").             *)
NoDuplicatePending == \A cell \in Cells : unread[cell] <= 1

(* A user who is to be told about something that lasts finds an unread     *)
(* notification about it again and again, also after reading one.          *)
Due(u, t, s) == (pref[t].there => pref[t].enabled) /\ u \in Recipients(t) /\ s \in Flagged(t)
Reminded ==
  \A u \in Users, t \in Types, s \in Subjects :
    <>[]Due(u, t, s) => []<>(unread[<<u, t, s>>] > 0)
=============================================================================
