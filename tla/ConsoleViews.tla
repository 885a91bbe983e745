---------------------------- MODULE ConsoleViews ----------------------------
(***************************************************************************)
(* What the open console shows (App.tsx): copies of the server's alerts,   *)
(* alert settings, backup check, price rules and usage, read by a refresh, *)
(* by the thirty-second poll of the alerts and by the handlers of the      *)
(* pages.                                                                  *)
(*                                                                         *)
(* Each page disables its buttons with a state of its own, which is gone   *)
(* when the operator leaves the page; its requests are not cancelled, and  *)
(* answers are put in the copies in the order in which they arrive.        *)
(*                                                                         *)
(* A cell is one thing that is shown: a row of the alerts, a price rule, a *)
(* whole answer.  Its value is a number: the version of an alert, of the   *)
(* settings or of the check; whether a price rule is there (shown: how     *)
(* often); the query whose usage it is.                                    *)
(***************************************************************************)
EXTENDS Naturals, FiniteSets

CONSTANTS
  Alerts,      \* alerts
  Rules,       \* price rules
  Seeded,      \* the price rules there are at the start
  MaxQuery,    \* bound: filters of the usage page
  MaxCalls,    \* bound: requests under way at one time
  MaxActions,  \* bound: what the operator does
  MaxEvents,   \* bound: changes by others, and requests that fail
  None

(* The states that disable buttons: "alerts" is one string for the rows,   *)
(* the settings and the webhook; "check" (checkingAccount) belongs to App  *)
(* and outlives the page.                                                  *)
Disablers == {"alerts", "backup", "price", "deleting", "check"}

ASSUME ViewsAssumption ==
  /\ Seeded \subseteq Rules /\ Alerts \cap Rules = {}
  /\ {"settings", "backup", "usage", "summary"} \cap (Alerts \cup Rules) = {}
  /\ None \notin Disablers
  /\ {MaxQuery, MaxCalls, MaxActions, MaxEvents} \subseteq Nat

Cells == Alerts \cup Rules \cup {"settings", "backup", "usage", "summary"}
Usage == {"usage", "summary"}
Stored == Cells \ Usage
Versioned == Alerts \cup {"settings", "backup"}

(* The requests that read, each answered on its own.                       *)
Lists == {Alerts, Rules, {"settings"}, {"backup"}}

Slots == 1..MaxCalls
Views == {"overview", "accounts", "alerts", "usage", "settings"}

(* News of some cells, over what there is of the others.                   *)
Over(news, old) ==
  [x \in DOMAIN news \cup DOMAIN old |-> IF x \in DOMAIN news THEN news[x] ELSE old[x]]

VARIABLES
  server,   \* what the server has of each stored cell
  shown,    \* what the console shows of each cell
  view,     \* the page that is mounted
  draft,    \* the settings the form of the alerts page was filled from
  busy,     \* form -> what it is busy with: the disabled buttons
  loading,  \* the refresh button
  calls,    \* requests under way
  left,     \* bound: what may still happen
  told,     \* history: the newest version of a cell an answer told of; of a rule and
            \* of the usage, what the latest answer said
  tangled   \* history: the cells whose latest news met another request of theirs

vars == <<server, shown, view, draft, busy, loading, calls, left, told, tangled>>

Forms == Disablers \cup {None}
AtRest == [f \in Forms |-> None]

Ops == {"refresh", "poll", "list", "reread", "mark", "save", "test", "check",
        "backup", "create", "delete", "apply", "change"}

(* cells: what the answer is about; reads: the GETs still unanswered; saw: *)
(* what the server answered; backup: the check that the handler which      *)
(* sent it had when it began, and puts back when a refresh is answered;    *)
(* mounted: the page that sent it still shows the same form.               *)
Idle == [op |-> "idle", cells |-> {}]
Sending(op, cells, reads, form, arg) ==
  [op |-> op, cells |-> cells, reads |-> reads, form |-> form, arg |-> arg,
   saw |-> <<>>, backup |-> 0, mounted |-> TRUE, shared |-> {},
   done |-> op \in {"refresh", "poll", "list", "reread", "backup", "apply"}]

Busy(c) == calls[c].op # "idle"
Free(c) == ~Busy(c) /\ \A d \in Slots : d < c => Busy(d)

(* Requests about the same cell that are under way together are marked; two *)
(* that put back a check do not disturb each other.                        *)
Common(a, b) ==
  {x \in a.cells \cap b.cells : x = "backup" => "backup" \in {a.op, b.op}}
SendIn(c, call) ==
  calls' = [d \in Slots |->
    IF d = c
    THEN [call EXCEPT !.shared =
            @ \cup UNION {Common(call, calls[e]) : e \in Slots \ {c}}]
    ELSE IF Busy(d)
    THEN [calls[d] EXCEPT !.shared = @ \cup Common(calls[d], call)]
    ELSE Idle]
Send(call) == \E c \in Slots : Free(c) /\ SendIn(c, call)

Disable(form, x) == busy' = [busy EXCEPT ![form] = x]

Init ==
  /\ server = [x \in Stored |-> IF x \in Rules \ Seeded THEN 0 ELSE 1]
  /\ shown = [x \in Cells |-> IF x \in Usage THEN 0 ELSE server[x]]
  /\ view = "overview" /\ draft = 0
  /\ busy = AtRest /\ loading = FALSE
  /\ calls = [c \in Slots |-> Idle]
  /\ left = [actions |-> MaxActions, events |-> MaxEvents]
  /\ told = shown /\ tangled = {}

Spend(what) == left[what] > 0 /\ left' = [left EXCEPT ![what] = @ - 1]

-----------------------------------------------------------------------------
(* The operator *)

(* Another page: the state of the one that is left is gone, and the form   *)
(* of the alerts page is filled with the settings shown.  Bound: the        *)
(* operator stays where the last action was.                               *)
Go ==
  /\ left.actions > 0
  /\ \E v \in Views \ {view} :
       /\ view' = v
       /\ draft' = IF v = "alerts" THEN shown["settings"] ELSE 0
  /\ busy' = [AtRest EXCEPT !["check"] = busy["check"]]
  /\ calls' = [c \in Slots |->
       IF Busy(c) /\ calls[c].form \notin {"check", None}
       THEN [calls[c] EXCEPT !.mounted = FALSE] ELSE calls[c]]
  /\ UNCHANGED <<server, shown, loading, left, told, tangled>>

Acts == Spend("actions") /\ UNCHANGED <<server, shown, view, draft, told, tangled>>

(* refresh: all lists at once, but a backup check that was made before is  *)
(* kept, as the closure had it when it was rendered.                       *)
Refreshing(backup, shared) ==
  [Sending("refresh", Cells, Lists \ {{"backup"}}, None, 0) EXCEPT
     !.backup = backup, !.shared = shared, !.saw = [x \in Usage |-> 0]]
Refresh ==
  /\ ~loading /\ loading' = TRUE
  /\ Send(Refreshing(shown["backup"], {}))
  /\ UNCHANGED busy
  /\ Acts

(* An account or a key is switched, saved, created, deleted or revoked, and *)
(* then the refresh is called that the handler had when it began.  The page *)
(* of the accounts stands for that of the keys.                            *)
Change ==
  /\ view = "accounts"
  /\ Send([Sending("change", {"backup"}, {}, None, 0) EXCEPT !.backup = shown["backup"]])
  /\ UNCHANGED <<busy, loading>> /\ Acts

(* acknowledge, silence, resolve.                                          *)
Mark(a) ==
  /\ view = "alerts" /\ busy["alerts"] = None
  /\ Disable("alerts", a)
  /\ Send(Sending("mark", {a}, {}, "alerts", a))
  /\ UNCHANGED loading /\ Acts

SaveSettings ==
  /\ view = "alerts" /\ busy["alerts"] # "settings"
  /\ Disable("alerts", "settings")
  /\ Send(Sending("save", {"settings"}, {}, "alerts", draft))
  /\ UNCHANGED loading /\ Acts

TestWebhook ==
  /\ view = "alerts" /\ busy["alerts"] # "webhook"
  /\ Disable("alerts", "webhook")
  /\ Send(Sending("test", {}, {}, "alerts", 0))
  /\ UNCHANGED loading /\ Acts

(* A check of an account, which evaluates its alerts.                      *)
CheckAccount(a) ==
  /\ view = "accounts" /\ busy["check"] # a
  /\ Disable("check", a)
  /\ Send(Sending("check", {}, {}, "check", a))
  /\ UNCHANGED loading /\ Acts

CheckBackup ==
  /\ view = "settings" /\ busy["backup"] = None
  /\ Disable("backup", "backup")
  /\ Send(Sending("backup", {"backup"}, {{"backup"}}, "backup", 0))
  /\ UNCHANGED loading /\ Acts

(* A new rule gets an id that no rule ever had.                            *)
Unused(r) ==
  /\ server[r] = 0 /\ shown[r] = 0 /\ told[r] = 0
  /\ \A c \in Slots : Busy(c) => calls[c].arg # r

CreatePrice(r) ==
  /\ view = "settings" /\ busy["price"] = None /\ Unused(r)
  /\ Disable("price", "price")
  /\ Send(Sending("create", {r}, {}, "price", r))
  /\ UNCHANGED loading /\ Acts

DeletePrice(r) ==
  /\ view = "settings" /\ shown[r] > 0 /\ busy["deleting"] # r
  /\ Disable("deleting", r)
  /\ Send(Sending("delete", {r}, {}, "deleting", r))
  /\ UNCHANGED loading /\ Acts

(* The summary and the events of one query; nothing is disabled.           *)
ApplyFilter(q) ==
  /\ view = "usage" /\ loading' = TRUE
  /\ Send([Sending("apply", Usage, {}, None, q) EXCEPT !.saw = [x \in Usage |-> q]])
  /\ UNCHANGED busy
  /\ Acts

Operator ==
  \/ Go \/ Refresh \/ Change \/ SaveSettings \/ TestWebhook \/ CheckBackup
  \/ \E a \in Alerts : Mark(a) \/ CheckAccount(a)
  \/ \E r \in Rules : CreatePrice(r) \/ DeletePrice(r)
  \/ \E q \in 1..MaxQuery : ApplyFilter(q)

(* The timer of the console.                                               *)
PollOnItsPage ==
  /\ view = "alerts"
  /\ Send(Sending("poll", Alerts, {Alerts}, None, 0))
  /\ UNCHANGED <<server, shown, view, draft, busy, loading, left, told, tangled>>
Poll ==
  /\ Send(Sending("poll", Alerts, {Alerts}, None, 0))
  /\ UNCHANGED <<server, shown, view, draft, busy, loading, left, told, tangled>>

-----------------------------------------------------------------------------
(* The server *)

(* Evaluations, other operators and the passing of time.                   *)
Elsewhere ==
  /\ Spend("events")
  /\ \E x \in Stored :
       server' = [server EXCEPT ![x] = IF x \in Rules THEN 0 ELSE @ + 1]
  /\ server' # server
  /\ UNCHANGED <<shown, view, draft, busy, loading, calls, told, tangled>>

Read(c) ==
  \E list \in calls[c].reads :
    /\ calls' = [calls EXCEPT ![c].reads = @ \ {list},
                              ![c].saw = Over([x \in list |-> server[x]], @)]
    /\ UNCHANGED server

(* A save, a check and a change of an account evaluate the alerts.         *)
Written(call, rows) ==
  CASE call.op = "mark"   -> [server EXCEPT ![call.arg] = @ + 1]
    [] call.op = "create" -> [server EXCEPT ![call.arg] = 1]
    [] call.op = "delete" -> [server EXCEPT ![call.arg] = 0]
    [] call.op = "test"   -> [server EXCEPT !["settings"] = @ + 1]
    [] call.op = "save"   -> [x \in Stored |-> IF x \in rows \cup {"settings"}
                                               THEN server[x] + 1 ELSE server[x]]
    [] call.op \in {"check", "change"} ->
                             [x \in Stored |-> IF x \in rows THEN server[x] + 1
                                               ELSE server[x]]

(* What is changed here is shown by the refresh that follows.              *)
Tells(call) == IF call.op = "change" THEN {} ELSE call.cells

Write(c) ==
  /\ ~calls[c].done
  /\ calls[c].op = "delete" => server[calls[c].arg] = 1
  /\ \E rows \in {{}} \cup
       (IF calls[c].op \in {"save", "check", "change"} THEN {{a} : a \in Alerts} ELSE {}) :
       /\ server' = Written(calls[c], rows)
       /\ calls' = [calls EXCEPT ![c].done = TRUE,
                                 ![c].saw = [x \in Tells(calls[c]) |-> server'[x]]]

Serve(c) ==
  /\ Busy(c)
  /\ Read(c) \/ Write(c)
  /\ UNCHANGED <<shown, view, draft, busy, loading, left, told, tangled>>

-----------------------------------------------------------------------------
(* The answers *)

EnableIfAnswered(call) ==
  busy' = IF call.form # None /\ call.mounted /\ call.done
          THEN [busy EXCEPT ![call.form] = None] ELSE busy
Enable(call) ==
  busy' = IF call.form # None /\ call.mounted
          THEN [busy EXCEPT ![call.form] = None] ELSE busy

(* The handler of an answer: lists and whole answers replace what is shown, *)
(* an alert replaces its row, a new rule is put in front, a deleted one is  *)
(* filtered out of the rules.                                               *)
NotCaptured(call) == <<>>
CapturedAtLogin(call) == [x \in {"backup"} |-> 1]
Captured(call) == [x \in {"backup"} |-> call.backup]

InFront(r) == [shown EXCEPT ![r] = @ + 1]
FilteredOut(r) == [shown EXCEPT ![r] = 0]

Shows(call) ==
  CASE call.op = "create" -> InFront(call.arg)
    [] call.op = "delete" -> FilteredOut(call.arg)
    [] call.op = "refresh" -> Over(call.saw, Captured(call))
    [] OTHER -> Over(call.saw, shown)

(* The effect of AlertsPage: new settings replace its draft.               *)
DraftedAtMount(call) == draft
Drafted(call) ==
  IF view = "alerts" /\ "settings" \in call.cells THEN shown'["settings"] ELSE draft

(* What follows an answer in the same handler.                             *)
NextCall(call) ==
  CASE call.op \in {"save", "check"} ->
         {[Sending("list", Alerts, {Alerts}, call.form, call.arg)
            EXCEPT !.mounted = call.mounted]}
    [] call.op = "test" ->
         {[Sending("reread", {"settings"}, {{"settings"}}, call.form, call.arg)
            EXCEPT !.mounted = call.mounted]}
    [] call.op = "change" -> {Refreshing(call.backup, call.shared)}
    [] OTHER -> {}

Newer(x, a, b) == IF x \in Versioned /\ a > b THEN a ELSE b
Learn(call) ==
  /\ told' = [x \in Cells |-> IF x \in DOMAIN call.saw
                                 THEN Newer(x, told[x], call.saw[x]) ELSE told[x]]
  /\ tangled' = (tangled \ DOMAIN call.saw) \cup call.shared

Finish(c) ==
  /\ calls' = [calls EXCEPT ![c] = Idle]
  /\ Enable(calls[c])
  /\ loading' = IF calls[c].op \in {"refresh", "apply"} THEN FALSE ELSE loading

Answer(c) ==
  /\ Busy(c) /\ calls[c].done /\ calls[c].reads = {}
  /\ shown' = Shows(calls[c])
  /\ draft' = Drafted(calls[c])
  /\ Learn(calls[c])
  /\ IF NextCall(calls[c]) = {} THEN Finish(c)
     ELSE /\ \E call \in NextCall(calls[c]) : SendIn(c, call)
          /\ loading' = (loading \/ calls[c].op = "change")
          /\ UNCHANGED busy
  /\ UNCHANGED <<server, view, left>>

(* A rule that is gone, an alert that is resolved, a change that is wrong.  *)
Refuse(c) ==
  /\ Busy(c) /\ ~calls[c].done
  /\ \/ calls[c].op \in {"mark", "change"}
     \/ calls[c].op = "delete" /\ server[calls[c].arg] = 0
  /\ Finish(c)
  /\ UNCHANGED <<server, shown, view, draft, left, told, tangled>>

Fail(c) ==
  /\ Busy(c) /\ Spend("events")
  /\ Finish(c)
  /\ UNCHANGED <<server, shown, view, draft, told, tangled>>

-----------------------------------------------------------------------------
Progress(c) == Serve(c) \/ Answer(c) \/ Refuse(c) \/ Fail(c)

Next == Operator \/ Poll \/ Elsewhere \/ \E c \in Slots : Progress(c)

(* Every request is answered or given up, and the timer goes on.           *)
Spec ==
  /\ Init /\ [][Next]_vars
  /\ WF_vars(Poll) /\ \A c \in Slots : WF_vars(Progress(c))

-----------------------------------------------------------------------------
(* The copies, the forms and the requests have the shapes the code gives   *)
(* them; what is never read twice is never counted below zero.             *)
TypeOK ==
  /\ server \in [Stored -> Nat] /\ shown \in [Cells -> Nat]
  /\ view \in Views /\ draft \in Nat /\ loading \in BOOLEAN
  /\ \A c \in Slots : Busy(c) =>
       /\ calls[c].op \in Ops /\ calls[c].cells \subseteq Cells
       /\ calls[c].shared \subseteq calls[c].cells
       /\ DOMAIN calls[c].saw \subseteq Cells
  /\ DOMAIN told = Cells /\ tangled \subseteq Cells

(* What the console shows of an alert, of the settings and of the backup   *)
(* check is the newest version it was told of, of a rule and of the usage  *)
(* the latest answer, and the form of the alert settings is filled from    *)
(* it.  Excused is a thing whose news came while another request about it  *)
(* was under way: an answer, or for the backup a handler that will refresh.*)
(* No other answer sets a thing back, however old the closure that handles *)
(* it, and no rule is lost or shown twice.                                 *)
ToldIsShown ==
  /\ \A x \in Cells \ tangled : shown[x] = told[x]
  /\ view = "alerts" => draft = shown["settings"]

(* A button that is disabled is waited for by a request under way, so that *)
(* no page is left with a form that nobody will ever enable again.         *)
NoFormStuck ==
  /\ \A f \in Forms : busy[f] # None =>
       \E c \in Slots : Busy(c) /\ calls[c].form = f /\ calls[c].mounted
  /\ loading => \E c \in Slots : calls[c].op \in {"refresh", "apply"}

(* When the alerts no longer change, what is shown catches up with them,   *)
(* whatever answers were overtaken or lost before.                         *)
AlertsCatchUp == <>[](\A a \in Alerts : shown[a] = server[a])
=============================================================================
