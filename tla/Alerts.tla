------------------------------- MODULE Alerts -------------------------------
(***************************************************************************)
(* The alert centre (AlertStore): what is wrong with accounts, with the    *)
(* quotas of keys, and with the recent requests; what the operator decided *)
(* about it; and what a webhook is told.                                   *)
(*                                                                         *)
(* An evaluation takes a view of an account or a key, then reads the       *)
(* settings, then raises or resolves an alert, each under a lock of its    *)
(* own; polls, console, admin calls and ends of requests evaluate at the   *)
(* same time.                                                              *)
(***************************************************************************)
EXTENDS Naturals, Sequences, FiniteSets, SequencesExt

CONSTANTS
  AccountIds, Objects, Ident,   \* account objects, and the id of each
  Initial,                      \* the pool at the start
  Keys,                         \* virtual keys
  QuotaKinds,                   \* the quotas of a key, in the order of evaluation
  Answers,                      \* what the balance endpoint may tell of an account
  Levels,                       \* what usage may be, against a quota
  Poller, Handlers,             \* goroutines
  Settings,                     \* settings the operator may choose
  MayFail,                      \* sources whose best-effort writes may fail
  Silences,                     \* how long an operator may silence an alert
  Minute, MaxLag, MaxTime,      \* lengths, and bounds, in ticks
  CompactAt,                    \* the window is compacted at so many dropped outcomes
  MaxEvents,                    \* bound: how much happens to the system
  NoScope

Workers == {Poller} \cup Handlers
Subjects == Objects \cup Keys
Scope(x) == IF x \in Keys THEN x ELSE Ident[x]

AccountKinds == <<"account_check", "low_balance">>
KindsOf(x) == IF x \in Keys THEN QuotaKinds ELSE AccountKinds
SourceOf(x, i) == <<KindsOf(x)[i], Scope(x)>>
SourcesOf(x) == {SourceOf(x, i) : i \in DOMAIN KindsOf(x)}
ErrorRate == <<"error_rate", "global">>
Sources == (UNION {SourcesOf(x) : x \in Subjects}) \cup {ErrorRate}

VARIABLES
  now,       \* the clock
  pool,      \* the account objects of the pool
  made,      \* the account objects there have been
  upstream,  \* id -> what the balance endpoint would tell of it
  reading,   \* subject -> kind -> level: balances of the objects, usage of the keys
  settings,
  center,    \* the alerts, their rows, and histories: failed writes, what was told
  window,    \* the outcomes of recent requests
  events,    \* the usage events in SQLite
  recorded,  \* history: the outcomes this process gave the window, by time; how many
             \* events there were when it started; where the window starts
  work,      \* where each goroutine stands
  left       \* bound: what may still happen

vars == <<now, pool, made, upstream, reading, settings, center, window, events,
          recorded, work, left>>
system == <<now, pool, made, upstream, settings, left>>

ASSUME AlertsAssumption ==
  /\ Ident \in [Objects -> AccountIds] /\ Initial \subseteq Objects
  /\ Poller \notin Handlers
  /\ QuotaKinds \in Seq(STRING) /\ (Keys # {} => QuotaKinds # <<>>)
  /\ {Minute, MaxLag, MaxTime, CompactAt, MaxEvents} \cup Silences \subseteq Nat
  /\ \A s \in Settings : {s.rate, s.window, s.atLeast} \subseteq Nat \ {0}

-----------------------------------------------------------------------------
(* Alerts.                                                                 *)

NoAlert == [status |-> "none", severity |-> "none", until |-> 0, seen |-> 0]
Active(item) == item.status \in {"open", "acknowledged", "silenced"}

\* persistAlertBestEffortLocked: a write that fails is logged, and not repeated.
Saved(c, S, fails) ==
  [c EXCEPT !.rows = [src \in Sources |-> IF src \in S \ fails THEN c.alerts[src]
                                          ELSE c.rows[src]],
            !.missed = (c.missed \ S) \cup (S \cap fails)]

\* notifyLocked: the webhook is told, unless it is off or wants critical ones only.
Listens(s, severity) ==
  s.webhook = "all" \/ (s.webhook = "critical" /\ severity = "critical")
Told(c, S, event, s) ==
  [c EXCEPT !.told = [src \in Sources |->
     IF src \notin S THEN c.told[src]
     ELSE IF Listens(s, c.alerts[src].severity)
       THEN [event |-> event, severity |-> c.alerts[src].severity]
       ELSE [event |-> "withheld", severity |-> "none"]]]

Put(c, S, Change(_)) ==
  [c EXCEPT !.alerts = [src \in Sources |-> IF src \in S THEN Change(c.alerts[src])
                                            ELSE c.alerts[src]]]

Lapsed(item, t) == item.status = "silenced" /\ item.until <= t
Reopens(item) == item.status \in {"none", "resolved"}
Escalates(item, severity) == item.severity # "critical" /\ severity = "critical"

SavesAtStart(item, severity, t) ==
  Reopens(item) \/ Escalates(item, severity) \/ t >= item.seen + Minute
Saves(item, severity, t) ==
  Reopens(item) \/ Escalates(item, severity) \/ Lapsed(item, t) \/ t >= item.seen + Minute

EventAtStart(item, severity) == IF Reopens(item) THEN "raised" ELSE "none"
EventOf(item, severity) ==
  IF Reopens(item) THEN "raised"
  ELSE IF Escalates(item, severity) THEN "escalated" ELSE "none"

Raised(c, src, severity, t, s, fails) ==
  LET item == c.alerts[src]
      opens == Reopens(item) \/ Lapsed(item, t) \/ Escalates(item, severity)
      Again(old) == [status |-> IF opens THEN "open" ELSE old.status,
                     severity |-> severity,
                     until |-> IF opens THEN 0 ELSE old.until,
                     seen |-> t]
      put == Put(c, {src}, Again)
      event == EventOf(item, severity)
      saved == IF Saves(item, severity, t) THEN Saved(put, {src}, fails) ELSE put
  IN  IF event = "none" THEN saved ELSE Told(saved, {src}, event, s)

ResolvableIfOpen(item) == item.status = "open"
Resolvable(item) == Active(item)

ClosedStillSilenced(item) == [item EXCEPT !.status = "resolved"]
Closed(item) == [item EXCEPT !.status = "resolved", !.until = 0]
Resolved(c, S, s, fails) ==
  LET R == {src \in S : Resolvable(c.alerts[src])}
  IN  Told(Saved(Put(c, R, Closed), R, fails), R, "resolved", s)

\* What the view of a subject, under the settings, says of an alert.
Grade(kind, level, s) ==
  CASE level = "unknown" /\ kind = "account_check" -> "keep"
    [] level = "full" -> "critical"
    [] level = "high" -> "warning"
    [] level = "near" /\ s.early -> "warning"
    [] OTHER -> "clear"

Judged(c, src, grade, t, s, fails) ==
  CASE grade = "keep" -> c
    [] grade = "clear" -> Resolved(c, {src}, s, fails)
    [] OTHER -> Raised(c, src, grade, t, s, fails)

Reopened(item) == [item EXCEPT !.status = "open", !.until = 0]
SilencesExpired(c, t, fails) ==
  LET E == {src \in Sources : Lapsed(c.alerts[src], t)}
  IN  Saved(Put(c, E, Reopened), E, fails)

-----------------------------------------------------------------------------
(* The window of recent outcomes.                                          *)

Live(w) == SubSeq(w.outcomes, w.start + 1, Len(w.outcomes))
Errors(outcomes) == Cardinality({i \in DOMAIN outcomes : outcomes[i].failed})

\* The outcomes before the first that is recent enough are dropped.
Dropped(w, t, s) ==
  LET start == CHOOSE i \in w.start .. Len(w.outcomes) :
                 /\ i < Len(w.outcomes) => w.outcomes[i + 1].at + s.window >= t
                 /\ \A j \in w.start + 1 .. i : w.outcomes[j].at + s.window < t
  IN  [w EXCEPT !.start = start,
                !.errors = @ - Errors(SubSeq(w.outcomes, w.start + 1, start))]

CompactedByOneMore(w) ==
  IF w.start >= CompactAt /\ 2 * w.start >= Len(w.outcomes)
    THEN [w EXCEPT !.outcomes = SubSeq(@, w.start + 2, Len(@)), !.start = 0] ELSE w
Compacted(w) ==
  IF w.start >= CompactAt /\ 2 * w.start >= Len(w.outcomes)
    THEN [w EXCEPT !.outcomes = Live(w), !.start = 0] ELSE w

Pruned(w, t, s) == Compacted(Dropped(w, t, s))

RateGrade(w, s) ==
  LET count == Len(w.outcomes) - w.start IN
    IF count < s.atLeast \/ 100 * w.errors < s.rate * count THEN "clear"
    ELSE IF 2 * w.errors >= count THEN "critical" ELSE "warning"

\* load reads the events that are recent, in the order of the ticks they started in; the
\* order within a tick is that of the digits of their times.
RecentAfter(t, s) == {i \in DOMAIN events : events[i].started + s.window > t}
Recent(t, s) == {i \in DOMAIN events : events[i].started + s.window >= t}
Orders(recent) ==
  {order \in Bijection(1 .. Cardinality(recent), recent) :
     \A j, k \in DOMAIN order :
       j < k => events[order[j]].started <= events[order[k]].started}
Outcomes(order) ==
  [k \in DOMAIN order |-> [at |-> events[order[k]].started,
                           failed |-> events[order[k]].failed]]
Loaded(order) ==
  [outcomes |-> Outcomes(order), start |-> 0, errors |-> Errors(Outcomes(order))]

-----------------------------------------------------------------------------
(* Goroutines.                                                             *)

Unknown == [kind \in ToSet(AccountKinds) |-> "unknown"]
Off(x) == [kind \in ToSet(KindsOf(x)) |-> "off"]
Enabled(x) == reading[x] # Off(x)

NoWork == [at |-> "idle", loop |-> "none", then |-> "idle", todo |-> {}, on |-> NoScope,
           view |-> <<>>, next |-> 0, early |-> FALSE, now |-> 0,
           started |-> 0, failed |-> FALSE]
Idle(w) == work[w].at = "idle"
Does(w, doing) == work' = [work EXCEPT ![w] = doing]

\* A goroutine goes on with what it has to do, and then does what follows.
GoesOn(doing) ==
  IF doing.todo # {} THEN [doing EXCEPT !.at = "loop"]
  ELSE IF doing.then = "idle" THEN NoWork ELSE [doing EXCEPT !.at = doing.then]
Loop(loop, then, todo) ==
  GoesOn([NoWork EXCEPT !.loop = loop, !.then = then, !.todo = todo,
                        !.now = IF loop = "view" THEN now ELSE 0])

\* Of what there is to evaluate, low balances and quotas are compared with a setting
\* read before.
AtSource(doing, i) ==
  [doing EXCEPT !.next = i,
                !.at = IF KindsOf(doing.on)[i] = "account_check" THEN "judge" ELSE "grade"]

\* Callers that have read the clock.
Stamped(w) ==
  \/ work[w].at \in {"grade", "judge", "usage", "list", "record"}
  \/ work[w].at \in {"loop", "view"} /\ work[w].loop # "poll"

Happens == left > 0 /\ left' = left - 1
Fails == SUBSET MayFail

Cut(t, s) == IF t > s.window /\ t - s.window > recorded.cut THEN t - s.window
             ELSE recorded.cut
NothingGiven == [t \in 0 .. MaxTime |-> [f \in BOOLEAN |-> 0]]

Init ==
  /\ now = 0 /\ pool = Initial /\ made = Initial /\ left = MaxEvents
  /\ upstream \in [AccountIds -> Answers]
  /\ reading = [x \in Subjects |->
                  IF x \in Keys THEN [kind \in ToSet(QuotaKinds) |-> "fine"] ELSE Unknown]
  /\ settings \in Settings
  /\ center = [alerts |-> [src \in Sources |-> NoAlert],
               rows |-> [src \in Sources |-> NoAlert],
               missed |-> {},
               told |-> [src \in Sources |-> [event |-> "none", severity |-> "none"]]]
  /\ window = [outcomes |-> <<>>, start |-> 0, errors |-> 0]
  /\ events = <<>>
  /\ recorded = [given |-> NothingGiven, loaded |-> 0, cut |-> 0]
  /\ work = [w \in Workers |-> NoWork]

Tick ==
  /\ now < MaxTime
  /\ \A w \in Workers : Stamped(w) => now < work[w].now + MaxLag
  /\ now' = now + 1
  /\ UNCHANGED <<pool, made, upstream, reading, settings, center, window, events,
                 recorded, work, left>>

BalanceChanges(id) ==
  /\ Happens
  /\ \E answer \in Answers : upstream' = [upstream EXCEPT ![id] = answer]
  /\ UNCHANGED <<now, pool, made, reading, settings, center, window, events, recorded,
                 work>>

-----------------------------------------------------------------------------
(* Evaluations.                                                            *)

PollBalancesOnce ==
  /\ Idle(Poller)
  /\ \E x \in pool : Enabled(x)
  /\ Does(Poller, Loop("poll", "idle", {x \in pool : Enabled(x)}))
  /\ UNCHANGED <<system, reading, center, window, events, recorded>>

CheckAccount(h) ==
  /\ Idle(h) /\ Happens
  /\ \E x \in pool : Enabled(x) /\ Does(h, Loop("poll", "idle", {x}))
  /\ UNCHANGED <<now, pool, made, upstream, settings, reading, center, window, events,
                 recorded>>

\* Accounts come first, in any order; the keys are viewed all at once.
NextSubject(w) ==
  /\ work[w].at = "loop"
  /\ \E x \in work[w].todo :
       LET doing == [work[w] EXCEPT !.on = x, !.todo = @ \ {x}] IN
         CASE work[w].loop = "poll" -> Does(w, [doing EXCEPT !.at = "poll"])
           [] work[w].loop = "view" /\ x \in Objects ->
                Does(w, [doing EXCEPT !.at = "view"])
           [] work[w].loop = "view" /\ work[w].todo \subseteq Keys ->
                Does(w, AtSource([doing EXCEPT !.loop = "list", !.view =
                                    [k \in work[w].todo |-> reading[k]]], 1))
           [] work[w].loop = "list" -> Does(w, AtSource(doing, 1))
           [] OTHER -> FALSE
  /\ UNCHANGED <<system, reading, center, window, events, recorded>>

\* pollAccountBalance gets an answer, or none in time.
Answered(w) ==
  /\ work[w].at = "poll"
  /\ reading' = [reading EXCEPT ![work[w].on] = upstream[Ident[work[w].on]]]
  /\ Does(w, [work[w] EXCEPT !.at = "view"])
  /\ UNCHANGED <<system, center, window, events, recorded>>

TakeView(w) ==
  /\ work[w].at = "view"
  /\ Does(w, AtSource([work[w] EXCEPT
                         !.view = [x \in {work[w].on} |-> reading[x]],
                         !.now = IF work[w].loop = "poll" THEN now ELSE @], 1))
  /\ UNCHANGED <<system, reading, center, window, events, recorded>>

ReadSettings(w) ==
  /\ work[w].at = "grade"
  /\ Does(w, [work[w] EXCEPT !.early = settings.early, !.at = "judge"])
  /\ UNCHANGED <<system, reading, center, window, events, recorded>>

Judge(w) ==
  /\ work[w].at = "judge"
  /\ LET x == work[w].on
         i == work[w].next
         kind == KindsOf(x)[i]
         grade == Grade(kind, work[w].view[x][kind], work[w]) IN
       /\ \E fails \in Fails :
            center' = Judged(center, SourceOf(x, i), grade, work[w].now, settings, fails)
       /\ Does(w, IF i < Len(KindsOf(x)) THEN AtSource(work[w], i + 1)
                  ELSE GoesOn(work[w]))
  /\ UNCHANGED <<system, reading, window, events, recorded>>

ResolveScope(w) ==
  /\ work[w].at = "scope"
  /\ \E fails \in Fails :
       center' = Resolved(center, SourcesOf(work[w].on), settings, fails)
  /\ Does(w, NoWork)
  /\ UNCHANGED <<system, reading, window, events, recorded>>

\* evaluateErrorRateLocked
EvaluateErrorRate(c, w, t, s) ==
  LET pruned == Pruned(w, t, s) IN
    /\ window' = pruned
    /\ \E fails \in Fails :
         center' = Judged(c, ErrorRate, RateGrade(pruned, s), t, s, fails)

List(w) ==
  /\ work[w].at = "list"
  /\ \E fails \in Fails :
       EvaluateErrorRate(SilencesExpired(center, work[w].now, fails), window,
                         work[w].now, settings)
  /\ recorded' = [recorded EXCEPT !.cut = Cut(work[w].now, settings)]
  /\ Does(w, NoWork)
  /\ UNCHANGED <<system, reading, events>>

-----------------------------------------------------------------------------
(* A request of a key: its event is booked, its usage counted, its key     *)
(* evaluated, its outcome recorded.                                        *)

Serve(h) ==
  /\ Idle(h) /\ Happens
  /\ \E k \in Keys :
       Does(h, [NoWork EXCEPT !.at = "answer", !.on = k, !.started = now])
  /\ UNCHANGED <<now, pool, made, upstream, settings, reading, center, window, events,
                 recorded>>

Book(h) ==
  /\ work[h].at = "answer"
  /\ \E failed \in BOOLEAN :
       /\ events' = Append(events, [started |-> work[h].started, failed |-> failed])
       /\ Does(h, [work[h] EXCEPT !.at = "usage", !.now = now, !.failed = failed])
  /\ UNCHANGED <<system, reading, center, window, recorded>>

RecordUsage(h) ==
  /\ work[h].at = "usage"
  /\ LET k == work[h].on IN
       \/ Enabled(k) /\ \E usage \in [ToSet(QuotaKinds) -> Levels] :
                          reading' = [reading EXCEPT ![k] = usage]
       \/ ~Enabled(k) /\ UNCHANGED reading
  /\ Does(h, [work[h] EXCEPT !.at = "view", !.then = "record"])
  /\ UNCHANGED <<system, center, window, events, recorded>>

RecordRequest(h) ==
  /\ work[h].at = "record"
  /\ LET t == work[h].now
         outcome == [at |-> t, failed |-> work[h].failed] IN
       /\ EvaluateErrorRate(center,
            [window EXCEPT !.outcomes = Append(@, outcome),
                           !.errors = IF outcome.failed THEN @ + 1 ELSE @],
            t, settings)
       /\ recorded' = [recorded EXCEPT !.given[t][outcome.failed] = @ + 1,
                                       !.cut = Cut(t, settings)]
  /\ Does(h, NoWork)
  /\ UNCHANGED <<system, reading, events>>

-----------------------------------------------------------------------------
(* The operator.                                                           *)

Decide(src, item) ==
  /\ Happens
  /\ Active(center.alerts[src])
  /\ center' = Saved(Put(center, {src}, LAMBDA old : item), {src}, {})
  /\ UNCHANGED <<now, pool, made, upstream, settings, reading, window, events, recorded,
                 work>>

Acknowledge(src) ==
  Decide(src, [center.alerts[src] EXCEPT !.status = "acknowledged", !.until = 0])
Silence(src) ==
  \E d \in Silences :
    Decide(src, [center.alerts[src] EXCEPT !.status = "silenced", !.until = now + d])
ResolveByID(src) == Decide(src, Closed(center.alerts[src]))

GetAlerts(h) ==
  /\ Idle(h) /\ Happens
  /\ Does(h, Loop("view", "list", pool \cup Keys))
  /\ UNCHANGED <<now, pool, made, upstream, settings, reading, center, window, events,
                 recorded>>

UpdateSettings(h) ==
  /\ Idle(h) /\ Happens
  /\ \E s \in Settings :
       /\ settings' = s
       /\ EvaluateErrorRate(center, window, now, s)
       /\ recorded' = [recorded EXCEPT !.cut = Cut(now, s)]
  /\ Does(h, Loop("view", "idle", pool \cup Keys))
  /\ UNCHANGED <<now, pool, made, upstream, reading, events>>

\* A new account object is polled, when it is enabled; a disabled one is evaluated if
\* it replaces another.
Made(y, on) ==
  /\ y \in Objects \ made
  /\ made' = made \cup {y}
  /\ reading' = [reading EXCEPT ![y] = IF on THEN Unknown ELSE Off(y)]
  /\ UNCHANGED <<now, upstream, settings, center, window, events, recorded>>

CreateManagedAccount(h) ==
  /\ Idle(h) /\ Happens
  /\ \E y \in Objects, on \in BOOLEAN :
       /\ \A x \in pool : Ident[x] # Ident[y]
       /\ Made(y, on)
       /\ pool' = pool \cup {y}
       /\ Does(h, IF on THEN [NoWork EXCEPT !.at = "poll", !.loop = "poll", !.on = y]
                  ELSE NoWork)

UpdateManagedAccount(h) ==
  /\ Idle(h) /\ Happens
  /\ \E x \in pool, y \in Objects, on \in BOOLEAN :
       /\ Ident[x] = Ident[y]
       /\ Made(y, on)
       /\ pool' = (pool \ {x}) \cup {y}
       /\ Does(h, [NoWork EXCEPT !.at = IF on THEN "poll" ELSE "view",
                                 !.loop = "poll", !.on = y])

RemoveManagedAccount(h) ==
  /\ Idle(h) /\ Happens
  /\ \E x \in pool :
       /\ pool' = pool \ {x}
       /\ Does(h, [NoWork EXCEPT !.at = "scope", !.on = x])
  /\ UNCHANGED <<now, made, upstream, settings, reading, center, window, events, recorded>>

UpdateKey(h) ==
  /\ Idle(h) /\ Happens
  /\ \E k \in Keys :
       \E usage \in [ToSet(QuotaKinds) -> Levels] \cup {Off(k)} :
         /\ reading' = [reading EXCEPT ![k] = usage]
         /\ Does(h, AtSource([NoWork EXCEPT !.on = k, !.now = now,
                                            !.view = [x \in {k} |-> usage]], 1))
  /\ UNCHANGED <<now, pool, made, upstream, settings, center, window, events, recorded>>

RevokeKey(h) ==
  /\ Idle(h) /\ Happens
  /\ \E k \in Keys :
       /\ reading' = [reading EXCEPT ![k] = Off(k)]
       /\ Does(h, [NoWork EXCEPT !.at = "scope", !.on = k])
  /\ UNCHANGED <<now, pool, made, upstream, settings, center, window, events, recorded>>

\* Crash and start: alerts and outcomes are loaded; balances are not.
Restart ==
  /\ Happens
  /\ center' = [center EXCEPT
                   !.alerts = center.rows, !.missed = {},
                   !.told = [src \in Sources |->
                               IF src \in center.missed
                                 THEN [event |-> "lost", severity |-> "none"]
                                 ELSE @[src]]]
  /\ \E order \in Orders(Recent(now, settings)) : window' = Loaded(order)
  /\ recorded' = [given |-> NothingGiven, loaded |-> Len(events),
                  cut |-> IF now > settings.window THEN now - settings.window ELSE 0]
  /\ reading' = [x \in Subjects |-> IF x \in Objects /\ Enabled(x) THEN Unknown
                                    ELSE reading[x]]
  /\ work' = [w \in Workers |-> NoWork]
  /\ UNCHANGED <<now, pool, made, upstream, settings, events>>

-----------------------------------------------------------------------------
Steps(w) ==
  \/ NextSubject(w) \/ Answered(w) \/ TakeView(w) \/ ReadSettings(w) \/ Judge(w)
  \/ ResolveScope(w) \/ List(w) \/ Book(w) \/ RecordUsage(w) \/ RecordRequest(w)

Calls(h) ==
  \/ CheckAccount(h) \/ Serve(h) \/ GetAlerts(h) \/ UpdateSettings(h)
  \/ CreateManagedAccount(h) \/ UpdateManagedAccount(h) \/ RemoveManagedAccount(h)
  \/ UpdateKey(h) \/ RevokeKey(h)

Next ==
  \/ Tick \/ Restart \/ PollBalancesOnce
  \/ \E id \in AccountIds : BalanceChanges(id)
  \/ \E w \in Workers : Steps(w)
  \/ \E h \in Handlers : Calls(h)
  \/ \E src \in Sources : Acknowledge(src) \/ Silence(src) \/ ResolveByID(src)

Spec == Init /\ [][Next]_vars

\* The poller polls again and again, and every call ends.
Fairness ==
  /\ WF_vars(PollBalancesOnce)
  /\ \A w \in Workers : WF_vars(Steps(w))
FairSpec == Spec /\ Fairness

-----------------------------------------------------------------------------
(* Properties.                                                             *)

AlertType == [status : {"none", "open", "acknowledged", "silenced", "resolved"},
              severity : {"none", "warning", "critical"}, until : Nat, seen : Nat]
Outcome == [at : Nat, failed : BOOLEAN]

\* Every variable keeps its type, and the window's start stays within it.
TypeOK ==
  /\ now \in Nat /\ left \in Nat
  /\ pool \subseteq made /\ made \subseteq Objects
  /\ settings \in Settings
  /\ center.alerts \in [Sources -> AlertType] /\ center.rows \in [Sources -> AlertType]
  /\ center.missed \subseteq MayFail
  /\ window.outcomes \in Seq(Outcome)
  /\ window.start \in 0 .. Len(window.outcomes) /\ window.errors \in Nat
  /\ \A src \in Sources : center.alerts[src].until # 0 =>
                            center.alerts[src].status = "silenced"

\* Who reads what the webhook was told, in the order in which it was handed over,
\* knows of every alert that is not resolved, and of every critical one that it is
\* critical, unless the settings withheld it or a write failed before a crash
\* (raiseLocked, notifyLocked, load).
ReceiverKnows ==
  \A src \in Sources :
    /\ Active(center.alerts[src])
    /\ center.told[src].event \notin {"withheld", "lost"}
    => /\ center.told[src].event \in {"raised", "escalated"}
       /\ center.alerts[src].severity = "critical" =>
            center.told[src].severity = "critical"

\* A crash undoes no decision, no recovery and no escalation: a row that was written
\* has the status of the alert, its silence, and its severity when it is critical
\* (raiseLocked, resolveLocked, expireSilencesLocked, Silence, load).
RowsFollow ==
  \A src \in Sources \ center.missed :
    LET item == center.alerts[src]
        row == center.rows[src] IN
      /\ row.status = item.status /\ row.until = item.until
      /\ item.severity = "critical" => row.severity = "critical"

\* The error rate is computed from the outcomes of the window: of the requests that this
\* process answered, each that ended in the window counts, when it ended; of those that
\* earlier processes answered, each that started in it, when it started.  None that has
\* left the window, but for late ones, counts, and the counter of errors agrees with the
\* outcomes, over pruning, compaction and restarts (RecordRequest,
\* evaluateErrorRateLocked, load).
StartedAt(t, f) ==
  Cardinality({i \in 1 .. recorded.loaded : events[i] = [started |-> t, failed |-> f]})
WindowHonest ==
  LET live == Live(window)
      Count(t, f) ==
        Cardinality({i \in DOMAIN live : live[i] = [at |-> t, failed |-> f]}) IN
    /\ window.errors = Errors(live)
    /\ \A t \in 0 .. MaxTime, f \in BOOLEAN :
         /\ t >= recorded.cut => Count(t, f) = recorded.given[t][f] + StartedAt(t, f)
         /\ t + MaxLag < recorded.cut => Count(t, f) = 0

\* When an enabled account has the fault it has for good, its alert is there for good,
\* and when the fault is gone, so is the alert, whatever evaluations were under way
\* (PollBalancesOnce, EvaluateAccount).
Tells(x, i) ==
  LET kind == AccountKinds[i]
      grade == Grade(kind, upstream[Ident[x]][kind], settings) IN
    Active(center.alerts[SourceOf(x, i)]) <=> grade # "clear"
AccountAlertsSettle ==
  \A x \in Objects, i \in 1 .. 2 : <>[](x \in pool /\ Enabled(x) => Tells(x, i))
=============================================================================
