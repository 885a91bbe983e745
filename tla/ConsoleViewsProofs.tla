------------------------- MODULE ConsoleViewsProofs -------------------------
(***************************************************************************)
(* Proofs about what the open console shows: for any alerts, price rules   *)
(* and queries, any number of requests under way, of actions of the        *)
(* operator, of changes by others and of requests that fail.               *)
(***************************************************************************)
EXTENDS ConsoleViews, TLAPS

-----------------------------------------------------------------------------
(* The inductive invariant.                                                *)

\* A request: what it is about, and what it has read of that.
Request(r) ==
  /\ r \in [op : Ops, cells : SUBSET Cells, reads : {r.reads}, form : Forms,
            arg : {r.arg}, saw : {r.saw}, backup : Nat, mounted : BOOLEAN,
            shared : SUBSET Cells, done : BOOLEAN]
  /\ r.shared \subseteq r.cells
  /\ \A list \in r.reads : list \subseteq r.cells /\ list \subseteq Stored
SawIs(r) ==
  /\ r.saw = [x \in DOMAIN r.saw |-> r.saw[x]] /\ DOMAIN r.saw \subseteq r.cells
  /\ \A x \in DOMAIN r.saw : r.saw[x] \in Nat

\* A refresh is about everything, and reads it but for the backup; what is created or
\* deleted is one rule.
RefreshIs(r) ==
  /\ r.cells = Cells
  /\ \A x \in Cells : x = "backup" \/ x \in DOMAIN r.saw \/ \E list \in r.reads : x \in list
PriceIs(r) ==
  /\ r.arg \in Rules /\ r.cells = {r.arg} /\ r.reads = {}
  /\ r.done => /\ DOMAIN r.saw = {r.arg}
               /\ r.saw[r.arg] = IF r.op = "create" THEN 1 ELSE 0
\* Only a check of the backup tells of it; a handler that will refresh disables nothing.
CheckIs(r) ==
  r.op = "backup" \/ ("backup" \notin DOMAIN r.saw /\ \A list \in r.reads : "backup" \notin list)
ChangeIs(r) == "backup" \in r.cells /\ r.form = None
Asked(r) ==
  /\ Request(r) /\ SawIs(r) /\ CheckIs(r)
  /\ r.op = "refresh" => RefreshIs(r)
  /\ r.op = "change" => ChangeIs(r)
  /\ r.op \in {"create", "delete"} => PriceIs(r)
  /\ r.op = "mark" => r.arg \in Alerts
  /\ ~r.done => /\ r.op \in {"mark", "save", "test", "check", "create", "delete", "change"}
                /\ r.cells \subseteq Stored
                /\ "backup" \in r.cells => r.op = "change"
CallOK(r) == r = Idle \/ Asked(r)

\* What no other request was about is still as it was when the request was sent, and as
\* it was when the handler that sent it began.
Current(r, s, T) ==
  /\ r.op \in {"refresh", "change"} /\ "backup" \notin r.shared /\ "backup" \notin T =>
       r.backup = s["backup"]
  /\ r.op = "create" /\ r.arg \notin r.shared => s[r.arg] = 0

\* What a request has read is not newer than what the server has, nor older than what the
\* console was told, unless by another request under way.
Fresh(r, v, t) ==
  r.op # "idle" =>
    \A x \in DOMAIN r.saw \cap Versioned :
      r.saw[x] <= v[x] /\ (x \notin r.shared => t[x] <= r.saw[x])

\* Two requests that are about the same cell are both marked, but for two that put back a
\* check of the backup.
Marked(C) ==
  \A c, d \in Slots : c # d => \A x \in Common(C[c], C[d]) : x \in C[c].shared

\* A disabled button, or the refresh button, waits for a request.
Holds(r, f) == r.op # "idle" /\ r.form = f /\ r.mounted
Loads(r) == r.op \in {"refresh", "apply"}
Held(C, B) ==
  /\ B = [f \in Forms |-> B[f]] /\ B[None] = None
  /\ \A f \in Forms : B[f] # None => \E c \in Slots : Holds(C[c], f)
LoadingOK(C, l) == l \in BOOLEAN /\ (l => \E c \in Slots : Loads(C[c]))

Shown ==
  /\ server \in [Stored -> Nat] /\ shown \in [Cells -> Nat] /\ told \in [Cells -> Nat]
  /\ view \in Views /\ draft \in Nat /\ tangled \subseteq Cells
  /\ \A x \in Cells \ tangled : shown[x] = told[x]
  /\ view = "alerts" => draft = shown["settings"]
  /\ \A x \in Versioned : told[x] <= server[x]
CallsOK ==
  calls = [c \in Slots |-> calls[c]] /\ \A c \in Slots : CallOK(calls[c])
CurrentAll(C, s, T) == \A c \in Slots : Current(C[c], s, T)
FreshAll(C, v, t) == \A c \in Slots : Fresh(C[c], v, t)
IInv ==
  /\ Shown /\ CallsOK /\ Marked(calls)
  /\ CurrentAll(calls, shown, tangled) /\ FreshAll(calls, server, told)
  /\ Held(calls, busy) /\ LoadingOK(calls, loading)

-----------------------------------------------------------------------------
(* Cells and requests.                                                     *)

\* The cells are different things.
LEMMA CellKinds ==
  /\ Alerts \subseteq Stored /\ Rules \subseteq Stored /\ Stored \subseteq Cells
  /\ Usage \subseteq Cells /\ Rules \subseteq Cells /\ Alerts \subseteq Cells
  /\ "settings" \in Stored /\ "backup" \in Stored
  /\ "settings" \in Cells /\ "backup" \in Cells
  /\ "settings" \notin Rules /\ "backup" \notin Rules
  /\ "backup" \notin Alerts /\ "backup" \notin Usage
  /\ Versioned \subseteq Stored /\ Versioned \cap Rules = {} /\ Versioned \cap Usage = {}
  /\ \A x \in Cells : \/ x = "backup" \/ x \in Usage \/ x \in Alerts \/ x \in Rules
                      \/ x = "settings"
BY ViewsAssumption DEF Stored, Cells, Usage, Versioned

\* What is over what.
IsOver(both, news, old) ==
  /\ both = [x \in DOMAIN news \cup DOMAIN old |-> both[x]]
  /\ DOMAIN both = DOMAIN news \cup DOMAIN old
  /\ \A x \in DOMAIN news : both[x] = news[x]
  /\ \A x \in DOMAIN old \ DOMAIN news : both[x] = old[x]
\* Over is that.
LEMMA OverIs ==
  ASSUME NEW news, NEW old, NEW both, both = Over(news, old)
  PROVE  IsOver(both, news, old)
BY DEF Over, IsOver

\* A slot that is busy holds a request.
LEMMA BusyAsked ==
  ASSUME IInv, NEW c \in Slots, Busy(c)
  PROVE  Asked(calls[c]) /\ Request(calls[c])
BY DEF IInv, CallsOK, CallOK, Busy, Idle, Asked

\* A slot that is idle is about nothing, and nothing waits for it.
LEMMA IdleIs ==
  /\ Idle.op = "idle" /\ Idle.cells = {} /\ CallOK(Idle) /\ ~Loads(Idle)
  /\ \A f : ~Holds(Idle, f)
  /\ \A s, T : Current(Idle, s, T)
  /\ \A v, t : Fresh(Idle, v, t)
  /\ \A a : Common(Idle, a) = {} /\ Common(a, Idle) = {}
BY DEF Idle, CallOK, Loads, Holds, Current, Fresh, Common

\* A request that is marked is otherwise as it was.
Remarked(u, r) ==
  /\ u.op = r.op /\ u.cells = r.cells /\ u.form = r.form /\ u.mounted = r.mounted
  /\ u.arg = r.arg /\ u.backup = r.backup /\ u.saw = r.saw /\ u.done = r.done
  /\ u.reads = r.reads
\* A request that is marked is otherwise as it was: Remarked.
LEMMA SharedSet ==
  ASSUME NEW r, Asked(r), NEW S \in SUBSET r.cells, NEW u, u = [r EXCEPT !.shared = S]
  PROVE  Asked(u) /\ Remarked(u, r) /\ u.shared = S
<1>0. Request(r) /\ SawIs(r)
  BY DEF Asked
<1>1. u \in [op : {r.op}, cells : {r.cells}, reads : {r.reads}, form : {r.form},
            arg : {r.arg}, saw : {r.saw}, backup : {r.backup}, mounted : {r.mounted},
            shared : {S}, done : {r.done}]
  BY <1>0 DEF Request
<1>2. Remarked(u, r) /\ u.shared = S
  BY <1>1 DEF Remarked
<1>3. Request(u)
  BY <1>0, <1>1, <1>2 DEF Request, Remarked
<1>4. SawIs(u)
  BY <1>0, <1>2 DEF SawIs, Remarked
<1>5. /\ RefreshIs(r) => RefreshIs(u)
      /\ PriceIs(r) => PriceIs(u)
      /\ CheckIs(r) => CheckIs(u)
      /\ ChangeIs(r) => ChangeIs(u)
  BY <1>2 DEF RefreshIs, PriceIs, CheckIs, ChangeIs, Remarked
<1> QED
  BY <1>2, <1>3, <1>4, <1>5 DEF Asked, Remarked

-----------------------------------------------------------------------------
(* Requests are sent and finished.                                         *)

\* A request that has been marked since is as current as it was.
Later(u, r) == u = r \/ (Remarked(u, r) /\ \A x \in r.shared : x \in u.shared)
\* Such a request holds, loads and tells what it did.
LEMMA LaterIs ==
  ASSUME NEW u, NEW r, Later(u, r)
  PROVE  /\ \A f : Holds(r, f) => Holds(u, f)
         /\ Loads(r) => Loads(u)
         /\ \A s, T : Current(r, s, T) => Current(u, s, T)
         /\ \A v, t : Fresh(r, v, t) => Fresh(u, v, t)
<1>1. CASE u = r
  BY <1>1
<1>2. CASE Remarked(u, r) /\ \A x \in r.shared : x \in u.shared
  <2>1. /\ \A f : Holds(r, f) => Holds(u, f)
        /\ Loads(r) => Loads(u)
    BY <1>2 DEF Remarked, Holds, Loads
  <2>2. \A s, T : Current(r, s, T) => Current(u, s, T)
    BY <1>2 DEF Remarked, Current
  <2>3. \A v, t : Fresh(r, v, t) => Fresh(u, v, t)
    BY <1>2 DEF Remarked, Fresh
  <2> QED
    BY <2>1, <2>2, <2>3
<1> QED
  BY <1>1, <1>2 DEF Later

\* A request is sent, and all others are marked.
LEMMA SendInIs ==
  ASSUME IInv, NEW c \in Slots, NEW r, Asked(r), SendIn(c, r)
  PROVE  /\ calls' = [d \in Slots |-> calls'[d]]
         /\ Asked(calls'[c]) /\ Remarked(calls'[c], r) /\ Later(calls'[c], r)
         /\ \A d \in Slots \ {c} : CallOK(calls'[d]) /\ Later(calls'[d], calls[d])
         /\ Marked(calls')
<1>S. PICK S : S = r.shared \cup UNION {Common(r, calls[e]) : e \in Slots \ {c}}
  OBVIOUS
<1>0. calls' = [d \in Slots |->
        IF d = c THEN [r EXCEPT !.shared = S]
        ELSE IF Busy(d)
        THEN [calls[d] EXCEPT !.shared = @ \cup Common(calls[d], r)]
        ELSE Idle]
  <2>1. [r EXCEPT !.shared = @ \cup UNION {Common(r, calls[e]) : e \in Slots \ {c}}]
          = [r EXCEPT !.shared = S]
    BY <1>S
  <2> QED
    BY <2>1 DEF SendIn
<1>1. /\ calls' = [d \in Slots |-> calls'[d]] /\ calls'[c] = [r EXCEPT !.shared = S]
      /\ \A d \in Slots \ {c} :
           calls'[d] = IF Busy(d)
                       THEN [calls[d] EXCEPT !.shared = @ \cup Common(calls[d], r)]
                       ELSE Idle
  BY <1>0
<1>2. S \subseteq r.cells
  BY <1>S DEF Common, Asked, Request
<1>3. /\ Asked(calls'[c]) /\ Remarked(calls'[c], r) /\ calls'[c].shared = S
      /\ Later(calls'[c], r)
  <2>1. Asked(calls'[c]) /\ Remarked(calls'[c], r) /\ calls'[c].shared = S
    BY <1>1, <1>2, SharedSet
  <2> QED
    BY <2>1, <1>S DEF Later
<1>4. ASSUME NEW d \in Slots \ {c}
      PROVE  /\ CallOK(calls'[d]) /\ Later(calls'[d], calls[d])
             /\ \A x \in Common(calls[d], r) : x \in calls'[d].shared \/ ~Busy(d)
             /\ calls'[d].cells = calls[d].cells /\ calls'[d].op = calls[d].op
  <2>1. CASE Busy(d)
    <3>o. PICK o : o = calls[d]
      OBVIOUS
    <3>T. PICK T : T = o.shared \cup Common(o, r)
      OBVIOUS
    <3>1. Asked(o) /\ calls'[d] = [o EXCEPT !.shared = T]
      BY <1>1, <2>1, <3>o, <3>T, BusyAsked
    <3>2. T \in SUBSET o.cells
      BY <3>1, <3>T DEF Asked, Request, Common
    <3>3. Asked(calls'[d]) /\ Remarked(calls'[d], o) /\ calls'[d].shared = T
      BY <3>1, <3>2, SharedSet
    <3> QED
      BY <3>3, <3>o, <3>T DEF CallOK, Later, Remarked
  <2>2. CASE ~Busy(d)
    <3>1. calls[d] = Idle
      BY <2>2 DEF IInv, CallsOK, CallOK, Asked, Request, Ops, Busy
    <3>2. calls'[d] = Idle
      BY <1>1, <2>2
    <3> QED
      BY <2>2, <3>1, <3>2, IdleIs DEF Later
  <2> QED
    BY <2>1, <2>2
<1>5. ASSUME NEW d \in Slots, NEW e \in Slots, d # e,
             NEW x \in Common(calls'[d], calls'[e])
      PROVE  x \in calls'[d].shared
  <2>1. CASE d = c
    <3>1. x \in Common(r, calls[e])
      BY <1>3, <1>4, <1>5, <2>1 DEF Remarked, Common
    <3>2. x \in S
      BY <1>5, <1>S, <2>1, <3>1
    <3> QED
      BY <1>3, <2>1, <3>2
  <2>2. CASE e = c
    <3>1. x \in Common(calls[d], r)
      BY <1>3, <1>4, <1>5, <2>2 DEF Remarked, Common
    <3>2. Busy(d)
      BY <3>1, IdleIs DEF IInv, CallsOK, CallOK, Asked, Request, Ops, Busy
    <3> QED
      BY <1>4, <1>5, <2>2, <3>1, <3>2
  <2>3. CASE d # c /\ e # c
    <3>1. x \in Common(calls[d], calls[e])
      BY <1>4, <1>5, <2>3 DEF Common
    <3>2. x \in calls[d].shared
      BY <1>5, <3>1 DEF IInv, Marked
    <3> QED
      BY <1>4, <2>3, <3>2 DEF Later
  <2> QED
    BY <2>1, <2>2, <2>3
<1>6. Marked(calls')
  BY <1>5 DEF Marked
<1> QED
  BY <1>1, <1>3, <1>4, <1>6

\* What is sent.
ReadsOK(cells, reads) ==
  \A list \in reads : list \subseteq cells /\ list \subseteq Stored
SentAs(r, op, cells, reads, form, arg) ==
  /\ Request(r) /\ SawIs(r) /\ r.op = op /\ r.cells = cells /\ r.reads = reads
  /\ r.form = form /\ r.arg = arg /\ r.mounted /\ r.saw = <<>> /\ r.shared = {}
  /\ r.done <=> op \in {"refresh", "poll", "list", "reread", "backup", "apply"}
  /\ \A v, t : Fresh(r, v, t)
  /\ op = "backup" \/ (\A list \in reads : "backup" \notin list) => CheckIs(r)
\* Sending is that.
LEMMA SendingIs ==
  ASSUME NEW op \in Ops, NEW cells \in SUBSET Cells, NEW reads, NEW form \in Forms, NEW arg,
         ReadsOK(cells, reads), NEW r, r = Sending(op, cells, reads, form, arg)
  PROVE  SentAs(r, op, cells, reads, form, arg)
<1>d. PICK done \in BOOLEAN :
        done <=> op \in {"refresh", "poll", "list", "reread", "backup", "apply"}
  OBVIOUS
<1>e. done = (op \in {"refresh", "poll", "list", "reread", "backup", "apply"})
  BY <1>d
<1>n. PICK none \in SUBSET Cells : none = {}
  OBVIOUS
<1>s. PICK saw : saw = <<>>
  OBVIOUS
<1>z. PICK zero \in Nat : zero = 0
  OBVIOUS
<1>y. PICK yes \in BOOLEAN : yes = TRUE
  OBVIOUS
<1>1. r = [op |-> op, cells |-> cells, reads |-> reads, form |-> form, arg |-> arg,
           saw |-> saw, backup |-> zero, mounted |-> yes, shared |-> none, done |-> done]
  BY <1>e, <1>n, <1>s, <1>y, <1>z DEF Sending
<1>2. /\ r.op = op /\ r.cells = cells /\ r.reads = reads /\ r.form = form /\ r.arg = arg
      /\ r.saw = saw /\ r.backup = zero /\ r.mounted = yes /\ r.shared = none
      /\ r.done = done
  BY <1>1
<1>3. r \in [op : Ops, cells : SUBSET Cells, reads : {r.reads}, form : Forms,
             arg : {r.arg}, saw : {r.saw}, backup : Nat, mounted : BOOLEAN,
             shared : SUBSET Cells, done : BOOLEAN]
  BY <1>1
<1>4. Request(r)
  BY <1>2, <1>3, <1>n DEF Request, ReadsOK
<1>5. SawIs(r)
  BY <1>2, <1>s DEF SawIs
<1>6. \A v, t : Fresh(r, v, t)
  BY <1>2, <1>s DEF Fresh
<1>7. op = "backup" \/ (\A list \in reads : "backup" \notin list) => CheckIs(r)
  BY <1>2, <1>s DEF CheckIs
<1> QED
  BY <1>2, <1>4, <1>5, <1>6, <1>7, <1>d, <1>n, <1>s, <1>y DEF SentAs

\* A request is sent from a free slot.
LEMMA SentKeeps ==
  ASSUME IInv, UNCHANGED <<server, shown, view, draft, told, tangled>>,
         NEW c \in Slots, ~Busy(c), NEW r, Asked(r), Current(r, shown, tangled),
         Fresh(r, server, told), SendIn(c, r),
         busy' = [f \in Forms |-> busy'[f]], busy'[None] = None,
         \A f \in Forms : busy'[f] = busy[f] \/ Holds(r, f),
         loading' \in BOOLEAN, loading' => loading \/ Loads(r)
  PROVE  IInv'
<1>1. /\ calls' = [d \in Slots |-> calls'[d]]
      /\ Asked(calls'[c]) /\ Remarked(calls'[c], r) /\ Later(calls'[c], r)
      /\ \A d \in Slots \ {c} : CallOK(calls'[d]) /\ Later(calls'[d], calls[d])
      /\ Marked(calls')
  BY SendInIs
<1>2. CallsOK'
  BY <1>1 DEF CallsOK, CallOK
<1>3. Shown'
  BY DEF IInv, Shown
<1>4. Holds(calls'[c], r.form) <=> Holds(r, r.form)
  BY <1>1 DEF Remarked, Holds
<1>5. ASSUME NEW d \in Slots
      PROVE  Current(calls'[d], shown', tangled') /\ Fresh(calls'[d], server', told')
  <2>1. CASE d = c
    BY <1>1, <2>1, LaterIs
  <2>2. CASE d # c
    <3>1. Current(calls[d], shown', tangled') /\ Fresh(calls[d], server', told')
      BY DEF IInv, CurrentAll, FreshAll
    <3> QED
      BY <1>1, <2>2, <3>1, LaterIs
  <2> QED
    BY <2>1, <2>2
<1>6. ASSUME NEW f \in Forms, busy'[f] # None
      PROVE  \E d \in Slots : Holds(calls'[d], f)
  <2>1. CASE Holds(r, f)
    <3>1. Holds(calls'[c], f)
      BY <1>1, <2>1 DEF Remarked, Holds
    <3> QED
      BY <3>1
  <2>2. CASE ~Holds(r, f)
    <3>1. PICK d \in Slots : Holds(calls[d], f)
      BY <1>6, <2>2 DEF IInv, Held
    <3>2. d # c
      BY <3>1 DEF Holds, Busy
    <3> QED
      BY <1>1, <3>1, <3>2, LaterIs
  <2> QED
    BY <2>1, <2>2
<1>7. ASSUME loading'
      PROVE  \E d \in Slots : Loads(calls'[d])
  <2>1. CASE Loads(r)
    <3>1. Loads(calls'[c])
      BY <1>1, <2>1 DEF Remarked, Loads
    <3> QED
      BY <3>1
  <2>2. CASE ~Loads(r)
    <3>1. PICK d \in Slots : Loads(calls[d])
      BY <1>7, <2>2 DEF IInv, LoadingOK
    <3>2. d # c
      BY <3>1 DEF Loads, Busy
    <3> QED
      BY <1>1, <3>1, <3>2, LaterIs
  <2> QED
    BY <2>1, <2>2
<1>8. /\ Held(calls', busy') /\ LoadingOK(calls', loading')
      /\ CurrentAll(calls', shown', tangled') /\ FreshAll(calls', server', told')
  BY <1>5, <1>6, <1>7 DEF Held, LoadingOK, CurrentAll, FreshAll
<1> QED
  BY <1>1, <1>2, <1>3, <1>8 DEF IInv

-----------------------------------------------------------------------------
(* The operator, and the timer.                                            *)

\* What the buttons are once one of them is disabled.
LEMMA DisabledIs ==
  ASSUME IInv, NEW f \in Disablers, NEW x, Disable(f, x), NEW r, r.op \in Ops, r.form = f,
         r.mounted
  PROVE  /\ busy' = [g \in Forms |-> busy'[g]] /\ busy'[None] = None
         /\ \A g \in Forms : busy'[g] = busy[g] \/ Holds(r, g)
<1>1. f \in Forms /\ f # None /\ None \in Forms
  BY ViewsAssumption DEF Forms
<1>2. /\ busy = [g \in Forms |-> busy[g]] /\ busy[None] = None
  BY DEF IInv, Held
<1>3. /\ busy' = [g \in Forms |-> busy'[g]]
      /\ \A g \in Forms \ {f} : busy'[g] = busy[g]
  BY <1>1, <1>2 DEF Disable
<1> QED
  BY <1>1, <1>2, <1>3 DEF Holds, Ops

\* A request of a button is sent.
LEMMA ButtonKeeps ==
  ASSUME IInv, Acts, UNCHANGED loading, NEW f \in Disablers, NEW x, Disable(f, x),
         NEW r, Asked(r), Current(r, shown, tangled), Fresh(r, server, told), r.form = f,
         r.mounted, Send(r)
  PROVE  IInv'
<1>u. UNCHANGED <<server, shown, view, draft, told, tangled>>
  BY DEF Acts
<1>c. PICK c \in Slots : ~Busy(c) /\ SendIn(c, r)
  BY DEF Send, Free
<1>o. r.op \in Ops
  BY DEF Asked, Request
<1>b. /\ busy' = [g \in Forms |-> busy'[g]] /\ busy'[None] = None
      /\ \A g \in Forms : busy'[g] = busy[g] \/ Holds(r, g)
  BY <1>o, DisabledIs
<1>l. loading' \in BOOLEAN /\ (loading' => loading)
  BY DEF IInv, LoadingOK
<1> QED
  BY <1>b, <1>c, <1>l, <1>u, SentKeeps

\* A request that disables no button is sent.
LEMMA QuietKeeps ==
  ASSUME IInv, UNCHANGED <<server, shown, view, draft, told, tangled, busy>>,
         NEW r, Asked(r), Current(r, shown, tangled), Fresh(r, server, told), Send(r),
         loading' \in BOOLEAN, loading' => loading \/ Loads(r)
  PROVE  IInv'
<1>c. PICK c \in Slots : ~Busy(c) /\ SendIn(c, r)
  BY DEF Send, Free
<1>b. /\ busy' = [g \in Forms |-> busy'[g]] /\ busy'[None] = None
      /\ \A g \in Forms : busy'[g] = busy[g]
  BY DEF IInv, Held
<1> QED
  BY <1>b, <1>c, SentKeeps

\* The buttons of a row of the alerts.
LEMMA MarkKeeps ==
  ASSUME IInv, NEW a \in Alerts, Mark(a)
  PROVE  IInv'
<1>c. PICK cells \in SUBSET Cells : cells = {a} /\ cells \subseteq Stored
  BY CellKinds
<1>n. PICK reads : reads = {}
  OBVIOUS
<1>r. PICK r : r = Sending("mark", cells, reads, "alerts", a)
  OBVIOUS
<1>1. "mark" \in Ops /\ "alerts" \in Forms /\ ReadsOK(cells, reads)
  BY <1>c, <1>n DEF Ops, Forms, Disablers, ReadsOK
<1>2. SentAs(r, "mark", cells, reads, "alerts", a)
  BY <1>1, <1>r, SendingIs
<1>3. /\ Request(r) /\ SawIs(r) /\ r.op = "mark" /\ r.cells = cells /\ r.form = "alerts"
      /\ r.arg = a /\ r.mounted /\ ~r.done
      /\ CheckIs(r) /\ Fresh(r, server, told)
  BY <1>2, <1>n DEF SentAs
<1>4. Asked(r) /\ Current(r, shown, tangled)
  BY <1>3, <1>c, CellKinds DEF Asked, Current
<1>5. Send(r) /\ Disable("alerts", a) /\ UNCHANGED loading /\ Acts
  BY <1>c, <1>n, <1>r DEF Mark
<1> QED
  BY <1>3, <1>4, <1>5, ButtonKeeps DEF Disablers

\* The form of the alert settings.
LEMMA SaveSettingsKeeps ==
  ASSUME IInv, SaveSettings
  PROVE  IInv'
<1>c. PICK cells \in SUBSET Cells : cells = {"settings"} /\ cells \subseteq Stored
  BY CellKinds
<1>n. PICK reads : reads = {}
  OBVIOUS
<1>r. PICK r : r = Sending("save", cells, reads, "alerts", draft)
  OBVIOUS
<1>1. "save" \in Ops /\ "alerts" \in Forms /\ ReadsOK(cells, reads)
  BY <1>c, <1>n DEF Ops, Forms, Disablers, ReadsOK
<1>2. SentAs(r, "save", cells, reads, "alerts", draft)
  BY <1>1, <1>r, SendingIs
<1>3. /\ Request(r) /\ SawIs(r) /\ r.op = "save" /\ r.cells = cells /\ r.form = "alerts"
      /\ r.arg = draft /\ r.mounted /\ ~r.done
      /\ CheckIs(r) /\ Fresh(r, server, told)
  BY <1>2, <1>n DEF SentAs
<1>4. Asked(r) /\ Current(r, shown, tangled)
  BY <1>3, <1>c, CellKinds DEF Asked, Current
<1>5. Send(r) /\ Disable("alerts", "settings") /\ UNCHANGED loading /\ Acts
  BY <1>c, <1>n, <1>r DEF SaveSettings
<1> QED
  BY <1>3, <1>4, <1>5, ButtonKeeps DEF Disablers

\* The test of the webhook.
LEMMA TestWebhookKeeps ==
  ASSUME IInv, TestWebhook
  PROVE  IInv'
<1>c. PICK cells \in SUBSET Cells : cells = {}
  OBVIOUS
<1>n. PICK reads : reads = {}
  OBVIOUS
<1>r. PICK r : r = Sending("test", cells, reads, "alerts", 0)
  OBVIOUS
<1>1. "test" \in Ops /\ "alerts" \in Forms /\ ReadsOK(cells, reads)
  BY <1>c, <1>n DEF Ops, Forms, Disablers, ReadsOK
<1>2. SentAs(r, "test", cells, reads, "alerts", 0)
  BY <1>1, <1>r, SendingIs
<1>3. /\ Request(r) /\ SawIs(r) /\ r.op = "test" /\ r.cells = cells /\ r.form = "alerts"
      /\ r.arg = 0 /\ r.mounted /\ ~r.done
      /\ CheckIs(r) /\ Fresh(r, server, told)
  BY <1>2, <1>n DEF SentAs
<1>4. Asked(r) /\ Current(r, shown, tangled)
  BY <1>3, <1>c, CellKinds DEF Asked, Current
<1>5. Send(r) /\ Disable("alerts", "webhook") /\ UNCHANGED loading /\ Acts
  BY <1>c, <1>n, <1>r DEF TestWebhook
<1> QED
  BY <1>3, <1>4, <1>5, ButtonKeeps DEF Disablers

\* The check of an account.
LEMMA CheckAccountKeeps ==
  ASSUME IInv, NEW a \in Alerts, CheckAccount(a)
  PROVE  IInv'
<1>c. PICK cells \in SUBSET Cells : cells = {}
  OBVIOUS
<1>n. PICK reads : reads = {}
  OBVIOUS
<1>r. PICK r : r = Sending("check", cells, reads, "check", a)
  OBVIOUS
<1>1. "check" \in Ops /\ "check" \in Forms /\ ReadsOK(cells, reads)
  BY <1>c, <1>n DEF Ops, Forms, Disablers, ReadsOK
<1>2. SentAs(r, "check", cells, reads, "check", a)
  BY <1>1, <1>r, SendingIs
<1>3. /\ Request(r) /\ SawIs(r) /\ r.op = "check" /\ r.cells = cells /\ r.form = "check"
      /\ r.arg = a /\ r.mounted /\ ~r.done
      /\ CheckIs(r) /\ Fresh(r, server, told)
  BY <1>2, <1>n DEF SentAs
<1>4. Asked(r) /\ Current(r, shown, tangled)
  BY <1>3, <1>c, CellKinds DEF Asked, Current
<1>5. Send(r) /\ Disable("check", a) /\ UNCHANGED loading /\ Acts
  BY <1>c, <1>n, <1>r DEF CheckAccount
<1> QED
  BY <1>3, <1>4, <1>5, ButtonKeeps DEF Disablers

\* The check of the backup.
LEMMA CheckBackupKeeps ==
  ASSUME IInv, CheckBackup
  PROVE  IInv'
<1>c. PICK cells \in SUBSET Cells : cells = {"backup"} /\ cells \subseteq Stored
  BY CellKinds
<1>n. PICK reads : reads = {{"backup"}}
  OBVIOUS
<1>r. PICK r : r = Sending("backup", cells, reads, "backup", 0)
  OBVIOUS
<1>1. "backup" \in Ops /\ "backup" \in Forms /\ ReadsOK(cells, reads)
  BY <1>c, <1>n DEF Ops, Forms, Disablers, ReadsOK
<1>2. SentAs(r, "backup", cells, reads, "backup", 0)
  BY <1>1, <1>r, SendingIs
<1>3. /\ Request(r) /\ SawIs(r) /\ r.op = "backup" /\ r.cells = cells /\ r.form = "backup"
      /\ r.arg = 0 /\ r.mounted /\ r.done
      /\ CheckIs(r) /\ Fresh(r, server, told)
  BY <1>2, <1>n DEF SentAs
<1>4. Asked(r) /\ Current(r, shown, tangled)
  BY <1>3, <1>c, CellKinds DEF Asked, Current
<1>5. Send(r) /\ Disable("backup", "backup") /\ UNCHANGED loading /\ Acts
  BY <1>c, <1>n, <1>r DEF CheckBackup
<1> QED
  BY <1>3, <1>4, <1>5, ButtonKeeps DEF Disablers

\* A rule is created, with an id that is new.
LEMMA CreatePriceKeeps ==
  ASSUME IInv, NEW p \in Rules, CreatePrice(p)
  PROVE  IInv'
<1>c. PICK cells \in SUBSET Cells : cells = {p} /\ cells \subseteq Stored
  BY CellKinds
<1>n. PICK reads : reads = {}
  OBVIOUS
<1>r. PICK r : r = Sending("create", cells, reads, "price", p)
  OBVIOUS
<1>1. "create" \in Ops /\ "price" \in Forms /\ ReadsOK(cells, reads)
  BY <1>c, <1>n DEF Ops, Forms, Disablers, ReadsOK
<1>2. SentAs(r, "create", cells, reads, "price", p)
  BY <1>1, <1>r, SendingIs
<1>3. /\ Request(r) /\ SawIs(r) /\ r.op = "create" /\ r.cells = cells /\ r.reads = {}
      /\ r.form = "price"
      /\ r.arg = p /\ r.mounted /\ ~r.done
      /\ CheckIs(r) /\ Fresh(r, server, told)
  BY <1>2, <1>n DEF SentAs
<1>4. Asked(r) /\ Current(r, shown, tangled)
  BY <1>3, <1>c, CellKinds DEF Asked, Current, PriceIs, CreatePrice, Unused
<1>5. Send(r) /\ Disable("price", "price") /\ UNCHANGED loading /\ Acts
  BY <1>c, <1>n, <1>r DEF CreatePrice
<1> QED
  BY <1>3, <1>4, <1>5, ButtonKeeps DEF Disablers

\* A rule is deleted.
LEMMA DeletePriceKeeps ==
  ASSUME IInv, NEW p \in Rules, DeletePrice(p)
  PROVE  IInv'
<1>c. PICK cells \in SUBSET Cells : cells = {p} /\ cells \subseteq Stored
  BY CellKinds
<1>n. PICK reads : reads = {}
  OBVIOUS
<1>r. PICK r : r = Sending("delete", cells, reads, "deleting", p)
  OBVIOUS
<1>1. "delete" \in Ops /\ "deleting" \in Forms /\ ReadsOK(cells, reads)
  BY <1>c, <1>n DEF Ops, Forms, Disablers, ReadsOK
<1>2. SentAs(r, "delete", cells, reads, "deleting", p)
  BY <1>1, <1>r, SendingIs
<1>3. /\ Request(r) /\ SawIs(r) /\ r.op = "delete" /\ r.cells = cells /\ r.reads = {}
      /\ r.form = "deleting"
      /\ r.arg = p /\ r.mounted /\ ~r.done
      /\ CheckIs(r) /\ Fresh(r, server, told)
  BY <1>2, <1>n DEF SentAs
<1>4. Asked(r) /\ Current(r, shown, tangled)
  BY <1>3, <1>c, CellKinds DEF Asked, Current, PriceIs
<1>5. Send(r) /\ Disable("deleting", p) /\ UNCHANGED loading /\ Acts
  BY <1>c, <1>n, <1>r DEF DeletePrice
<1> QED
  BY <1>3, <1>4, <1>5, ButtonKeeps DEF Disablers

\* A refresh reads everything, and has the check of the backup that its handler had.
LEMMA RefreshingIs ==
  ASSUME NEW backup \in Nat, NEW shared \in SUBSET Cells, NEW r,
         r = Refreshing(backup, shared)
  PROVE  /\ Asked(r) /\ r.op = "refresh" /\ r.form = None /\ r.backup = backup
         /\ r.shared = shared /\ Loads(r) /\ \A v, t : Fresh(r, v, t)
<1>n. PICK reads : reads = Lists \ {{"backup"}}
  OBVIOUS
<1>p. PICK p : p = Sending("refresh", Cells, reads, None, 0)
  OBVIOUS
<1>s. PICK saw : saw = [x \in Usage |-> 0]
  OBVIOUS
<1>r. r = [p EXCEPT !.backup = backup, !.shared = shared, !.saw = saw]
  BY <1>n, <1>p, <1>s DEF Refreshing
<1>1. ReadsOK(Cells, reads) /\ "refresh" \in Ops /\ None \in Forms /\ Cells \in SUBSET Cells
  BY <1>n, CellKinds DEF Lists, ReadsOK, Ops, Forms
<1>a. SentAs(p, "refresh", Cells, reads, None, 0)
  BY <1>1, <1>p, SendingIs
<1>2. /\ Request(p) /\ p.op = "refresh" /\ p.cells = Cells /\ p.reads = reads
      /\ p.form = None /\ p.mounted /\ p.done
  BY <1>a DEF SentAs
<1>3. r \in [op : {p.op}, cells : {p.cells}, reads : {p.reads}, form : {p.form},
            arg : {p.arg}, saw : {saw}, backup : {backup}, mounted : {p.mounted},
            shared : {shared}, done : {p.done}]
  BY <1>2, <1>r DEF Request
<1>4. /\ r.op = "refresh" /\ r.cells = Cells /\ r.reads = reads /\ r.saw = saw
      /\ r.form = None /\ r.mounted /\ r.shared = shared /\ r.done /\ r.backup = backup
  BY <1>2, <1>3
<1>5. Request(r)
  BY <1>2, <1>3, <1>4 DEF Request
<1>6. SawIs(r) /\ DOMAIN saw = Usage
  BY <1>4, <1>s, CellKinds DEF SawIs
<1>7. RefreshIs(r)
  <2>1. \A x \in Cells : \/ x = "backup" \/ x \in Usage \/ \E list \in reads : x \in list
    <3> SUFFICES ASSUME NEW x \in Cells, x # "backup", x \notin Usage
                 PROVE  \E list \in reads : x \in list
      OBVIOUS
    <3>1. x \in Alerts \/ x \in Rules \/ x \in {"settings"}
      BY CellKinds
    <3>2. CASE x \in Alerts
      <4>1. Alerts \in reads
        BY <1>n, <3>2 DEF Lists
      <4> QED
        BY <3>2, <4>1
    <3>3. CASE x \in Rules
      <4>1. Rules \in reads
        BY <1>n, <3>3 DEF Lists
      <4> QED
        BY <3>3, <4>1
    <3>4. CASE x \in {"settings"}
      <4>1. {"settings"} \in reads
        BY <1>n, <3>4 DEF Lists
      <4> QED
        BY <3>4, <4>1
    <3> QED
      BY <3>1, <3>2, <3>3, <3>4
  <2> QED
    BY <1>4, <1>6, <2>1 DEF RefreshIs
<1>8. CheckIs(r)
  <2>1. \A list \in reads : "backup" \notin list
    BY <1>n, CellKinds DEF Lists
  <2> QED
    BY <1>4, <1>6, <2>1, CellKinds DEF CheckIs
<1>9. Asked(r)
  BY <1>4, <1>5, <1>6, <1>7, <1>8 DEF Asked
<1>10. \A v, t : Fresh(r, v, t)
  BY <1>4, <1>6, CellKinds DEF Fresh
<1> QED
  BY <1>4, <1>9, <1>10 DEF Loads

\* The button of the refresh, which has the check that is shown.
LEMMA RefreshKeeps ==
  ASSUME IInv, Refresh
  PROVE  IInv'
<1>b. PICK backup \in Nat : backup = shown["backup"]
  BY CellKinds DEF IInv, Shown
<1>n. PICK none \in SUBSET Cells : none = {}
  OBVIOUS
<1>r. PICK r : r = Refreshing(backup, none)
  OBVIOUS
<1>1. /\ Asked(r) /\ r.op = "refresh" /\ r.form = None /\ r.backup = backup
      /\ r.shared = none /\ Loads(r) /\ \A v, t : Fresh(r, v, t)
  BY <1>r, RefreshingIs
<1>2. Current(r, shown, tangled)
  BY <1>1, <1>b DEF Current
<1>3. /\ UNCHANGED <<server, shown, view, draft, told, tangled, busy>>
      /\ loading' \in BOOLEAN
  BY DEF Refresh, Acts
<1>4. Send(r)
  BY <1>b, <1>n, <1>r DEF Refresh
<1> QED
  BY <1>1, <1>2, <1>3, <1>4, QuietKeeps

\* A change of an account or a key, whose handler has the check that is shown.
LEMMA ChangeKeeps ==
  ASSUME IInv, Change
  PROVE  IInv'
<1>b. PICK backup \in Nat : backup = shown["backup"]
  BY CellKinds DEF IInv, Shown
<1>c. PICK cells \in SUBSET Cells : cells = {"backup"} /\ cells \subseteq Stored
  BY CellKinds
<1>n. PICK reads : reads = {}
  OBVIOUS
<1>p. PICK p : p = Sending("change", cells, reads, None, 0)
  OBVIOUS
<1>r. PICK r : r = [p EXCEPT !.backup = backup]
  OBVIOUS
<1>1. "change" \in Ops /\ None \in Forms /\ ReadsOK(cells, reads)
  BY <1>n DEF Ops, Forms, ReadsOK
<1>a. SentAs(p, "change", cells, reads, None, 0)
  BY <1>1, <1>p, SendingIs
<1>2. /\ Request(p) /\ SawIs(p) /\ p.op = "change" /\ p.cells = cells /\ p.reads = reads
      /\ p.form = None /\ p.mounted /\ ~p.done /\ CheckIs(p) /\ \A v, t : Fresh(p, v, t)
  BY <1>a, <1>n DEF SentAs
<1>3. r \in [op : {p.op}, cells : {p.cells}, reads : {p.reads}, form : {p.form},
            arg : {p.arg}, saw : {p.saw}, backup : {backup}, mounted : {p.mounted},
            shared : {p.shared}, done : {p.done}]
  BY <1>2, <1>r DEF Request
<1>4. /\ r.op = p.op /\ r.cells = p.cells /\ r.reads = p.reads /\ r.saw = p.saw
      /\ r.form = p.form /\ r.mounted = p.mounted /\ r.shared = p.shared
      /\ r.done = p.done /\ r.backup = backup
  BY <1>3
<1>5. Request(r)
  BY <1>2, <1>3, <1>4 DEF Request
<1>6. SawIs(r) /\ CheckIs(r) /\ ChangeIs(r)
  BY <1>2, <1>4, <1>c DEF SawIs, CheckIs, ChangeIs
<1>7. Asked(r)
  BY <1>2, <1>4, <1>5, <1>6, <1>c DEF Asked
<1>8. Current(r, shown, tangled) /\ Fresh(r, server, told)
  BY <1>2, <1>4, <1>b DEF Current, Fresh
<1>9. /\ UNCHANGED <<server, shown, view, draft, told, tangled, busy, loading>>
      /\ loading \in BOOLEAN
  BY DEF Change, Acts, IInv, LoadingOK
<1>10. Send(r)
  BY <1>b, <1>c, <1>n, <1>p, <1>r DEF Change
<1> QED
  BY <1>7, <1>8, <1>9, <1>10, QuietKeeps

\* The summary and the events of a query.
LEMMA ApplyFilterKeeps ==
  ASSUME IInv, NEW q \in 1..MaxQuery, ApplyFilter(q)
  PROVE  IInv'
<1>n. PICK reads : reads = {}
  OBVIOUS
<1>p. PICK p : p = Sending("apply", Usage, reads, None, q)
  OBVIOUS
<1>s. PICK saw : saw = [x \in Usage |-> q]
  OBVIOUS
<1>r. PICK r : r = [p EXCEPT !.saw = saw]
  OBVIOUS
<1>1. Usage \in SUBSET Cells /\ ReadsOK(Usage, reads) /\ "apply" \in Ops /\ None \in Forms
  BY <1>n, CellKinds DEF ReadsOK, Ops, Forms
<1>a. SentAs(p, "apply", Usage, reads, None, q)
  BY <1>1, <1>p, SendingIs
<1>2. /\ Request(p) /\ p.op = "apply" /\ p.cells = Usage /\ p.reads = {}
      /\ p.form = None /\ p.mounted /\ p.done
  BY <1>a, <1>n DEF SentAs
<1>3. r \in [op : {p.op}, cells : {p.cells}, reads : {p.reads}, form : {p.form},
            arg : {p.arg}, saw : {saw}, backup : {p.backup}, mounted : {p.mounted},
            shared : {p.shared}, done : {p.done}]
  BY <1>2, <1>r DEF Request
<1>4. /\ r.op = "apply" /\ r.cells = Usage /\ r.reads = {} /\ r.saw = saw
      /\ r.form = None /\ r.mounted /\ r.done /\ r.backup = p.backup
      /\ r.shared = p.shared
  BY <1>2, <1>3
<1>5. Request(r)
  BY <1>2, <1>3, <1>4 DEF Request
<1>6. SawIs(r) /\ CheckIs(r) /\ Fresh(r, server, told)
  BY <1>4, <1>s, CellKinds DEF SawIs, CheckIs, Fresh
<1>8. Asked(r) /\ Current(r, shown, tangled)
  BY <1>4, <1>5, <1>6 DEF Asked, Current
<1>10. /\ UNCHANGED <<server, shown, view, draft, told, tangled, busy>>
       /\ loading' \in BOOLEAN /\ Loads(r)
  BY <1>4 DEF ApplyFilter, Acts, Loads
<1>11. Send(r)
  BY <1>n, <1>p, <1>r, <1>s DEF ApplyFilter
<1> QED
  BY <1>4, <1>6, <1>8, <1>10, <1>11, QuietKeeps

\* The timer.
LEMMA PollKeeps ==
  ASSUME IInv, Poll
  PROVE  IInv'
<1>n. PICK reads : reads = {Alerts}
  OBVIOUS
<1>r. PICK r : r = Sending("poll", Alerts, reads, None, 0)
  OBVIOUS
<1>1. /\ Alerts \in SUBSET Cells /\ ReadsOK(Alerts, reads) /\ "poll" \in Ops
      /\ None \in Forms
  BY <1>n, CellKinds DEF ReadsOK, Ops, Forms
<1>a. SentAs(r, "poll", Alerts, reads, None, 0)
  BY <1>1, <1>r, SendingIs
<1>2. /\ Request(r) /\ SawIs(r) /\ r.op = "poll" /\ r.done /\ CheckIs(r)
      /\ Fresh(r, server, told)
  BY <1>a, <1>n, CellKinds DEF SentAs
<1>3. Asked(r) /\ Current(r, shown, tangled)
  BY <1>2 DEF Asked, Current
<1>4. /\ UNCHANGED <<server, shown, view, draft, told, tangled, busy, loading>> /\ Send(r)
      /\ loading \in BOOLEAN
  BY <1>n, <1>r DEF Poll, IInv, LoadingOK
<1> QED
  BY <1>2, <1>3, <1>4, QuietKeeps

\* Another page is opened.
LEMMA GoKeeps ==
  ASSUME IInv, Go
  PROVE  IInv'
<1>u. UNCHANGED <<server, shown, loading, left, told, tangled>>
  BY DEF Go
<1>v. PICK v \in Views : view' = v /\ draft' = IF v = "alerts" THEN shown["settings"] ELSE 0
  BY DEF Go
<1>1. Shown'
  BY <1>u, <1>v, CellKinds DEF IInv, Shown
<1>2. /\ calls' = [c \in Slots |-> calls'[c]]
      /\ \A c \in Slots : calls'[c] = IF Busy(c) /\ calls[c].form \notin {"check", None}
           THEN [calls[c] EXCEPT !.mounted = FALSE] ELSE calls[c]
  BY DEF Go
<1>3. ASSUME NEW c \in Slots
      PROVE  /\ CallOK(calls'[c]) /\ calls'[c].op = calls[c].op
             /\ calls'[c].cells = calls[c].cells /\ calls'[c].form = calls[c].form
             /\ Current(calls'[c], shown, tangled) /\ Fresh(calls'[c], server, told)
             /\ (Busy(c) => calls'[c].shared = calls[c].shared)
             /\ calls[c].form = "check" => calls'[c] = calls[c]
  <2>1. CASE Busy(c) /\ calls[c].form \notin {"check", None}
    <3>r. PICK r : r = calls[c]
      OBVIOUS
    <3>z. PICK u : u = calls'[c]
      OBVIOUS
    <3>1. /\ Asked(r) /\ Request(r) /\ Current(r, shown, tangled)
          /\ Fresh(r, server, told) /\ r.form # None
      BY <2>1, <3>r, BusyAsked DEF IInv, CurrentAll, FreshAll
    <3>2. u = [r EXCEPT !.mounted = FALSE]
      BY <1>2, <2>1, <3>r, <3>z
    <3>3. u \in [op : {r.op}, cells : {r.cells}, reads : {r.reads}, form : {r.form},
                 arg : {r.arg}, saw : {r.saw}, backup : {r.backup}, mounted : {FALSE},
                 shared : {r.shared}, done : {r.done}]
      BY <3>1, <3>2 DEF Request
    <3>4. /\ u.op = r.op /\ u.cells = r.cells /\ u.reads = r.reads /\ u.form = r.form
          /\ u.arg = r.arg /\ u.saw = r.saw /\ u.backup = r.backup
          /\ u.shared = r.shared /\ u.done = r.done
      BY <3>3
    <3>5. Request(u)
      BY <3>1, <3>3, <3>4 DEF Request
    <3>6. Asked(u)
      BY <3>1, <3>4, <3>5 DEF Asked, SawIs, RefreshIs, PriceIs, CheckIs, ChangeIs
    <3>7. Current(u, shown, tangled) /\ Fresh(u, server, told)
      BY <3>1, <3>4 DEF Current, Fresh
    <3> QED
      BY <2>1, <3>4, <3>6, <3>7, <3>r, <3>z DEF CallOK
  <2>2. CASE ~(Busy(c) /\ calls[c].form \notin {"check", None})
    <3>1. calls'[c] = calls[c]
      BY <1>2, <2>2
    <3> QED
      BY <3>1 DEF IInv, CallsOK, CurrentAll, FreshAll
  <2> QED
    BY <2>1, <2>2
<1>4. CallsOK' /\ CurrentAll(calls', shown', tangled') /\ FreshAll(calls', server', told')
  BY <1>2, <1>3, <1>u DEF CallsOK, CurrentAll, FreshAll
<1>5. Marked(calls')
  <2> SUFFICES ASSUME NEW c \in Slots, NEW d \in Slots, c # d,
                      NEW x \in Common(calls'[c], calls'[d])
               PROVE  x \in calls'[c].shared
    BY DEF Marked
  <2>1. x \in Common(calls[c], calls[d])
    BY <1>3 DEF Common
  <2>2. x \in calls[c].shared
    BY <2>1 DEF IInv, Marked
  <2>3. Busy(c)
    BY <2>1, IdleIs DEF IInv, CallsOK, CallOK, Asked, Request, Ops, Busy
  <2> QED
    BY <1>3, <2>2, <2>3
<1>6. /\ busy' = [AtRest EXCEPT !["check"] = busy["check"]] /\ "check" \in Forms
      /\ "check" # None /\ None \in Forms
  BY ViewsAssumption DEF Go, Forms, Disablers
<1>7. /\ busy' = [f \in Forms |-> busy'[f]] /\ busy'["check"] = busy["check"]
      /\ \A f \in Forms \ {"check"} : busy'[f] = None
  BY <1>6 DEF AtRest
<1>8. ASSUME NEW f \in Forms, busy'[f] # None
      PROVE  \E c \in Slots : Holds(calls'[c], f)
  <2>1. f = "check"
    BY <1>7, <1>8
  <2>2. PICK c \in Slots : Holds(calls[c], "check")
    BY <1>6, <1>7, <1>8, <2>1 DEF IInv, Held
  <2>3. calls'[c] = calls[c]
    BY <1>3, <2>2 DEF Holds
  <2> QED
    BY <2>1, <2>2, <2>3
<1>9. Held(calls', busy')
  BY <1>6, <1>7, <1>8 DEF Held
<1>10. LoadingOK(calls', loading')
  BY <1>3, <1>u DEF IInv, LoadingOK, Loads
<1> QED
  BY <1>1, <1>4, <1>5, <1>9, <1>10 DEF IInv

\* Whatever the operator does.
LEMMA OperatorKeeps ==
  ASSUME IInv, Operator
  PROVE  IInv'
BY GoKeeps, RefreshKeeps, ChangeKeeps, SaveSettingsKeeps, TestWebhookKeeps, CheckBackupKeeps, MarkKeeps,
   CheckAccountKeeps, CreatePriceKeeps, DeletePriceKeeps, ApplyFilterKeeps DEF Operator

-----------------------------------------------------------------------------
(* The server.                                                             *)

\* Alerts, settings and checks only get newer.
LEMMA NewerStill ==
  ASSUME IInv, NEW v \in [Stored -> Nat], \A x \in Versioned : server[x] <= v[x]
  PROVE  /\ \A x \in Versioned : told[x] <= v[x]
         /\ FreshAll(calls, v, told)
<1>1. /\ server \in [Stored -> Nat] /\ told \in [Cells -> Nat]
      /\ Versioned \subseteq Stored /\ Versioned \subseteq Cells
      /\ \A x \in Versioned : told[x] <= server[x]
  BY CellKinds DEF IInv, Shown
<1>2. \A x \in Versioned : told[x] <= v[x]
  BY <1>1
<1>3. ASSUME NEW c \in Slots
      PROVE  Fresh(calls[c], v, told)
  <2> SUFFICES ASSUME Busy(c), NEW x \in DOMAIN calls[c].saw \cap Versioned
               PROVE  /\ calls[c].saw[x] <= v[x]
                      /\ x \notin calls[c].shared => told[x] <= calls[c].saw[x]
    BY DEF Fresh, Busy
  <2>1. calls[c].saw[x] \in Nat
    BY BusyAsked DEF Asked, SawIs
  <2>2. /\ calls[c].saw[x] <= server[x]
        /\ x \notin calls[c].shared => told[x] <= calls[c].saw[x]
    BY DEF IInv, FreshAll, Fresh, Busy
  <2> QED
    BY <1>1, <2>1, <2>2
<1> QED
  BY <1>2, <1>3 DEF FreshAll

\* Others change what is stored.
LEMMA ElsewhereKeeps ==
  ASSUME IInv, Elsewhere
  PROVE  IInv'
<1>1. /\ UNCHANGED <<shown, view, draft, busy, loading, calls, told, tangled>>
  BY DEF Elsewhere
<1>x. PICK x \in Stored : server' = [server EXCEPT ![x] = IF x \in Rules THEN 0 ELSE @ + 1]
  BY DEF Elsewhere
<1>v. PICK v : v = IF x \in Rules THEN 0 ELSE server[x] + 1
  OBVIOUS
<1>2. server \in [Stored -> Nat]
  BY DEF IInv, Shown
<1>3. v \in Nat
  BY <1>2, <1>v
<1>4. server' = [server EXCEPT ![x] = v]
  BY <1>2, <1>v, <1>x
<1>5. server' \in [Stored -> Nat] /\ \A y \in Versioned : server[y] <= server'[y]
  BY <1>2, <1>3, <1>4, <1>v, CellKinds
<1>6. Shown'
  BY <1>1, <1>5, NewerStill DEF IInv, Shown
<1>7. FreshAll(calls', server', told')
  BY <1>1, <1>5, NewerStill
<1> QED
  BY <1>1, <1>6, <1>7 DEF IInv, CallsOK, Marked, CurrentAll, Held, LoadingOK

\* A request is served: what it is about, and who waits for it, stays.
Alike(u, r) ==
  /\ u.op = r.op /\ u.cells = r.cells /\ u.form = r.form /\ u.mounted = r.mounted
  /\ u.arg = r.arg /\ u.backup = r.backup /\ u.shared = r.shared
\* Who waits, and for what, is as it was.
LEMMA ServedKeeps ==
  ASSUME IInv, UNCHANGED <<shown, view, draft, busy, loading, told, tangled>>,
         server' \in [Stored -> Nat], \A x \in Versioned : server[x] <= server'[x],
         NEW c \in Slots, NEW u, Asked(u), Alike(u, calls[c]), Fresh(u, server', told),
         calls' = [calls EXCEPT ![c] = u]
  PROVE  IInv'
<1>1. /\ calls' = [d \in Slots |-> calls'[d]] /\ calls'[c] = u
      /\ \A d \in Slots \ {c} : calls'[d] = calls[d]
  BY DEF IInv, CallsOK
<1>2. CallsOK'
  BY <1>1 DEF IInv, CallsOK, CallOK
<1>3. Shown' /\ FreshAll(calls, server', told')
  BY NewerStill DEF IInv, Shown
<1>4. \A d \in Slots : /\ calls'[d].cells = calls[d].cells /\ calls'[d].op = calls[d].op
                       /\ calls'[d].shared = calls[d].shared
  BY <1>1 DEF Alike
<1>5. Marked(calls')
  BY <1>4 DEF IInv, Marked, Common
<1>6. \A d \in Slots : /\ Current(calls[d], shown, tangled) =>
                            Current(calls'[d], shown, tangled)
                       /\ \A f : Holds(calls'[d], f) <=> Holds(calls[d], f)
                       /\ Loads(calls'[d]) <=> Loads(calls[d])
  BY <1>1 DEF Alike, Current, Holds, Loads
<1>7. /\ CurrentAll(calls', shown', tangled')
      /\ Held(calls', busy') /\ LoadingOK(calls', loading')
  BY <1>6 DEF IInv, CurrentAll, Held, LoadingOK
<1>8. FreshAll(calls', server', told')
  BY <1>1, <1>3 DEF FreshAll
<1> QED
  BY <1>2, <1>3, <1>5, <1>7, <1>8 DEF IInv

\* A list is read.
LEMMA ReadKeeps ==
  ASSUME IInv, NEW c \in Slots, Serve(c), Read(c)
  PROVE  IInv'
<1>r. PICK r : r = calls[c]
  OBVIOUS
<1>0. Asked(r) /\ Request(r) /\ SawIs(r)
  BY <1>r, BusyAsked DEF Serve, Asked
<1>l. PICK list \in r.reads :
        /\ calls' = [calls EXCEPT ![c].reads = @ \ {list},
                                  ![c].saw = Over([x \in list |-> server[x]], @)]
        /\ UNCHANGED server
  BY <1>r DEF Read
<1>n. PICK news : news = [x \in list |-> server[x]]
  OBVIOUS
<1>s. PICK saw : saw = Over(news, r.saw)
  OBVIOUS
<1>d. PICK reads : reads = r.reads \ {list}
  OBVIOUS
<1>z. PICK u : u = [r EXCEPT !.reads = reads, !.saw = saw]
  OBVIOUS
<1>1. u \in [op : {r.op}, cells : {r.cells}, reads : {reads}, form : {r.form},
            arg : {r.arg}, saw : {saw}, backup : {r.backup}, mounted : {r.mounted},
            shared : {r.shared}, done : {r.done}]
  BY <1>0, <1>z DEF Request
<1>2. Alike(u, r) /\ u.reads = reads /\ u.saw = saw /\ u.done = r.done
  BY <1>1 DEF Alike
<1>3. Request(u)
  BY <1>0, <1>1, <1>2, <1>d DEF Request, Alike
<1>4. /\ saw = [x \in DOMAIN saw |-> saw[x]] /\ DOMAIN saw = list \cup DOMAIN r.saw
      /\ \A x \in list : saw[x] = server[x]
      /\ \A x \in DOMAIN r.saw \ list : saw[x] = r.saw[x]
  <2>1. DOMAIN news = list /\ \A x \in list : news[x] = server[x]
    BY <1>n
  <2>o. PICK old : old = r.saw
    OBVIOUS
  <2>2. saw = Over(news, old)
    BY <1>s, <2>o
  <2>3. /\ saw = [x \in DOMAIN news \cup DOMAIN old |-> saw[x]]
        /\ DOMAIN saw = DOMAIN news \cup DOMAIN old
        /\ \A x \in DOMAIN news : saw[x] = news[x]
        /\ \A x \in DOMAIN old \ DOMAIN news : saw[x] = old[x]
    <3>1. IsOver(saw, news, old)
      BY <2>2, OverIs
    <3> QED
      BY <3>1 DEF IsOver
  <2> QED
    BY <2>1, <2>3, <2>o
<1>5. list \subseteq r.cells /\ list \subseteq Stored
  BY <1>0 DEF Request
<1>6. \A x \in list : server[x] \in Nat
  BY <1>5 DEF IInv, Shown
<1>7. SawIs(u)
  BY <1>0, <1>2, <1>4, <1>5, <1>6 DEF SawIs, Alike
<1>8. RefreshIs(r) => RefreshIs(u)
  <2> SUFFICES ASSUME RefreshIs(r), NEW x \in Cells, x # "backup", x \notin DOMAIN saw
               PROVE  \E l \in reads : x \in l
    BY <1>2 DEF RefreshIs, Alike
  <2>1. x \notin list /\ x \notin DOMAIN r.saw
    BY <1>4
  <2>2. PICK l \in r.reads : x \in l
    BY <2>1 DEF RefreshIs
  <2> QED
    BY <1>d, <2>1, <2>2
<1>9. r.op \notin {"create", "delete"}
  BY <1>0, <1>l DEF Asked, PriceIs
<1>c. CheckIs(u)
  BY <1>0, <1>2, <1>4, <1>d DEF Asked, CheckIs, Alike
<1>10. Asked(u)
  BY <1>0, <1>2, <1>3, <1>7, <1>8, <1>9, <1>c DEF Asked, Alike, ChangeIs
<1>11. calls' = [calls EXCEPT ![c] = u]
  BY <1>d, <1>l, <1>n, <1>r, <1>s, <1>z DEF IInv, CallsOK
<1>12. /\ UNCHANGED <<shown, view, draft, busy, loading, told, tangled>>
       /\ server' \in [Stored -> Nat] /\ \A x \in Versioned : server[x] <= server'[x]
  BY <1>l, CellKinds DEF Serve, IInv, Shown
<1>13. Fresh(u, server', told)
  <2> SUFFICES ASSUME NEW x \in DOMAIN saw \cap Versioned
               PROVE  saw[x] <= server[x] /\ (x \notin r.shared => told[x] <= saw[x])
    BY <1>2, <1>l DEF Fresh, Alike
  <2>1. CASE x \in list
    <3>1. told[x] <= server[x] /\ server[x] \in Nat
      BY CellKinds DEF IInv, Shown
    <3> QED
      BY <1>4, <2>1, <3>1
  <2>2. CASE x \notin list
    <3>1. Fresh(r, server, told) /\ r.op # "idle"
      BY <1>r DEF IInv, FreshAll, Serve, Busy
    <3> QED
      BY <1>4, <2>2, <3>1 DEF Fresh
  <2> QED
    BY <2>1, <2>2
<1> QED
  BY <1>2, <1>10, <1>11, <1>12, <1>13, <1>r, ServedKeeps

\* What a write stores.
LEMMA WrittenIs ==
  ASSUME IInv, NEW r, Asked(r), ~r.done, NEW rows \in SUBSET Alerts, NEW w,
         w = Written(r, rows)
  PROVE  /\ w \in [Stored -> Nat]
         /\ r.op = "create" => w[r.arg] = 1
         /\ r.op = "delete" => w[r.arg] = 0
         /\ \A x \in Versioned : server[x] <= w[x]
<1>0. /\ server \in [Stored -> Nat] /\ Versioned \subseteq Stored
      /\ Versioned \cap Rules = {}
  BY CellKinds DEF IInv, Shown
<1>1. CASE r.op = "mark"
  <2>1. r.arg \in Stored
    BY <1>1, CellKinds DEF Asked
  <2>2. w = [server EXCEPT ![r.arg] = @ + 1]
    BY <1>1 DEF Written
  <2> QED
    BY <1>0, <1>1, <2>1, <2>2
<1>2. CASE r.op = "create"
  <2>1. r.arg \in Stored /\ r.arg \in Rules
    BY <1>2, CellKinds DEF Asked, PriceIs
  <2>2. w = [server EXCEPT ![r.arg] = 1]
    BY <1>2 DEF Written
  <2> QED
    BY <1>0, <1>2, <2>1, <2>2
<1>3. CASE r.op = "delete"
  <2>1. r.arg \in Stored /\ r.arg \in Rules
    BY <1>3, CellKinds DEF Asked, PriceIs
  <2>2. w = [server EXCEPT ![r.arg] = 0]
    BY <1>3 DEF Written
  <2> QED
    BY <1>0, <1>3, <2>1, <2>2
<1>4. CASE r.op = "test"
  <2>1. "settings" \in Stored
    BY CellKinds
  <2>2. w = [server EXCEPT !["settings"] = @ + 1]
    BY <1>4 DEF Written
  <2> QED
    BY <1>0, <1>4, <2>1, <2>2
<1>5. CASE r.op = "save"
  <2>1. w = [x \in Stored |-> IF x \in rows \cup {"settings"} THEN server[x] + 1
                             ELSE server[x]]
    BY <1>5 DEF Written
  <2> QED
    BY <1>0, <1>5, <2>1
<1>6. CASE r.op \in {"check", "change"}
  <2>1. w = [x \in Stored |-> IF x \in rows THEN server[x] + 1 ELSE server[x]]
    BY <1>6 DEF Written
  <2> QED
    BY <1>0, <1>6, <2>1
<1> QED
  BY <1>1, <1>2, <1>3, <1>4, <1>5, <1>6 DEF Asked

\* A change is written.
LEMMA WriteKeeps ==
  ASSUME IInv, NEW c \in Slots, Serve(c), Write(c)
  PROVE  IInv'
<1>r. PICK r : r = calls[c]
  OBVIOUS
<1>0. Asked(r) /\ Request(r) /\ ~r.done
  BY <1>r, BusyAsked DEF Serve, Write
<1>w. PICK rows \in SUBSET Alerts :
        /\ server' = Written(r, rows)
        /\ calls' = [calls EXCEPT ![c].done = TRUE,
                                  ![c].saw = [x \in Tells(r) |-> server'[x]]]
  BY <1>r DEF Write
<1>1. /\ server' \in [Stored -> Nat]
      /\ r.op = "create" => server'[r.arg] = 1
      /\ r.op = "delete" => server'[r.arg] = 0
      /\ \A x \in Versioned : server[x] <= server'[x]
  BY <1>0, <1>w, WrittenIs
<1>s. PICK saw : saw = [x \in Tells(r) |-> server'[x]]
  OBVIOUS
<1>z. PICK u : u = [r EXCEPT !.done = TRUE, !.saw = saw]
  OBVIOUS
<1>2. u \in [op : {r.op}, cells : {r.cells}, reads : {r.reads}, form : {r.form},
            arg : {r.arg}, saw : {saw}, backup : {r.backup}, mounted : {r.mounted},
            shared : {r.shared}, done : {TRUE}]
  BY <1>0, <1>z DEF Request
<1>3. Alike(u, r) /\ u.reads = r.reads /\ u.saw = saw /\ u.done
  BY <1>2 DEF Alike
<1>4. Request(u)
  BY <1>0, <1>2, <1>3 DEF Request, Alike
<1>5. /\ Tells(r) \subseteq r.cells /\ Tells(r) \subseteq Stored
      /\ "backup" \notin Tells(r) /\ (r.op # "change" => Tells(r) = r.cells)
  BY <1>0 DEF Asked, Tells
<1>6. /\ saw = [x \in DOMAIN saw |-> saw[x]] /\ DOMAIN saw = Tells(r)
      /\ \A x \in Tells(r) : saw[x] = server'[x] /\ saw[x] \in Nat
  BY <1>1, <1>5, <1>s
<1>7. SawIs(u)
  BY <1>3, <1>5, <1>6 DEF SawIs, Alike
<1>c. CheckIs(u) /\ (r.op = "change" => ChangeIs(u))
  <2>1. r.op # "backup" /\ CheckIs(r) /\ (r.op = "change" => ChangeIs(r))
    BY <1>0 DEF Asked
  <2>2. "backup" \notin DOMAIN u.saw
    BY <1>3, <1>5, <1>6
  <2> QED
    BY <1>3, <2>1, <2>2 DEF CheckIs, ChangeIs, Alike
<1>8. r.op \in {"create", "delete"} => PriceIs(u)
  BY <1>0, <1>1, <1>3, <1>5, <1>6 DEF Asked, PriceIs, Alike
<1>9. r.op # "refresh"
  BY <1>0 DEF Asked
<1>10. Asked(u)
  BY <1>0, <1>3, <1>4, <1>7, <1>8, <1>9, <1>c DEF Asked, Alike
<1>11. calls' = [calls EXCEPT ![c] = u]
  BY <1>r, <1>s, <1>w, <1>z DEF IInv, CallsOK
<1>12. UNCHANGED <<shown, view, draft, busy, loading, told, tangled>>
  BY DEF Serve
<1>13. Fresh(u, server', told)
  <2>1. ASSUME NEW x \in Versioned
        PROVE  server'[x] \in Nat /\ told[x] <= server'[x]
    <3>1. told[x] <= server[x] /\ told[x] \in Nat /\ server[x] \in Nat /\ server'[x] \in Nat
      BY <1>1, CellKinds DEF IInv, Shown
    <3> QED
      BY <1>1, <3>1
  <2> QED
    BY <1>3, <1>6, <2>1 DEF Fresh
<1> QED
  BY <1>1, <1>3, <1>10, <1>11, <1>12, <1>13, <1>r, ServedKeeps

-----------------------------------------------------------------------------
(* The answers.                                                            *)

\* What is shown, and told, after an answer: nothing but what the request is about changes.
LEMMA AnsweredShows ==
  ASSUME IInv, NEW r, Asked(r), Current(r, shown, tangled), Fresh(r, server, told),
         r.op # "idle", r.done, r.reads = {}, UNCHANGED server,
         UNCHANGED view, shown' = Shows(r), draft' = Drafted(r), Learn(r)
  PROVE  /\ Shown' /\ \A x \in Cells \ r.cells : shown'[x] = shown[x]
         /\ \A x \in Cells \ DOMAIN r.saw : told'[x] = told[x]
         /\ \/ r.op = "backup" /\ "backup" \in r.cells
            \/ "backup" \in tangled'
            \/ "backup" \notin tangled /\ shown'["backup"] = shown["backup"]
<1>0. Request(r) /\ SawIs(r) /\ r.cells \subseteq Cells
  BY DEF Asked, Request
<1>o. PICK saw : saw = r.saw
  OBVIOUS
<1>D. PICK D : D = DOMAIN saw
  OBVIOUS
<1>1. /\ D \subseteq r.cells /\ D \subseteq Cells /\ \A x \in D : saw[x] \in Nat
  BY <1>0, <1>D, <1>o DEF SawIs
<1>2. /\ shown \in [Cells -> Nat] /\ told \in [Cells -> Nat] /\ tangled \subseteq Cells
      /\ \A x \in Cells \ tangled : shown[x] = told[x]
  BY DEF IInv, Shown
<1>t. /\ told' \in [Cells -> Nat]
      /\ \A x \in D : x \notin r.shared => told'[x] = saw[x]
      /\ \A x \in Cells \ D : told'[x] = told[x]
      /\ \A x \in Versioned : told'[x] <= server[x]
  <2>1. told' = [x \in Cells |-> IF x \in D THEN Newer(x, told[x], saw[x]) ELSE told[x]]
    BY <1>D, <1>o DEF Learn
  <2>2. ASSUME NEW x \in D
        PROVE  /\ told'[x] \in Nat /\ told'[x] \in {told[x], saw[x]}
               /\ x \notin r.shared => told'[x] = saw[x]
    <3>1. x \in Cells /\ told[x] \in Nat /\ saw[x] \in Nat
      BY <1>1, <1>2
    <3>2. told'[x] = IF x \in Versioned /\ told[x] > saw[x] THEN told[x] ELSE saw[x]
      BY <2>1, <3>1 DEF Newer
    <3>3. x \in Versioned /\ x \notin r.shared => told[x] <= saw[x]
      BY <1>D, <1>o DEF Fresh
    <3> QED
      BY <3>1, <3>2, <3>3
  <2>3. \A x \in Cells \ D : told'[x] = told[x] /\ told'[x] \in Nat
    BY <1>2, <2>1
  <2>4. ASSUME NEW x \in Versioned
        PROVE  told'[x] <= server[x]
    <3>1. told[x] <= server[x] /\ x \in Cells
      BY CellKinds DEF IInv, Shown
    <3>2. x \in D => saw[x] <= server[x]
      BY <1>D, <1>o DEF Fresh
    <3> QED
      BY <2>2, <2>3, <3>1, <3>2
  <2>5. \A x \in Cells : told'[x] \in Nat
    BY <2>2, <2>3
  <2>6. told' \in [Cells -> Nat]
    BY <2>1, <2>5
  <2> QED
    BY <2>2, <2>3, <2>4, <2>6
<1>g. /\ tangled' \subseteq Cells /\ \A x \in r.shared : x \in tangled'
      /\ \A x \in Cells \ tangled' : x \notin r.shared /\ (x \notin tangled \/ x \in D)
      /\ \A x \in D : x \notin tangled' => told'[x] = saw[x]
  BY <1>0, <1>1, <1>2, <1>t, <1>D, <1>o DEF Learn, Request
<1>3. /\ shown' \in [Cells -> Nat] /\ \A x \in Cells \ r.cells : shown'[x] = shown[x]
      /\ \A x \in Cells \ tangled' : shown'[x] = told'[x]
  <2>1. CASE r.op = "create"
    <3>p. PICK p \in Cells : p = r.arg
      BY <2>1, CellKinds DEF Asked, PriceIs
    <3>1. r.cells = {p} /\ D = {p} /\ saw[p] = 1
      BY <1>D, <1>o, <2>1, <3>p DEF Asked, PriceIs
    <3>2. shown' = [shown EXCEPT ![p] = @ + 1]
      BY <2>1, <3>p DEF Shows, InFront
    <3>3. p \notin r.shared => shown[p] = 0
      BY <2>1, <3>p DEF Current
    <3>4. /\ shown' \in [Cells -> Nat] /\ shown'[p] = shown[p] + 1
          /\ \A x \in Cells \ {p} : shown'[x] = shown[x]
      BY <1>2, <3>2
    <3>5. ASSUME NEW x \in Cells \ tangled'
          PROVE  shown'[x] = told'[x]
      <4>1. CASE x = p
        <5>1. shown[p] = 0
          BY <1>g, <3>3, <4>1
        <5> QED
          BY <1>g, <3>1, <3>4, <4>1, <5>1
      <4>2. CASE x # p
        BY <1>2, <1>g, <1>t, <3>1, <3>4, <4>2
      <4> QED
        BY <4>1, <4>2
    <3> QED
      BY <3>1, <3>4, <3>5
  <2>2. CASE r.op = "delete"
    <3>p. PICK p \in Cells : p = r.arg
      BY <2>2, CellKinds DEF Asked, PriceIs
    <3>1. r.cells = {p} /\ D = {p} /\ saw[p] = 0
      BY <1>D, <1>o, <2>2, <3>p DEF Asked, PriceIs
    <3>2. shown' = [shown EXCEPT ![p] = 0]
      BY <2>2, <3>p DEF Shows, FilteredOut
    <3>4. /\ shown' \in [Cells -> Nat] /\ shown'[p] = 0
          /\ \A x \in Cells \ {p} : shown'[x] = shown[x]
      BY <1>2, <3>2
    <3> QED
      BY <1>2, <1>g, <1>t, <3>1, <3>4
  <2>3. CASE r.op = "refresh"
    <3>b. PICK old : old = Captured(r)
      OBVIOUS
    <3>1. DOMAIN old = {"backup"} /\ old["backup"] = r.backup /\ r.backup \in Nat
      BY <1>0, <3>b DEF Captured, Request
    <3>2. shown' = Over(saw, old)
      BY <1>o, <2>3, <3>b DEF Shows
    <3>3. /\ shown' = [x \in DOMAIN saw \cup DOMAIN old |-> shown'[x]]
          /\ DOMAIN shown' = DOMAIN saw \cup DOMAIN old
          /\ \A x \in DOMAIN saw : shown'[x] = saw[x]
          /\ \A x \in DOMAIN old \ DOMAIN saw : shown'[x] = old[x]
      <4>1. IsOver(shown', saw, old)
        BY <3>2, OverIs
      <4> QED
        BY <4>1 DEF IsOver
    <3>4. r.cells = Cells /\ \A x \in Cells : x = "backup" \/ x \in D
      BY <1>D, <1>o, <2>3 DEF Asked, RefreshIs
    <3>5. DOMAIN saw \cup DOMAIN old = Cells
      BY <1>1, <1>D, <3>1, <3>4, CellKinds
    <3>6. \A x \in Cells : shown'[x] = (IF x \in D THEN saw[x] ELSE r.backup)
      BY <1>D, <3>1, <3>3, <3>4
    <3>7. \A x \in Cells : shown'[x] \in Nat
      BY <1>1, <3>1, <3>6
    <3>8. shown' = [x \in Cells |-> shown'[x]]
      BY <3>3, <3>5
    <3>9. ASSUME NEW x \in Cells \ tangled'
          PROVE  shown'[x] = told'[x]
      <4>1. CASE x \in D
        BY <1>g, <3>6, <4>1
      <4>2. CASE x \notin D
        <5>1. x = "backup" /\ x \notin r.shared /\ x \notin tangled
          BY <1>g, <3>4, <4>2
        <5>2. r.backup = shown["backup"]
          BY <2>3, <5>1 DEF Current
        <5> QED
          BY <1>2, <1>t, <3>6, <4>2, <5>1, <5>2
      <4> QED
        BY <4>1, <4>2
    <3> QED
      BY <3>4, <3>7, <3>8, <3>9
  <2>4. CASE r.op \notin {"create", "delete", "refresh"}
    <3>2. shown' = Over(saw, shown)
      BY <1>o, <2>4 DEF Shows
    <3>3. /\ shown' = [x \in DOMAIN saw \cup DOMAIN shown |-> shown'[x]]
          /\ DOMAIN shown' = DOMAIN saw \cup DOMAIN shown
          /\ \A x \in DOMAIN saw : shown'[x] = saw[x]
          /\ \A x \in DOMAIN shown \ DOMAIN saw : shown'[x] = shown[x]
      <4>1. IsOver(shown', saw, shown)
        BY <3>2, OverIs
      <4> QED
        BY <4>1 DEF IsOver
    <3>4. DOMAIN shown = Cells /\ \A x \in Cells : shown[x] \in Nat
      BY <1>2
    <3>5. DOMAIN saw \cup DOMAIN shown = Cells
      BY <1>1, <1>D, <3>4
    <3>6. \A x \in Cells : shown'[x] = (IF x \in D THEN saw[x] ELSE shown[x])
      BY <1>D, <3>3, <3>4
    <3>7. \A x \in Cells : shown'[x] \in Nat
      BY <1>1, <3>4, <3>6
    <3>8. shown' = [x \in Cells |-> shown'[x]]
      BY <3>3, <3>5
    <3>9. \A x \in Cells \ tangled' : shown'[x] = told'[x]
      BY <1>2, <1>g, <1>t, <3>6
    <3>10. \A x \in Cells \ r.cells : shown'[x] = shown[x]
      BY <1>1, <3>6
    <3> QED
      BY <3>7, <3>8, <3>9, <3>10
  <2> QED
    BY <2>1, <2>2, <2>3, <2>4
<1>4. draft' \in Nat /\ (view' = "alerts" => draft' = shown'["settings"])
  <2>1. draft \in Nat /\ (view = "alerts" => draft = shown["settings"])
    BY DEF IInv, Shown
  <2>2. "settings" \in Cells /\ shown'["settings"] \in Nat
    BY <1>3, CellKinds
  <2>3. CASE view = "alerts" /\ "settings" \in r.cells
    BY <2>2, <2>3 DEF Drafted
  <2>4. CASE ~(view = "alerts" /\ "settings" \in r.cells)
    <3>1. draft' = draft
      BY <2>4 DEF Drafted
    <3> QED
      BY <1>3, <2>1, <2>2, <2>4, <3>1
  <2> QED
    BY <2>3, <2>4
<1>5. ASSUME ~(r.op = "backup" /\ "backup" \in r.cells), "backup" \notin tangled'
      PROVE  "backup" \notin tangled /\ shown'["backup"] = shown["backup"]
  <2>1. "backup" \notin D /\ "backup" \in Cells
    BY <1>1, <1>5, <1>D, <1>o, CellKinds DEF Asked, CheckIs
  <2>2. "backup" \notin tangled
    BY <1>5, <1>g, <2>1
  <2> QED
    BY <1>2, <1>3, <1>5, <1>t, <2>1, <2>2
<1>6. \A x \in Cells \ DOMAIN r.saw : told'[x] = told[x]
  BY <1>t, <1>D, <1>o
<1>7. Shown'
  BY <1>3, <1>4, <1>g, <1>t DEF IInv, Shown
<1> QED
  BY <1>3, <1>5, <1>6, <1>7

\* A request is finished.
LEMMA FinishKeeps ==
  ASSUME IInv, NEW c \in Slots, Busy(c), Finish(c), Shown',
         \A d \in Slots \ {c} : /\ Current(calls[d], shown', tangled')
                               /\ Fresh(calls[d], server', told')
  PROVE  IInv'
<1>r. PICK r : r = calls[c]
  OBVIOUS
<1>0. Request(r)
  BY <1>r, BusyAsked
<1>1. /\ calls' = [d \in Slots |-> calls'[d]] /\ calls'[c] = Idle
      /\ \A d \in Slots \ {c} : calls'[d] = calls[d]
  BY DEF Finish, IInv, CallsOK
<1>2. CallsOK'
  BY <1>1, IdleIs DEF IInv, CallsOK
<1>3. CurrentAll(calls', shown', tangled') /\ FreshAll(calls', server', told')
  BY <1>1, IdleIs DEF CurrentAll, FreshAll
<1>4. Marked(calls')
  <2> SUFFICES ASSUME NEW d \in Slots, NEW e \in Slots, d # e,
                      NEW x \in Common(calls'[d], calls'[e])
               PROVE  x \in calls'[d].shared
    BY DEF Marked
  <2>1. d # c /\ e # c
    BY <1>1, IdleIs
  <2> QED
    BY <1>1, <2>1 DEF IInv, Marked
<1>5. /\ busy = [f \in Forms |-> busy[f]] /\ busy[None] = None
      /\ \A f \in Forms : busy[f] # None => \E d \in Slots : Holds(calls[d], f)
  BY DEF IInv, Held
<1>6. /\ busy' = [f \in Forms |-> busy'[f]] /\ busy'[None] = None
      /\ \A f \in Forms : busy'[f] # None => busy[f] # None /\ ~Holds(r, f)
  <2>1. CASE r.form # None /\ r.mounted
    <3>1. busy' = [busy EXCEPT ![r.form] = None]
      BY <1>r, <2>1 DEF Finish, Enable
    <3> QED
      BY <1>0, <1>5, <2>1, <3>1 DEF Request, Holds
  <2>2. CASE ~(r.form # None /\ r.mounted)
    <3>1. busy' = busy
      BY <1>r, <2>2 DEF Finish, Enable
    <3> QED
      BY <1>5, <2>2, <3>1 DEF Holds
  <2> QED
    BY <2>1, <2>2
<1>7. ASSUME NEW f \in Forms, busy'[f] # None
      PROVE  \E d \in Slots : Holds(calls'[d], f)
  <2>1. PICK d \in Slots : Holds(calls[d], f)
    BY <1>5, <1>6, <1>7
  <2>2. d # c
    BY <1>6, <1>7, <1>r, <2>1
  <2> QED
    BY <1>1, <2>1, <2>2
<1>8. loading' \in BOOLEAN /\ (loading' => loading /\ ~Loads(r))
  BY <1>r DEF Finish, Loads, IInv, LoadingOK
<1>9. ASSUME loading'
      PROVE  \E d \in Slots : Loads(calls'[d])
  <2>1. PICK d \in Slots : Loads(calls[d])
    BY <1>8, <1>9 DEF IInv, LoadingOK
  <2>2. d # c
    BY <1>8, <1>9, <1>r, <2>1
  <2> QED
    BY <1>1, <2>1, <2>2
<1> QED
  BY <1>2, <1>3, <1>4, <1>6, <1>7, <1>8, <1>9 DEF IInv, Held, LoadingOK

\* What follows an answer is a request of the same button.
LEMMA RereadIs ==
  ASSUME NEW r, Asked(r), r.op # "change", NEW next \in NextCall(r)
  PROVE  /\ Asked(next) /\ next.form = r.form /\ next.mounted = r.mounted
         /\ next.op \in {"list", "reread"} /\ ~Loads(r) /\ \A v, t : Fresh(next, v, t)
<1>0. Request(r) /\ r.form \in Forms /\ r.mounted \in BOOLEAN
  BY DEF Asked, Request
<1>1. PICK op \in {"list", "reread"}, cells \in SUBSET Cells :
        /\ cells \subseteq Stored /\ "backup" \notin cells /\ r.op \in {"save", "check", "test"}
        /\ next = [Sending(op, cells, {cells}, r.form, r.arg) EXCEPT !.mounted = r.mounted]
  <2>1. CASE r.op \in {"save", "check"}
    BY <2>1, CellKinds DEF NextCall
  <2>2. CASE r.op = "test"
    <3>1. /\ {"settings"} \in SUBSET Cells /\ {"settings"} \subseteq Stored
          /\ "backup" \notin {"settings"}
      BY CellKinds
    <3> QED
      BY <2>2, <3>1 DEF NextCall
  <2>3. CASE r.op \notin {"save", "check", "test"}
    BY <2>3 DEF NextCall
  <2> QED
    BY <2>1, <2>2, <2>3
<1>n. PICK reads : reads = {cells}
  OBVIOUS
<1>p. PICK p : p = Sending(op, cells, reads, r.form, r.arg)
  OBVIOUS
<1>f. PICK form \in Forms : form = r.form
  BY <1>0
<1>g. PICK arg : arg = r.arg
  OBVIOUS
<1>2. ReadsOK(cells, reads) /\ op \in Ops
  BY <1>1, <1>n DEF ReadsOK, Ops
<1>3. p = Sending(op, cells, reads, form, arg)
  BY <1>f, <1>g, <1>p
<1>4. SentAs(p, op, cells, reads, form, arg)
  BY <1>2, <1>3, SendingIs
<1>5. next = [p EXCEPT !.mounted = r.mounted]
  BY <1>1, <1>n, <1>p
<1>6. /\ Request(p) /\ SawIs(p) /\ p.op = op /\ p.form = form /\ p.done /\ CheckIs(p)
      /\ \A v, t : Fresh(p, v, t)
  BY <1>1, <1>4, <1>n DEF SentAs
<1>7. next \in [op : {p.op}, cells : {p.cells}, reads : {p.reads}, form : {p.form},
               arg : {p.arg}, saw : {p.saw}, backup : {p.backup}, mounted : {r.mounted},
               shared : {p.shared}, done : {p.done}]
  BY <1>5, <1>6 DEF Request
<1>8. /\ next.op = p.op /\ next.cells = p.cells /\ next.reads = p.reads
      /\ next.form = p.form /\ next.saw = p.saw /\ next.shared = p.shared
      /\ next.mounted = r.mounted /\ next.done = p.done /\ next.arg = p.arg
  BY <1>7
<1>9. Request(next)
  BY <1>0, <1>6, <1>7, <1>8 DEF Request
<1>10. SawIs(next) /\ CheckIs(next) /\ \A v, t : Fresh(next, v, t)
  BY <1>6, <1>8 DEF SawIs, CheckIs, Fresh
<1> QED
  BY <1>1, <1>6, <1>8, <1>9, <1>10, <1>f DEF Asked, Loads

\* What follows a change is the refresh its handler began with.
LEMMA NextCallIs ==
  ASSUME NEW r, Asked(r), NEW next \in NextCall(r)
  PROVE  /\ Asked(next) /\ ~Loads(r) /\ \A v, t : Fresh(next, v, t)
         /\ \/ /\ r.op # "change" /\ next.op \in {"list", "reread"}
               /\ next.form = r.form /\ next.mounted = r.mounted
            \/ /\ r.op = "change" /\ r.form = None /\ Loads(next)
               /\ next.op = "refresh" /\ next.backup = r.backup /\ next.shared = r.shared
<1>1. CASE r.op = "change"
  <2>0. PICK backup \in Nat, shared \in SUBSET Cells : backup = r.backup /\ shared = r.shared
    BY DEF Asked, Request
  <2>1. next = Refreshing(backup, shared)
    BY <1>1, <2>0 DEF NextCall
  <2>2. /\ Asked(next) /\ next.op = "refresh" /\ next.form = None /\ next.backup = backup
        /\ next.shared = shared /\ Loads(next) /\ \A v, t : Fresh(next, v, t)
    BY <2>1, RefreshingIs
  <2> QED
    BY <1>1, <2>0, <2>2 DEF Asked, ChangeIs, Loads
<1>2. CASE r.op # "change"
  BY <1>2, RereadIs
<1> QED
  BY <1>1, <1>2

\* An answer comes.
LEMMA AnswerKeeps ==
  ASSUME IInv, NEW c \in Slots, Answer(c)
  PROVE  IInv'
<1>r. PICK r : r = calls[c]
  OBVIOUS
<1>0. /\ Asked(r) /\ Request(r) /\ Current(r, shown, tangled) /\ Fresh(r, server, told)
      /\ r.done /\ r.reads = {} /\ Busy(c) /\ r.op # "idle"
      /\ UNCHANGED server /\ UNCHANGED view
      /\ shown' = Shows(r) /\ draft' = Drafted(r) /\ Learn(r)
  BY <1>r, BusyAsked DEF Answer, IInv, CurrentAll, FreshAll, Busy
<1>1. /\ Shown' /\ \A x \in Cells \ r.cells : shown'[x] = shown[x]
      /\ \A x \in Cells \ DOMAIN r.saw : told'[x] = told[x]
      /\ \/ r.op = "backup" /\ "backup" \in r.cells
         \/ "backup" \in tangled'
         \/ "backup" \notin tangled /\ shown'["backup"] = shown["backup"]
  BY <1>0, AnsweredShows
<1>s. DOMAIN r.saw \subseteq r.cells /\ ("backup" \in DOMAIN r.saw => r.op = "backup")
  BY <1>0 DEF Asked, SawIs, CheckIs
<1>2. ASSUME NEW d \in Slots \ {c}
      PROVE  Current(calls[d], shown', tangled') /\ Fresh(calls[d], server', told')
  <2>o. PICK o : o = calls[d]
    OBVIOUS
  <2>1. /\ Current(o, shown, tangled) /\ Fresh(o, server, told) /\ CallOK(o)
        /\ \A x \in Common(o, r) : x \in o.shared
    BY <1>r, <2>o DEF IInv, CurrentAll, FreshAll, CallsOK, Marked
  <2>2. ASSUME o.op \in {"refresh", "change"}, "backup" \notin o.shared,
               "backup" \notin tangled'
        PROVE  o.backup = shown'["backup"]
    <3>1. "backup" \in o.cells
      BY <2>1, <2>2, IdleIs, CellKinds DEF CallOK, Asked, RefreshIs, ChangeIs
    <3>2. ~(r.op = "backup" /\ "backup" \in r.cells)
      BY <2>1, <2>2, <3>1 DEF Common
    <3> QED
      BY <1>1, <2>1, <2>2, <3>2 DEF Current
  <2>3. ASSUME o.op = "create", o.arg \notin o.shared
        PROVE  shown'[o.arg] = 0
    <3>1. o.arg \in o.cells /\ o.arg \in Cells /\ o.arg # "backup"
      BY <2>1, <2>3, IdleIs, CellKinds DEF CallOK, Asked, PriceIs
    <3>2. o.arg \notin r.cells
      BY <2>1, <2>3, <3>1 DEF Common
    <3> QED
      BY <1>1, <2>1, <2>3, <3>1, <3>2 DEF Current
  <2>4. Fresh(o, server', told')
    <3> SUFFICES ASSUME o.op # "idle", NEW x \in DOMAIN o.saw \cap Versioned
                 PROVE  /\ o.saw[x] <= server[x]
                        /\ x \notin o.shared => told'[x] <= o.saw[x]
      BY <1>0 DEF Fresh
    <3>1. /\ o.saw[x] <= server[x] /\ (x \notin o.shared => told[x] <= o.saw[x])
          /\ x \in Cells /\ x \in o.cells
      BY <2>1, IdleIs, CellKinds DEF Fresh, CallOK, Asked, SawIs
    <3>2. x \notin o.shared => x \notin DOMAIN r.saw
      BY <1>s, <2>1, <3>1 DEF Common
    <3> QED
      BY <1>1, <3>1, <3>2
  <2> QED
    BY <2>2, <2>3, <2>4, <2>o DEF Current
<1>3. CASE NextCall(r) = {}
  <2>1. Finish(c)
    BY <1>3, <1>r DEF Answer
  <2> QED
    BY <1>0, <1>1, <1>2, <2>1, FinishKeeps
<1>4. CASE NextCall(r) # {}
  <2>1. PICK next \in NextCall(r) : SendIn(c, next)
    BY <1>4, <1>r DEF Answer
  <2>2. UNCHANGED busy /\ loading' = (loading \/ r.op = "change")
    BY <1>4, <1>r DEF Answer
  <2>3. /\ Asked(next) /\ ~Loads(r) /\ \A v, t : Fresh(next, v, t)
        /\ \/ /\ r.op # "change" /\ next.op \in {"list", "reread"}
              /\ next.form = r.form /\ next.mounted = r.mounted
           \/ /\ r.op = "change" /\ r.form = None /\ Loads(next)
              /\ next.op = "refresh" /\ next.backup = r.backup /\ next.shared = r.shared
    BY <1>0, NextCallIs
  <2>c. Current(next, shown', tangled')
    <3>1. CASE r.op # "change"
      BY <2>3, <3>1 DEF Current
    <3>2. CASE r.op = "change"
      <4>1. \A x \in r.shared : x \in tangled'
        BY <1>0 DEF Learn
      <4> QED
        BY <1>0, <1>1, <2>3, <3>2, <4>1 DEF Current
    <3> QED
      BY <3>1, <3>2
  <2>4. /\ calls' = [d \in Slots |-> calls'[d]]
        /\ Asked(calls'[c]) /\ Remarked(calls'[c], next) /\ Later(calls'[c], next)
        /\ \A d \in Slots \ {c} : CallOK(calls'[d]) /\ Later(calls'[d], calls[d])
        /\ Marked(calls')
    BY <2>1, <2>3, SendInIs
  <2>5. CallsOK'
    BY <2>4 DEF CallsOK, CallOK
  <2>6. ASSUME NEW d \in Slots
        PROVE  Current(calls'[d], shown', tangled') /\ Fresh(calls'[d], server', told')
    <3>1. CASE d = c
      BY <2>3, <2>4, <2>c, <3>1, LaterIs
    <3>2. CASE d # c
      BY <1>2, <2>4, <3>2, LaterIs
    <3> QED
      BY <3>1, <3>2
  <2>7. ASSUME NEW f \in Forms, busy'[f] # None
        PROVE  \E d \in Slots : Holds(calls'[d], f)
    <3>1. PICK d \in Slots : Holds(calls[d], f)
      BY <2>2, <2>7 DEF IInv, Held
    <3>2. CASE d = c
      <4>0. r.op # "change"
        BY <1>r, <2>2, <2>3, <2>7, <3>1, <3>2 DEF IInv, Held, Holds
      <4>1. Holds(calls'[c], f)
        BY <1>r, <2>3, <2>4, <3>1, <3>2, <4>0 DEF Remarked, Holds
      <4> QED
        BY <4>1
    <3>3. CASE d # c
      BY <2>4, <3>1, <3>3, LaterIs
    <3> QED
      BY <3>2, <3>3
  <2>8. ASSUME loading'
        PROVE  \E d \in Slots : Loads(calls'[d])
    <3>1. CASE r.op = "change"
      <4>1. Loads(calls'[c])
        BY <2>3, <2>4, <3>1, LaterIs
      <4> QED
        BY <4>1
    <3>2. CASE r.op # "change"
      <4>1. PICK d \in Slots : Loads(calls[d])
        BY <2>2, <2>8, <3>2 DEF IInv, LoadingOK
      <4>2. d # c
        BY <1>r, <2>3, <4>1
      <4> QED
        BY <2>4, <4>1, <4>2, LaterIs
    <3> QED
      BY <3>1, <3>2
  <2>9. Held(calls', busy') /\ LoadingOK(calls', loading')
    BY <2>2, <2>7, <2>8 DEF IInv, Held, LoadingOK
  <2> QED
    BY <1>1, <2>4, <2>5, <2>6, <2>9 DEF IInv, CurrentAll, FreshAll
<1> QED
  BY <1>3, <1>4

\* A request fails, or is refused.
LEMMA GivenUpKeeps ==
  ASSUME IInv, NEW c \in Slots, Busy(c), Finish(c),
         UNCHANGED <<server, shown, view, draft, told, tangled>>
  PROVE  IInv'
<1>1. Shown'
  BY DEF IInv, Shown
<1>2. \A d \in Slots \ {c} : /\ Current(calls[d], shown', tangled')
                             /\ Fresh(calls[d], server', told')
  BY DEF IInv, CurrentAll, FreshAll
<1> QED
  BY <1>1, <1>2, FinishKeeps

-----------------------------------------------------------------------------
(* The properties.                                                         *)

\* At the start the console shows what the server has, and nothing is under way.
LEMMA InitKeeps == Init => IInv
<1> SUFFICES ASSUME Init PROVE IInv
  OBVIOUS
<1>1. /\ server = [x \in Stored |-> IF x \in Rules \ Seeded THEN 0 ELSE 1]
      /\ shown = [x \in Cells |-> IF x \in Usage THEN 0 ELSE server[x]]
      /\ view = "overview" /\ draft = 0 /\ busy = AtRest /\ loading = FALSE
      /\ calls = [c \in Slots |-> Idle] /\ told = shown /\ tangled = {}
  BY DEF Init
<1>2. server \in [Stored -> Nat]
  BY <1>1
<1>3. \A x \in Cells : shown[x] \in Nat
  <2>1. \A x \in Cells : x \in Usage \/ x \in Stored
    BY DEF Stored
  <2> QED
    BY <1>1, <1>2, <2>1
<1>4. shown \in [Cells -> Nat]
  BY <1>1, <1>3
<1>s. \A x \in Versioned : told[x] <= server[x]
  <2>1. \A x \in Versioned : x \in Cells /\ x \in Stored /\ x \notin Usage
    BY CellKinds
  <2>2. \A x \in Versioned : told[x] = server[x]
    BY <1>1, <2>1
  <2> QED
    BY <1>2, <2>1, <2>2
<1>5. Shown
  BY <1>1, <1>2, <1>4, <1>s DEF Shown, Views
<1>6. /\ CallsOK /\ Marked(calls) /\ CurrentAll(calls, shown, tangled)
      /\ FreshAll(calls, server, told)
  BY <1>1, IdleIs DEF CallsOK, Marked, CurrentAll, FreshAll
<1>7. Held(calls, busy)
  BY <1>1 DEF Held, AtRest, Forms
<1>8. LoadingOK(calls, loading)
  BY <1>1 DEF LoadingOK
<1> QED
  BY <1>5, <1>6, <1>7, <1>8 DEF IInv

\* Every step keeps the invariant.
LEMMA NextKeeps ==
  ASSUME IInv, [Next]_vars
  PROVE  IInv'
<1>1. CASE Operator
  BY <1>1, OperatorKeeps
<1>2. CASE Poll
  BY <1>2, PollKeeps
<1>3. CASE Elsewhere
  BY <1>3, ElsewhereKeeps
<1>4. ASSUME NEW c \in Slots, Progress(c)
      PROVE  IInv'
  <2>1. CASE Serve(c)
    BY <2>1, ReadKeeps, WriteKeeps DEF Serve
  <2>2. CASE Answer(c)
    BY <2>2, AnswerKeeps
  <2>3. CASE Refuse(c)
    BY <2>3, GivenUpKeeps DEF Refuse
  <2>4. CASE Fail(c)
    BY <2>4, GivenUpKeeps DEF Fail
  <2> QED
    BY <1>4, <2>1, <2>2, <2>3, <2>4 DEF Progress
<1>5. CASE UNCHANGED vars
  BY <1>5 DEF vars, IInv, Shown, CallsOK, Marked, CurrentAll, FreshAll, Held, LoadingOK
<1> QED
  BY <1>1, <1>2, <1>3, <1>4, <1>5 DEF Next

\* The invariant holds throughout.
LEMMA IInvThroughout == Spec => []IInv
BY InitKeeps, NextKeeps, PTL DEF Spec

\* Copies, forms and requests have their shapes.
THEOREM TypeCorrect == Spec => []TypeOK
<1>1. IInv => TypeOK
  <2> SUFFICES ASSUME IInv PROVE TypeOK
    OBVIOUS
  <2>1. /\ server \in [Stored -> Nat] /\ shown \in [Cells -> Nat] /\ DOMAIN told = Cells
        /\ view \in Views /\ draft \in Nat /\ loading \in BOOLEAN /\ tangled \subseteq Cells
    BY DEF IInv, Shown, LoadingOK
  <2>2. ASSUME NEW c \in Slots, Busy(c)
        PROVE  /\ calls[c].op \in Ops /\ calls[c].cells \subseteq Cells
               /\ calls[c].shared \subseteq calls[c].cells
               /\ DOMAIN calls[c].saw \subseteq Cells
    <3>1. Request(calls[c]) /\ SawIs(calls[c])
      BY <2>2, BusyAsked DEF Asked
    <3> QED
      BY <3>1 DEF Request, SawIs
  <2> QED
    BY <2>1, <2>2 DEF TypeOK
<1> QED
  BY <1>1, IInvThroughout, PTL

\* What the console shows of an alert, of the settings and of the backup check is the newest
\* version it was ever told of, and of the rest the latest answer, unless the news met
\* another request about it or a handler that will refresh; and the form of the alert
\* settings is filled from it (the setters of App and the closures of its refresh, and the
\* effect of AlertsPage).
THEOREM ToldIsAlwaysShown == Spec => []ToldIsShown
<1>1. IInv => ToldIsShown
  BY DEF IInv, Shown, ToldIsShown
<1> QED
  BY <1>1, IInvThroughout, PTL

\* A button that is disabled is waited for by a request under way (busy, checkingAccount,
\* loading).
THEOREM NoFormIsStuck == Spec => []NoFormStuck
<1>1. IInv => NoFormStuck
  <2> SUFFICES ASSUME IInv PROVE NoFormStuck
    OBVIOUS
  <2>1. \A f \in Forms : busy[f] # None => \E c \in Slots : Holds(calls[c], f)
    BY DEF IInv, Held
  <2>2. loading => \E c \in Slots : calls[c].op \in {"refresh", "apply"}
    BY DEF IInv, LoadingOK, Loads
  <2> QED
    BY <2>1, <2>2 DEF NoFormStuck, Holds, Busy
<1> QED
  BY <1>1, IInvThroughout, PTL

=============================================================================
