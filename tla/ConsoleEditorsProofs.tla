------------------------ MODULE ConsoleEditorsProofs ------------------------
(***************************************************************************)
(* Proofs about the dialogs of keys and accounts: for any keys and         *)
(* accounts, any number of requests under way, of changes by the operator  *)
(* and by others, and of requests that fail.                               *)
(***************************************************************************)
EXTENDS ConsoleEditors, TLAPS

-----------------------------------------------------------------------------
(* The inductive invariant.                                                *)

\* What the server and the console have of each item.
Record(x) == IF x \in Keys THEN KeyRecord ELSE AccountRecord
ItemsOf(d) == IF d = "key" THEN Keys ELSE Accounts
Lists(s) == s = [x \in Items |-> s[x]] /\ \A x \in Items : s[x] \in Record(x)

\* A copy of an account is no newer than the account, and tells the same of it when it is
\* as new.
Faithful(s, x, copy) ==
  x \in Accounts =>
    /\ copy.version <= s[x].version
    /\ copy.version = s[x].version => copy.on = s[x].on /\ copy.models = s[x].models

\* A dialog; when it is open, it has a copy of its item, and unless an answer has crossed
\* it, it shows the item.
Window(v) ==
  v \in [item : Items \cup {None}, copy : {v.copy}, form : Items \cup {None},
         head : Items \cup {None}, busy : BOOLEAN, synced : BOOLEAN, crossed : BOOLEAN]
ShowsItem(v) == ~v.crossed => v.form \in {v.item, None} /\ v.head = v.item
DialogOK(s, d, v) ==
  /\ Window(v)
  /\ v.item = None => ~v.busy
  /\ v.item # None =>
       /\ v.item \in ItemsOf(d) /\ v.copy \in Record(v.item)
       /\ Faithful(s, v.item, v.copy) /\ ShowsItem(v)

\* A request that writes an account changes nothing but what is meant, if its copy is the
\* latest.
Request(r) ==
  r \in [op : {"save", "rotate", "revoke", "put", "test", "refresh"}, item : {r.item},
         body : {r.body}, blank : BOOLEAN, based : Nat, meant : SUBSET Fields,
         from : Dialogs \cup {None}, mounted : BOOLEAN, at : {"sent", "done"},
         saw : {r.saw}]
Agrees(s, r) ==
  /\ r.body \in AccountRecord /\ r.body.version = r.based
  /\ r.based <= s[r.item].version
  /\ r.based = s[r.item].version =>
       /\ "on" \notin r.meant => r.body.on = s[r.item].on
       /\ "models" \notin r.meant => r.body.models = s[r.item].models
Put(s, r) ==
  /\ r.from \in {"tester", "account", None} /\ r.item \in Accounts
  /\ r.blank <=> "secret" \notin r.meant
  /\ Agrees(s, r)
Saw(s, r) ==
  /\ r.op \in {"save", "rotate", "revoke", "put"} =>
       r.saw \in Record(r.item) /\ Faithful(s, r.item, r.saw)
  /\ r.op = "refresh" =>
       Lists(r.saw) /\ \A x \in Items : Faithful(s, x, r.saw[x])
Asked(s, r) ==
  /\ Request(r)
  /\ r.op \in {"save", "rotate", "revoke"} => r.from = "key" /\ r.item \in Keys
  /\ r.op = "save" => r.body \in [on : BOOLEAN]
  /\ r.op = "put" => Put(s, r)
  /\ r.op = "test" => r.from = "tester" /\ r.item \in Accounts
  /\ r.op = "refresh" => r.from = None
  /\ r.at = "done" => Saw(s, r)
CallOK(s, r) == r = Idle \/ Asked(s, r)

\* A dialog waits for a request of its own, which is about the item it is open for.
Waits(r, d) == r.op # "idle" /\ r.mounted /\ r.from = d
Aims(r, v) == v.item # None /\ (~v.crossed => r.item = v.item)
Aimed(C, D) ==
  \A c \in Slots, d \in Dialogs : Waits(C[c], d) => Aims(C[c], D[d])
Awaited(C, D) == \A d \in Dialogs : D[d].busy => \E c \in Slots : Waits(C[c], d)

Copies ==
  /\ Lists(server) /\ Lists(rows) /\ \A x \in Items : Faithful(server, x, rows[x])
  /\ loading \in BOOLEAN
DialogsOK ==
  /\ dialog = [d \in Dialogs |-> dialog[d]]
  /\ \A d \in Dialogs : DialogOK(server, d, dialog[d])
CallsOK ==
  calls = [c \in Slots |-> calls[c]] /\ \A c \in Slots : CallOK(server, calls[c])
IInv == Copies /\ DialogsOK /\ CallsOK /\ Aimed(calls, dialog) /\ Awaited(calls, dialog)

-----------------------------------------------------------------------------
(* Items, records, requests.                                               *)

\* Keys are not accounts, and nothing is None.
LEMMA ItemKinds ==
  /\ \A x \in Keys : x \notin Accounts /\ x # None /\ x \in Items /\ Record(x) = KeyRecord
  /\ \A x \in Accounts : /\ x \notin Keys /\ x # None /\ x \in Items
                         /\ Record(x) = AccountRecord
  /\ None \notin Dialogs /\ None \notin Items /\ Default \in Keys
BY EditorsAssumption DEF Items, Record

\* A slot that is not idle holds a request.
LEMMA BusyAsked ==
  ASSUME NEW s, NEW r, CallOK(s, r), r.op # "idle"
  PROVE  Asked(s, r) /\ Request(r)
BY DEF CallOK, Asked, Idle

\* A slot that is idle is waited for by no dialog.
LEMMA IdleWaits ==
  ASSUME NEW d
  PROVE  ~Waits(Idle, d)
BY DEF Waits, Idle

\* A dialog that is mounted shows its item.
LEMMA MountedOK ==
  ASSUME NEW s, NEW d \in Dialogs, NEW x \in ItemsOf(d), NEW copy \in Record(x),
         Faithful(s, x, copy), NEW v, v = Mounted(d, x, copy)
  PROVE  DialogOK(s, d, v) /\ v.item = x /\ ~v.busy /\ ~v.crossed
<1>1. x \in Items /\ x # None
  BY ItemKinds DEF ItemsOf
<1>f. PICK form \in Items \cup {None} : form = IF d = "tester" THEN None ELSE x
  BY <1>1
<1>2. v = [item |-> x, copy |-> copy, form |-> form, head |-> x, busy |-> FALSE,
           synced |-> FALSE, crossed |-> FALSE]
  BY <1>f DEF Mounted, Closed
<1>3. v.item = x /\ v.copy = copy /\ v.form = form /\ v.head = x /\ ~v.busy /\ ~v.crossed
  BY <1>2
<1>4. Window(v)
  BY <1>1, <1>2, <1>3 DEF Window
<1> QED
  BY <1>1, <1>3, <1>4, <1>f DEF DialogOK, ShowsItem

\* A dialog that is closed.
LEMMA ClosedOK ==
  ASSUME NEW s, NEW d
  PROVE  DialogOK(s, d, Closed) /\ Closed.item = None /\ ~Closed.busy
BY DEF DialogOK, Closed, Window

\* A dialog that is enabled, or disabled, is otherwise as it was.
LEMMA BusyOK ==
  ASSUME NEW s, NEW d, NEW v, DialogOK(s, d, v), NEW b \in BOOLEAN,
         b => v.item # None, NEW u, u = [v EXCEPT !.busy = b]
  PROVE  DialogOK(s, d, u) /\ u.item = v.item /\ u.crossed = v.crossed /\ u.busy = b
         /\ u.form = v.form /\ u.copy = v.copy /\ u.head = v.head
<1>1. u \in [item : {v.item}, copy : {v.copy}, form : {v.form}, head : {v.head},
             busy : {b}, synced : BOOLEAN, crossed : {v.crossed}]
  BY DEF DialogOK, Window
<1> QED
  BY <1>1 DEF DialogOK, Window, ShowsItem

-----------------------------------------------------------------------------
(* The server changes.                                                     *)

\* A write makes a new version of an account.
Newer(s, t) ==
  /\ Lists(s) /\ Lists(t)
  /\ \A x \in Accounts : t[x] = s[x] \/ t[x].version = s[x].version + 1

\* What was a copy still is one.
LEMMA OlderCopies ==
  ASSUME NEW s, NEW t, Newer(s, t), NEW x \in Items, NEW copy \in Record(x),
         Faithful(s, x, copy)
  PROVE  Faithful(t, x, copy)
<1> SUFFICES ASSUME x \in Accounts
             PROVE  /\ copy.version <= t[x].version
                    /\ copy.version = t[x].version =>
                         copy.on = t[x].on /\ copy.models = t[x].models
  BY DEF Faithful
<1>1. copy.version \in Nat /\ s[x].version \in Nat /\ t[x].version \in Nat
  <2>1. copy \in AccountRecord /\ s[x] \in AccountRecord /\ t[x] \in AccountRecord
    BY ItemKinds DEF Newer, Lists
  <2> QED
    BY <2>1 DEF AccountRecord
<1>2. t[x] = s[x] \/ t[x].version = s[x].version + 1
  BY DEF Newer
<1> QED
  BY <1>1, <1>2 DEF Faithful

\* A dialog is as good as it was.
LEMMA OlderDialog ==
  ASSUME NEW s, NEW t, Newer(s, t), NEW d, NEW v, DialogOK(s, d, v)
  PROVE  DialogOK(t, d, v)
<1>1. v.item # None => v.item \in Items
  BY DEF DialogOK, Window
<1>2. v.item # None => Faithful(t, v.item, v.copy)
  BY <1>1, OlderCopies DEF DialogOK
<1> QED
  BY <1>2 DEF DialogOK

\* A request is as good as it was.
LEMMA OlderCall ==
  ASSUME NEW s, NEW t, Newer(s, t), NEW r, CallOK(s, r)
  PROVE  CallOK(t, r)
<1> SUFFICES ASSUME r # Idle
             PROVE  Asked(t, r)
  BY DEF CallOK
<1>0. Asked(s, r) /\ Request(r)
  BY DEF CallOK, Asked
<1>1. r.op = "put" => Put(t, r)
  <2> HAVE r.op = "put"
  <2>1. Put(s, r) /\ r.item \in Accounts /\ r.based \in Nat
    BY <1>0 DEF Asked, Put, Request
  <2>2. s[r.item].version \in Nat /\ t[r.item].version \in Nat
    <3>1. s[r.item] \in AccountRecord /\ t[r.item] \in AccountRecord
      BY <2>1, ItemKinds DEF Newer, Lists
    <3> QED
      BY <3>1 DEF AccountRecord
  <2>3. t[r.item] = s[r.item] \/ t[r.item].version = s[r.item].version + 1
    BY <2>1 DEF Newer
  <2> QED
    BY <2>1, <2>2, <2>3 DEF Put, Agrees
<1>2. r.at = "done" => Saw(t, r)
  <2> HAVE r.at = "done"
  <2>0. Saw(s, r)
    BY <1>0 DEF Asked
  <2>1. ASSUME r.op \in {"save", "rotate", "revoke", "put"}
        PROVE  r.saw \in Record(r.item) /\ Faithful(t, r.item, r.saw)
    <3>1. r.item \in Items
      BY <1>0, <2>1, ItemKinds DEF Asked, Put
    <3> QED
      BY <2>0, <2>1, <3>1, OlderCopies DEF Saw
  <2>2. ASSUME r.op = "refresh"
        PROVE  Lists(r.saw) /\ \A x \in Items : Faithful(t, x, r.saw[x])
    BY <2>0, <2>2, OlderCopies DEF Saw, Lists
  <2> QED
    BY <2>1, <2>2 DEF Saw
<1> QED
  BY <1>0, <1>1, <1>2 DEF Asked

\* All copies, dialogs and requests are.
LEMMA NewerServer ==
  ASSUME Copies, DialogsOK, CallsOK, NEW t, Newer(server, t)
  PROVE  /\ Lists(t) /\ \A x \in Items : Faithful(t, x, rows[x])
         /\ \A d \in Dialogs : DialogOK(t, d, dialog[d])
         /\ \A c \in Slots : CallOK(t, calls[c])
<1>1. \A x \in Items : rows[x] \in Record(x) /\ Faithful(server, x, rows[x])
  BY DEF Copies, Lists
<1> QED
  BY <1>1, OlderCopies, OlderDialog, OlderCall DEF Newer, DialogsOK, CallsOK

-----------------------------------------------------------------------------
(* Requests are sent, served and finished.                                 *)

\* One slot holds something else.
LEMMA SlotSet ==
  ASSUME CallsOK, NEW c \in Slots, NEW r, CallOK(server', r),
         \A e \in Slots : CallOK(server', calls[e]),
         calls' = [calls EXCEPT ![c] = r]
  PROVE  CallsOK' /\ calls'[c] = r /\ \A e \in Slots \ {c} : calls'[e] = calls[e]
<1>1. /\ calls' = [e \in Slots |-> calls'[e]] /\ calls'[c] = r
      /\ \A e \in Slots \ {c} : calls'[e] = calls[e]
  BY DEF CallsOK
<1>2. \A e \in Slots : CallOK(server', calls'[e])
  BY <1>1
<1> QED
  BY <1>1, <1>2 DEF CallsOK

\* One dialog has changed.
LEMMA DialogSet ==
  ASSUME DialogsOK, NEW d \in Dialogs, NEW v, DialogOK(server', d, v),
         \A e \in Dialogs : DialogOK(server', e, dialog[e]),
         dialog' = [dialog EXCEPT ![d] = v]
  PROVE  DialogsOK' /\ dialog'[d] = v /\ \A e \in Dialogs \ {d} : dialog'[e] = dialog[e]
<1>1. /\ dialog' = [e \in Dialogs |-> dialog'[e]] /\ dialog'[d] = v
      /\ \A e \in Dialogs \ {d} : dialog'[e] = dialog[e]
  BY DEF DialogsOK
<1>2. \A e \in Dialogs : DialogOK(server', e, dialog'[e])
  BY <1>1
<1> QED
  BY <1>1, <1>2 DEF DialogsOK

\* A dialog sends a request about its item, and waits for it.
LEMMA AskedKeeps ==
  ASSUME IInv, UNCHANGED <<server, rows, loading>>,
         NEW d \in Dialogs, Open(d), NEW v, DialogOK(server, d, v),
         v.item = dialog[d].item, v.crossed = dialog[d].crossed,
         dialog' = [dialog EXCEPT ![d] = v],
         NEW c \in Slots, Free(c), NEW call, Asked(server, call),
         call.from = d, call.mounted, call.item = v.item,
         calls' = [calls EXCEPT ![c] = call]
  PROVE  IInv'
<1>1. CallsOK' /\ calls'[c] = call /\ \A e \in Slots \ {c} : calls'[e] = calls[e]
  BY SlotSet DEF IInv, CallsOK, CallOK
<1>2. DialogsOK' /\ dialog'[d] = v /\ \A e \in Dialogs \ {d} : dialog'[e] = dialog[e]
  BY DialogSet DEF IInv, DialogsOK
<1>3. Copies'
  BY DEF IInv, Copies
<1>4. ~Busy(c) /\ call.op # "idle"
  BY DEF Free, Asked, Request
<1>5. ASSUME NEW e \in Slots, NEW f \in Dialogs, Waits(calls'[e], f)
      PROVE  Aims(calls'[e], dialog'[f])
  <2>1. CASE e = c
    <3>1. f = d
      BY <1>1, <1>5, <2>1 DEF Waits
    <3> QED
      BY <1>1, <1>2, <2>1, <3>1 DEF Aims, Open
  <2>2. CASE e # c
    <3>1. Aims(calls[e], dialog[f])
      BY <1>1, <1>5, <2>2 DEF IInv, Aimed
    <3>2. dialog'[f].item = dialog[f].item /\ dialog'[f].crossed = dialog[f].crossed
      BY <1>2
    <3> QED
      BY <1>1, <2>2, <3>1, <3>2 DEF Aims
  <2> QED
    BY <2>1, <2>2
<1>6. ASSUME NEW f \in Dialogs, dialog'[f].busy
      PROVE  \E e \in Slots : Waits(calls'[e], f)
  <2>1. CASE f = d
    BY <1>1, <1>4, <2>1 DEF Waits
  <2>2. CASE f # d
    <3>1. PICK e \in Slots : Waits(calls[e], f)
      BY <1>2, <1>6, <2>2 DEF IInv, Awaited
    <3>2. e # c
      BY <1>4, <3>1 DEF Waits, Busy
    <3> QED
      BY <1>1, <3>1, <3>2
  <2> QED
    BY <2>1, <2>2
<1> QED
  BY <1>1, <1>2, <1>3, <1>5, <1>6 DEF IInv, Aimed, Awaited

\* A request that no dialog waits for is sent.
LEMMA SentKeeps ==
  ASSUME IInv, UNCHANGED <<server, rows, dialog>>, loading' \in BOOLEAN,
         NEW c \in Slots, Free(c), NEW call, Asked(server, call), call.from = None,
         calls' = [calls EXCEPT ![c] = call]
  PROVE  IInv'
<1>1. CallsOK' /\ calls'[c] = call /\ \A e \in Slots \ {c} : calls'[e] = calls[e]
  BY SlotSet DEF IInv, CallsOK, CallOK
<1>2. DialogsOK' /\ Copies'
  BY DEF IInv, Copies, DialogsOK
<1>3. ~Busy(c) /\ \A f \in Dialogs : ~Waits(call, f)
  BY ItemKinds DEF Free, Waits
<1>4. Aimed(calls', dialog')
  BY <1>1, <1>3 DEF IInv, Aimed
<1>5. ASSUME NEW f \in Dialogs, dialog'[f].busy
      PROVE  \E e \in Slots : Waits(calls'[e], f)
  <2>1. PICK e \in Slots : Waits(calls[e], f)
    BY <1>5 DEF IInv, Awaited
  <2>2. e # c
    BY <1>3, <2>1 DEF Waits, Busy
  <2> QED
    BY <1>1, <2>1, <2>2
<1> QED
  BY <1>1, <1>2, <1>4, <1>5 DEF IInv, Awaited

\* The server serves a request.
LEMMA ServedKeeps ==
  ASSUME IInv, UNCHANGED <<rows, dialog, loading>>, Newer(server, server'),
         NEW c \in Slots, NEW r, CallOK(server', r),
         r.op = calls[c].op, r.from = calls[c].from, r.mounted = calls[c].mounted,
         r.item = calls[c].item, calls' = [calls EXCEPT ![c] = r]
  PROVE  IInv'
<1>0. /\ Lists(server') /\ \A x \in Items : Faithful(server', x, rows[x])
      /\ \A d \in Dialogs : DialogOK(server', d, dialog[d])
      /\ \A e \in Slots : CallOK(server', calls[e])
  BY NewerServer DEF IInv
<1>1. CallsOK' /\ calls'[c] = r /\ \A e \in Slots \ {c} : calls'[e] = calls[e]
  BY <1>0, SlotSet DEF IInv
<1>2. DialogsOK' /\ Copies'
  BY <1>0 DEF IInv, Copies, DialogsOK
<1>3. \A e \in Slots, d \in Dialogs : Waits(calls'[e], d) <=> Waits(calls[e], d)
  BY <1>1 DEF Waits
<1>4. \A e \in Slots : calls'[e].item = calls[e].item
  BY <1>1
<1> QED
  BY <1>1, <1>2, <1>3, <1>4 DEF IInv, Aimed, Aims, Awaited

\* A request is finished: the dialog that waited for it no longer does.
LEMMA DoneKeeps ==
  ASSUME IInv, UNCHANGED server, Copies', DialogsOK', NEW c \in Slots, Finish(c),
         \A d \in Dialogs : dialog'[d].busy => dialog[d].busy /\ ~Waits(calls[c], d),
         \A e \in Slots, d \in Dialogs :
           e # c /\ Waits(calls[e], d) => Aims(calls[e], dialog'[d])
  PROVE  IInv'
<1>0. calls' = [calls EXCEPT ![c] = Idle]
  BY DEF Finish
<1>1. CallsOK' /\ calls'[c] = Idle /\ \A e \in Slots \ {c} : calls'[e] = calls[e]
  BY <1>0, SlotSet DEF IInv, CallsOK, CallOK
<1>2. Aimed(calls', dialog')
  BY <1>1, IdleWaits DEF Aimed
<1>3. ASSUME NEW d \in Dialogs, dialog'[d].busy
      PROVE  \E e \in Slots : Waits(calls'[e], d)
  <2>1. PICK e \in Slots : Waits(calls[e], d)
    BY <1>3 DEF IInv, Awaited
  <2>2. e # c
    BY <1>3, <2>1
  <2> QED
    BY <1>1, <2>1, <2>2
<1> QED
  BY <1>1, <1>2, <1>3 DEF IInv, Awaited

\* A request of a dialog that is gone is as good as it was.
LEMMA UnmountedOK ==
  ASSUME NEW s, NEW r, CallOK(s, r), r.op # "idle", NEW u, u = [r EXCEPT !.mounted = FALSE]
  PROVE  CallOK(s, u) /\ ~u.mounted
<1>0. Asked(s, r) /\ Request(r)
  BY BusyAsked
<1>1. u \in [op : {r.op}, item : {r.item}, body : {r.body}, blank : {r.blank},
             based : {r.based}, meant : {r.meant}, from : {r.from}, mounted : {FALSE},
             at : {r.at}, saw : {r.saw}]
  BY <1>0 DEF Request
<1>2. /\ u.op = r.op /\ u.item = r.item /\ u.body = r.body /\ u.blank = r.blank
      /\ u.based = r.based /\ u.meant = r.meant /\ u.from = r.from /\ ~u.mounted
      /\ u.at = r.at /\ u.saw = r.saw
  BY <1>1
<1>3. Request(u)
  BY <1>0, <1>1, <1>2 DEF Request
<1>4. Put(s, r) => Put(s, u)
  BY <1>2 DEF Put, Agrees
<1>5. Saw(s, r) => Saw(s, u)
  BY <1>2 DEF Saw
<1> QED
  BY <1>0, <1>2, <1>3, <1>4, <1>5 DEF CallOK, Asked

\* A dialog is closed: what it waited for is answered to nobody.
LEMMA GoneKeeps ==
  ASSUME IInv, NEW d \in Dialogs, NEW C, C = Unmounted(d)
  PROVE  /\ C = [e \in Slots |-> C[e]] /\ \A e \in Slots : CallOK(server, C[e])
         /\ \A e \in Slots : ~Waits(C[e], d)
         /\ \A e \in Slots, f \in Dialogs :
              f # d => (Waits(C[e], f) <=> Waits(calls[e], f))
         /\ \A e \in Slots, f \in Dialogs : f # d /\ Waits(C[e], f) => C[e] = calls[e]
<1>1. \A e \in Slots :
        /\ Busy(e) /\ calls[e].from = d => C[e] = [calls[e] EXCEPT !.mounted = FALSE]
        /\ ~(Busy(e) /\ calls[e].from = d) => C[e] = calls[e]
  BY DEF Unmounted
<1>2. C = [e \in Slots |-> C[e]]
  BY DEF Unmounted
<1>3. ASSUME NEW e \in Slots
      PROVE  /\ CallOK(server, C[e]) /\ ~Waits(C[e], d)
             /\ \A f \in Dialogs : f # d => (Waits(C[e], f) <=> Waits(calls[e], f))
             /\ \A f \in Dialogs : f # d /\ Waits(C[e], f) => C[e] = calls[e]
  <2>0. CallOK(server, calls[e])
    BY DEF IInv, CallsOK
  <2>1. CASE Busy(e) /\ calls[e].from = d
    <3>1. C[e] = [calls[e] EXCEPT !.mounted = FALSE] /\ calls[e].op # "idle"
      BY <1>1, <2>1 DEF Busy
    <3>2. CallOK(server, C[e]) /\ ~C[e].mounted
      BY <2>0, <3>1, UnmountedOK
    <3> QED
      BY <2>1, <3>2 DEF Waits
  <2>2. CASE ~(Busy(e) /\ calls[e].from = d)
    <3>1. C[e] = calls[e]
      BY <1>1, <2>2
    <3> QED
      BY <2>0, <2>2, <3>1 DEF Waits, Busy
  <2> QED
    BY <2>1, <2>2
<1> QED
  BY <1>2, <1>3

-----------------------------------------------------------------------------
(* The operator.                                                           *)

\* What is sent.
LEMMA SendingIs ==
  ASSUME NEW op \in {"save", "rotate", "revoke", "put", "test", "refresh"}, NEW x,
         NEW body, NEW from \in Dialogs \cup {None}, NEW r,
         r = Sending(op, x, body, from)
  PROVE  /\ Request(r) /\ r.op = op /\ r.item = x /\ r.body = body /\ r.from = from
         /\ r.mounted /\ r.at = "sent" /\ r.based = 0 /\ r.blank /\ r.meant = {}
BY DEF Sending, Request, Fields

\* The body of an account: what is changed, and the rest as the copy has it.
LEMMA ChangedIs ==
  ASSUME NEW copy \in AccountRecord, NEW changes, DOMAIN changes \subseteq {"on", "models"},
         "on" \in DOMAIN changes => changes["on"] \in BOOLEAN,
         "models" \in DOMAIN changes => changes["models"] \in Models,
         NEW body, body = Changed(copy, changes)
  PROVE  /\ body \in AccountRecord /\ body.version = copy.version
         /\ "on" \notin DOMAIN changes => body.on = copy.on
         /\ "models" \notin DOMAIN changes => body.models = copy.models
<1>1. DOMAIN copy = {"on", "models", "secret", "version"}
  BY DEF AccountRecord
<1>2. body = [f \in {"on", "models", "secret", "version"} |->
                IF f \in DOMAIN changes THEN changes[f] ELSE copy[f]]
  BY <1>1 DEF Changed
<1>3. /\ body["on"] = IF "on" \in DOMAIN changes THEN changes["on"] ELSE copy["on"]
      /\ body["models"] = IF "models" \in DOMAIN changes THEN changes["models"]
                          ELSE copy["models"]
      /\ body["secret"] = copy["secret"] /\ body["version"] = copy["version"]
  BY <1>2
<1>4. copy.on \in BOOLEAN /\ copy.models \in Models /\ copy.secret \in Nat
      /\ copy.version \in Nat
  BY DEF AccountRecord
<1>5. body["on"] \in BOOLEAN /\ body["models"] \in Models /\ body["secret"] \in Nat
      /\ body["version"] \in Nat
  BY <1>3, <1>4
<1>6. body \in AccountRecord
  BY <1>2, <1>5 DEF AccountRecord
<1> QED
  BY <1>3, <1>6

\* A write of an account, made of a copy that tells the truth of it.
LEMMA PayloadIs ==
  ASSUME NEW s, NEW x \in Accounts, NEW copy \in AccountRecord, Faithful(s, x, copy),
         NEW changes, DOMAIN changes \subseteq {"on", "models"},
         "on" \in DOMAIN changes => changes["on"] \in BOOLEAN,
         "models" \in DOMAIN changes => changes["models"] \in Models,
         NEW from \in {"tester", "account", None},
         NEW r, r = AccountPayload(x, copy, changes, from)
  PROVE  /\ Asked(s, r) /\ r.op = "put" /\ r.from = from /\ r.item = x /\ r.mounted
         /\ r.meant = DOMAIN changes /\ r.at = "sent"
<1>b. PICK body : body = Changed(copy, changes)
  OBVIOUS
<1>m. PICK meant : meant = DOMAIN changes
  OBVIOUS
<1>v. PICK v \in Nat : v = copy.version
  BY DEF AccountRecord
<1>1. /\ body \in AccountRecord /\ body.version = copy.version
      /\ "on" \notin meant => body.on = copy.on
      /\ "models" \notin meant => body.models = copy.models
  BY <1>b, <1>m, ChangedIs
<1>p. PICK p : p = Sending("put", x, body, from)
  OBVIOUS
<1>f. from \in Dialogs \cup {None}
  BY DEF Dialogs
<1>2. /\ Request(p) /\ p.op = "put" /\ p.item = x /\ p.body = body /\ p.from = from
      /\ p.mounted /\ p.at = "sent" /\ p.blank
  BY <1>f, <1>p, SendingIs
<1>3. r = [p EXCEPT !.based = v, !.meant = meant]
  BY <1>b, <1>m, <1>p, <1>v DEF AccountPayload
<1>4. r \in [op : {p.op}, item : {p.item}, body : {p.body}, blank : {p.blank},
             based : {v}, meant : {meant}, from : {p.from}, mounted : {p.mounted},
             at : {p.at}, saw : {p.saw}]
  BY <1>2, <1>3 DEF Request
<1>5. /\ r.op = "put" /\ r.item = x /\ r.body = body /\ r.blank /\ r.based = v
      /\ r.meant = meant /\ r.from = from /\ r.mounted /\ r.at = "sent"
  BY <1>2, <1>4
<1>6. meant \in SUBSET Fields /\ "secret" \notin meant
  BY <1>m DEF Fields
<1>7. Request(r)
  BY <1>2, <1>4, <1>5, <1>6 DEF Request
<1>8. Agrees(s, r)
  BY <1>1, <1>5, <1>v DEF Agrees, Faithful
<1>9. Put(s, r)
  BY <1>5, <1>6, <1>8 DEF Put
<1> QED
  BY <1>5, <1>7, <1>9, <1>m DEF Asked

\* A dialog is disabled.
LEMMA DisabledOK ==
  ASSUME IInv, NEW d \in Dialogs, Open(d), NEW v, v = [dialog[d] EXCEPT !.busy = TRUE]
  PROVE  /\ DialogOK(server, d, v) /\ v.item = dialog[d].item
         /\ v.crossed = dialog[d].crossed
<1>u. PICK u : u = dialog[d]
  OBVIOUS
<1>1. DialogOK(server, d, u) /\ u.item # None /\ v = [u EXCEPT !.busy = TRUE]
  BY <1>u DEF IInv, DialogsOK, Open
<1>2. v \in [item : {u.item}, copy : {u.copy}, form : {u.form}, head : {u.head},
             busy : {TRUE}, synced : {u.synced}, crossed : {u.crossed}]
  BY <1>1 DEF DialogOK, Window
<1>3. DialogOK(server, d, v) /\ v.item = u.item /\ v.crossed = u.crossed
  BY <1>1, <1>2 DEF DialogOK, Window, ShowsItem
<1> QED
  BY <1>3, <1>u

\* A dialog is opened for a row.
LEMMA OpenDialogKeeps ==
  ASSUME IInv, OpenDialog
  PROVE  IInv'
<1>u. UNCHANGED <<server, rows, loading, calls>>
  BY DEF OpenDialog
<1>d. PICK d \in Dialogs : \E x \in IF d = "key" THEN Keys ELSE Accounts :
        dialog' = [dialog EXCEPT ![d] = Mounted(d, x, rows[x])]
  BY DEF OpenDialog
<1>x. PICK x \in ItemsOf(d) : dialog' = [dialog EXCEPT ![d] = Mounted(d, x, rows[x])]
  BY <1>d DEF ItemsOf
<1>v. PICK v : v = Mounted(d, x, rows[x])
  OBVIOUS
<1>1. x \in Items
  BY ItemKinds DEF ItemsOf
<1>2. rows[x] \in Record(x) /\ Faithful(server, x, rows[x])
  BY <1>1 DEF IInv, Copies, Lists
<1>3. DialogOK(server, d, v) /\ v.item = x /\ ~v.busy
  BY <1>2, <1>v, MountedOK
<1>4. DialogsOK' /\ dialog'[d] = v /\ \A e \in Dialogs \ {d} : dialog'[e] = dialog[e]
  BY <1>3, <1>u, <1>v, <1>x, DialogSet DEF IInv, DialogsOK
<1>5. \A e \in Dialogs : ~Open(e)
  BY DEF OpenDialog, Uncovered
<1>6. \A c \in Slots, e \in Dialogs : ~Waits(calls[c], e)
  BY <1>5 DEF IInv, Aimed, Aims, Open
<1>7. Aimed(calls', dialog') /\ Awaited(calls', dialog')
  BY <1>3, <1>4, <1>6, <1>u DEF IInv, Aimed, Awaited
<1>8. Copies' /\ CallsOK'
  BY <1>u DEF IInv, Copies, CallsOK
<1> QED
  BY <1>4, <1>7, <1>8 DEF IInv

\* A dialog is closed.
LEMMA CloseDialogKeeps ==
  ASSUME IInv, CloseDialog
  PROVE  IInv'
<1>u. UNCHANGED <<server, rows, loading>>
  BY DEF CloseDialog
<1>d. PICK d \in Dialogs : dialog' = [dialog EXCEPT ![d] = Closed] /\ calls' = Unmounted(d)
  BY DEF CloseDialog
<1>v. PICK v : v = Closed
  OBVIOUS
<1>1. DialogOK(server, d, v) /\ ~v.busy
  BY <1>v, ClosedOK
<1>2. DialogsOK' /\ dialog'[d] = v /\ \A e \in Dialogs \ {d} : dialog'[e] = dialog[e]
  BY <1>1, <1>d, <1>u, <1>v, DialogSet DEF IInv, DialogsOK
<1>3. /\ calls' = [e \in Slots |-> calls'[e]] /\ \A e \in Slots : CallOK(server, calls'[e])
      /\ \A e \in Slots : ~Waits(calls'[e], d)
      /\ \A e \in Slots, f \in Dialogs :
           f # d => (Waits(calls'[e], f) <=> Waits(calls[e], f))
      /\ \A e \in Slots, f \in Dialogs :
           f # d /\ Waits(calls'[e], f) => calls'[e] = calls[e]
  BY <1>d, GoneKeeps
<1>4. CallsOK'
  BY <1>3, <1>u DEF CallsOK
<1>5. Aimed(calls', dialog')
  BY <1>2, <1>3 DEF IInv, Aimed
<1>6. Awaited(calls', dialog')
  BY <1>1, <1>2, <1>3 DEF IInv, Awaited
<1>7. Copies'
  BY <1>u DEF IInv, Copies
<1> QED
  BY <1>2, <1>4, <1>5, <1>6, <1>7 DEF IInv

\* The dialog of a key sends what it was asked for.
LEMMA KeyAskedKeeps ==
  ASSUME IInv, SaveKey \/ RotateKey \/ RevokeKey
  PROVE  IInv'
<1>v. PICK v : v = [dialog["key"] EXCEPT !.busy = TRUE]
  OBVIOUS
<1>0. /\ UNCHANGED <<server, rows, loading>> /\ Open("key") /\ "key" \in Dialogs
      /\ dialog' = [dialog EXCEPT !["key"] = v]
  BY <1>v DEF SaveKey, RotateKey, RevokeKey, Asks, Dialogs
<1>1. /\ DialogOK(server, "key", v) /\ v.item = dialog["key"].item
      /\ v.crossed = dialog["key"].crossed
  BY <1>0, <1>v, DisabledOK
<1>2. v.item \in Keys
  BY <1>0, <1>1 DEF DialogOK, ItemsOf, Open
<1>3. PICK op \in {"save", "rotate", "revoke"} : \E body :
        /\ op = "save" => body \in [on : BOOLEAN]
        /\ Send(Sending(op, dialog["key"].item, body, "key"))
  <2>1. CASE SaveKey
    <3>1. PICK on \in BOOLEAN :
            Send(Sending("save", dialog["key"].item,
                         [on |-> on \/ dialog["key"].head = Default], "key"))
      BY <2>1 DEF SaveKey
    <3>2. [on |-> on \/ dialog["key"].head = Default] \in [on : BOOLEAN]
      OBVIOUS
    <3> QED
      BY <3>1, <3>2
  <2>2. CASE RotateKey
    BY <2>2 DEF RotateKey
  <2>3. CASE RevokeKey
    BY <2>3 DEF RevokeKey
  <2> QED
    BY <2>1, <2>2, <2>3
<1>4. PICK body : /\ op = "save" => body \in [on : BOOLEAN]
                  /\ Send(Sending(op, dialog["key"].item, body, "key"))
  BY <1>3
<1>c. PICK call : call = Sending(op, dialog["key"].item, body, "key")
  OBVIOUS
<1>5. /\ Request(call) /\ call.op = op /\ call.item = v.item /\ call.body = body
      /\ call.from = "key" /\ call.mounted /\ call.at = "sent"
  BY <1>0, <1>1, <1>c, SendingIs
<1>6. Asked(server, call)
  BY <1>2, <1>4, <1>5 DEF Asked
<1>7. PICK c \in Slots : Free(c) /\ calls' = [calls EXCEPT ![c] = call]
  BY <1>4, <1>c DEF Send
<1> QED
  BY <1>0, <1>1, <1>5, <1>6, <1>7, AskedKeeps

\* A test is asked for.
LEMMA RunTestKeeps ==
  ASSUME IInv, RunTest
  PROVE  IInv'
<1>t. PICK t : t = dialog["tester"]
  OBVIOUS
<1>v. PICK v : v = [t EXCEPT !.busy = TRUE, !.form = None, !.synced = FALSE]
  OBVIOUS
<1>0. /\ UNCHANGED <<server, rows, loading>> /\ Open("tester") /\ "tester" \in Dialogs
      /\ dialog' = [dialog EXCEPT !["tester"].busy = TRUE, !["tester"].form = None,
                                  !["tester"].synced = FALSE]
  BY DEF RunTest, Dialogs
<1>d. dialog' = [dialog EXCEPT !["tester"] = v]
  BY <1>0, <1>t, <1>v DEF IInv, DialogsOK
<1>1. DialogOK(server, "tester", t) /\ t.item # None
  BY <1>0, <1>t DEF IInv, DialogsOK, Open
<1>2. v \in [item : {t.item}, copy : {t.copy}, form : {None}, head : {t.head},
             busy : {TRUE}, synced : {FALSE}, crossed : {t.crossed}]
  BY <1>1, <1>v DEF DialogOK, Window
<1>3. DialogOK(server, "tester", v) /\ v.item = t.item /\ v.crossed = t.crossed
  BY <1>1, <1>2 DEF DialogOK, Window, ShowsItem
<1>4. v.item \in Accounts
  BY <1>1, <1>3 DEF DialogOK, ItemsOf
<1>c. PICK call : call = Sending("test", dialog["tester"].item, None, "tester")
  OBVIOUS
<1>5. /\ Request(call) /\ call.op = "test" /\ call.item = v.item
      /\ call.from = "tester" /\ call.mounted /\ call.at = "sent"
  BY <1>0, <1>3, <1>c, <1>t, SendingIs
<1>6. Asked(server, call)
  BY <1>4, <1>5 DEF Asked
<1>7. PICK c \in Slots : Free(c) /\ calls' = [calls EXCEPT ![c] = call]
  BY <1>c DEF RunTest, Send
<1> QED
  BY <1>0, <1>3, <1>5, <1>6, <1>7, <1>d, <1>t, AskedKeeps

\* The models that were listed are to be written.
LEMMA SyncKeeps ==
  ASSUME IInv, SyncModels
  PROVE  IInv'
<1>t. PICK t : t = dialog["tester"]
  OBVIOUS
<1>v. PICK v : v = [t EXCEPT !.busy = TRUE]
  OBVIOUS
<1>0. /\ UNCHANGED <<server, rows, loading>> /\ Open("tester") /\ "tester" \in Dialogs
      /\ dialog' = [dialog EXCEPT !["tester"] = v]
  BY <1>t, <1>v DEF SyncModels, Asks, Dialogs
<1>1. /\ DialogOK(server, "tester", v) /\ v.item = t.item /\ v.crossed = t.crossed
  BY <1>0, <1>t, <1>v, DisabledOK
<1>2. /\ t.item \in Accounts /\ t.copy \in AccountRecord
      /\ Faithful(server, t.item, t.copy)
  BY <1>0, <1>t, ItemKinds DEF IInv, DialogsOK, DialogOK, ItemsOf, Open
<1>h. PICK changes : changes = [f \in {"models"} |-> "listed"]
  OBVIOUS
<1>c. PICK call : call = AccountPayload(t.item, t.copy, changes, "tester")
  OBVIOUS
<1>3. /\ DOMAIN changes \subseteq {"on", "models"} /\ "on" \notin DOMAIN changes
      /\ changes["models"] \in Models
  BY <1>h DEF Models
<1>4. /\ Asked(server, call) /\ call.from = "tester" /\ call.item = t.item /\ call.mounted
  BY <1>2, <1>3, <1>c, PayloadIs
<1>5. PICK c \in Slots : Free(c) /\ calls' = [calls EXCEPT ![c] = call]
  BY <1>c, <1>h, <1>t DEF SyncModels, Send
<1> QED
  BY <1>0, <1>1, <1>4, <1>5, <1>t, AskedKeeps

\* An account is to be written, with what the operator changed in its form.
LEMMA SaveAccountKeeps ==
  ASSUME IInv, SaveAccount
  PROVE  IInv'
<1>t. PICK t : t = dialog["account"]
  OBVIOUS
<1>v. PICK v : v = [t EXCEPT !.busy = TRUE]
  OBVIOUS
<1>0. /\ UNCHANGED <<server, rows, loading>> /\ Open("account") /\ "account" \in Dialogs
      /\ dialog' = [dialog EXCEPT !["account"] = v]
  BY <1>t, <1>v DEF SaveAccount, Asks, Dialogs
<1>1. /\ DialogOK(server, "account", v) /\ v.item = t.item /\ v.crossed = t.crossed
  BY <1>0, <1>t, <1>v, DisabledOK
<1>2. /\ t.item \in Accounts /\ t.copy \in AccountRecord
      /\ Faithful(server, t.item, t.copy)
  BY <1>0, <1>t, ItemKinds DEF IInv, DialogsOK, DialogOK, ItemsOf, Open
<1>m. PICK meant \in SUBSET Fields : \E on \in BOOLEAN, m \in Models :
        LET changes == [f \in meant \ {"secret"} |-> IF f = "on" THEN on ELSE m]
        IN Send([AccountPayload(t.item, t.copy, changes, "account")
                   EXCEPT !.blank = "secret" \notin meant, !.meant = meant])
  BY <1>t DEF SaveAccount
<1>n. PICK on \in BOOLEAN, m \in Models :
        LET changes == [f \in meant \ {"secret"} |-> IF f = "on" THEN on ELSE m]
        IN Send([AccountPayload(t.item, t.copy, changes, "account")
                   EXCEPT !.blank = "secret" \notin meant, !.meant = meant])
  BY <1>m
<1>h. PICK changes : changes = [f \in meant \ {"secret"} |-> IF f = "on" THEN on ELSE m]
  OBVIOUS
<1>p. PICK p : p = AccountPayload(t.item, t.copy, changes, "account")
  OBVIOUS
<1>b. PICK blank \in BOOLEAN : blank <=> "secret" \notin meant
  OBVIOUS
<1>c. PICK call : call = [p EXCEPT !.blank = blank, !.meant = meant]
  OBVIOUS
<1>3. /\ DOMAIN changes = meant \ {"secret"} /\ DOMAIN changes \subseteq {"on", "models"}
      /\ "on" \in DOMAIN changes => changes["on"] \in BOOLEAN
      /\ "models" \in DOMAIN changes => changes["models"] \in Models
  BY <1>h DEF Fields
<1>4. /\ Asked(server, p) /\ p.op = "put" /\ p.from = "account" /\ p.item = t.item
      /\ p.mounted /\ p.meant = meant \ {"secret"} /\ p.at = "sent"
  BY <1>2, <1>3, <1>p, PayloadIs
<1>5. Put(server, p) /\ Request(p)
  BY <1>4 DEF Asked
<1>6. call \in [op : {p.op}, item : {p.item}, body : {p.body}, blank : {blank},
                based : {p.based}, meant : {meant}, from : {p.from}, mounted : {p.mounted},
                at : {p.at}, saw : {p.saw}]
  BY <1>5, <1>c DEF Request
<1>7. /\ call.op = "put" /\ call.item = p.item /\ call.body = p.body /\ call.blank = blank
      /\ call.based = p.based /\ call.meant = meant /\ call.from = "account"
      /\ call.mounted /\ call.at = "sent"
  BY <1>4, <1>6
<1>8. Request(call)
  BY <1>4, <1>5, <1>6, <1>7 DEF Request
<1>9. Agrees(server, call)
  <2>1. Agrees(server, p)
    BY <1>5 DEF Put
  <2>2. /\ "on" \notin meant => "on" \notin p.meant
        /\ "models" \notin meant => "models" \notin p.meant
    BY <1>4
  <2> QED
    BY <1>7, <2>1, <2>2 DEF Agrees
<1>10. Put(server, call)
  BY <1>4, <1>5, <1>7, <1>9, <1>b DEF Put
<1>11. Asked(server, call)
  BY <1>7, <1>8, <1>10 DEF Asked
<1>s. Send([p EXCEPT !.blank = "secret" \notin meant, !.meant = meant])
  BY <1>n, <1>h, <1>p
<1>x. [p EXCEPT !.blank = "secret" \notin meant, !.meant = meant] = call
  <2>1. blank = ("secret" \notin meant)
    BY <1>b
  <2> QED
    BY <1>c, <2>1
<1>12. PICK c \in Slots : Free(c) /\ calls' = [calls EXCEPT ![c] = call]
  BY <1>s, <1>x DEF Send
<1> QED
  BY <1>0, <1>1, <1>4, <1>7, <1>11, <1>12, <1>t, AskedKeeps

\* An account is to be switched on or off.
LEMMA ToggleKeeps ==
  ASSUME IInv, NEW a \in Accounts, Toggle(a)
  PROVE  IInv'
<1>0. UNCHANGED <<server, rows, dialog, loading>> /\ loading \in BOOLEAN
  BY DEF Toggle, IInv, Copies
<1>w. PICK row : row = rows[a]
  OBVIOUS
<1>1. row \in AccountRecord /\ Faithful(server, a, row)
  BY <1>w, ItemKinds DEF IInv, Copies, Lists
<1>h. PICK changes : changes = [f \in {"on"} |-> ~row.on]
  OBVIOUS
<1>c. PICK call : call = AccountPayload(a, row, changes, None)
  OBVIOUS
<1>2. /\ DOMAIN changes \subseteq {"on", "models"} /\ "models" \notin DOMAIN changes
      /\ changes["on"] \in BOOLEAN
  BY <1>h
<1>3. Asked(server, call) /\ call.from = None
  BY <1>1, <1>2, <1>c, PayloadIs
<1>4. PICK c \in Slots : Free(c) /\ calls' = [calls EXCEPT ![c] = call]
  BY <1>c, <1>h, <1>w DEF Toggle, Send
<1> QED
  BY <1>0, <1>3, <1>4, SentKeeps

\* A refresh is what it is.
LEMMA ReadingIs == \A s : Asked(s, Reading) /\ Reading.from = None /\ Reading.op = "refresh"
<1>r. PICK r : r = Reading
  OBVIOUS
<1>1. /\ Request(r) /\ r.op = "refresh" /\ r.from = None /\ r.at = "sent"
  BY <1>r, SendingIs DEF Reading
<1> QED
  BY <1>1, <1>r DEF Asked

\* The lists are to be read again.
LEMMA RefreshKeeps ==
  ASSUME IInv, Refresh
  PROVE  IInv'
<1>0. UNCHANGED <<server, rows, dialog>> /\ loading' \in BOOLEAN
  BY DEF Refresh
<1>c. PICK call : call = Reading
  OBVIOUS
<1>1. Asked(server, call) /\ call.from = None
  BY <1>c, ReadingIs
<1>2. PICK c \in Slots : Free(c) /\ calls' = [calls EXCEPT ![c] = call]
  BY <1>c DEF Refresh, Send
<1> QED
  BY <1>0, <1>1, <1>2, SentKeeps

\* Whatever the operator does.
LEMMA OperatorKeeps ==
  ASSUME IInv, Operator
  PROVE  IInv'
BY OpenDialogKeeps, CloseDialogKeeps, KeyAskedKeeps, RunTestKeeps, SyncKeeps,
   SaveAccountKeeps, ToggleKeeps, RefreshKeeps DEF Operator

-----------------------------------------------------------------------------
(* The server.                                                             *)

\* Another operator writes an account.
LEMMA ElsewhereKeeps ==
  ASSUME IInv, Elsewhere
  PROVE  IInv'
<1>u. UNCHANGED <<rows, dialog, loading, calls>>
  BY DEF Elsewhere
<1>a. PICK a \in Accounts :
        \/ server' = [server EXCEPT ![a].on = ~@, ![a].version = @ + 1]
        \/ \E m \in Models \ {server[a].models} :
             server' = [server EXCEPT ![a].models = m, ![a].version = @ + 1]
  BY DEF Elsewhere
<1>0. Lists(server) /\ a \in Items /\ server[a] \in AccountRecord
  BY ItemKinds DEF IInv, Copies, Lists
<1>f. /\ server[a].on \in BOOLEAN /\ server[a].version \in Nat
      /\ server[a].models \in Models
  BY <1>0 DEF AccountRecord
<1>1. PICK r \in AccountRecord : /\ server' = [server EXCEPT ![a] = r]
                                 /\ r.version = server[a].version + 1
  <2>o. PICK old \in AccountRecord : old = server[a]
    BY <1>0
  <2>1. CASE server' = [server EXCEPT ![a].on = ~@, ![a].version = @ + 1]
    <3>r. PICK r : r = [old EXCEPT !.on = ~old.on, !.version = old.version + 1]
      OBVIOUS
    <3>1. r \in AccountRecord /\ r.version = old.version + 1
      <4>f. old.version + 1 \in Nat /\ (~old.on) \in BOOLEAN
        BY DEF AccountRecord
      <4>1. r \in [on : {~old.on}, models : {old.models}, secret : {old.secret},
                  version : {old.version + 1}]
        BY <3>r DEF AccountRecord
      <4> QED
        BY <4>f, <4>1 DEF AccountRecord
    <3>2. server' = [server EXCEPT ![a] = r]
      BY <1>0, <2>1, <2>o, <3>r DEF Lists
    <3> QED
      BY <2>o, <3>1, <3>2
  <2>2. CASE \E m \in Models \ {server[a].models} :
               server' = [server EXCEPT ![a].models = m, ![a].version = @ + 1]
    <3>m. PICK m \in Models :
            server' = [server EXCEPT ![a].models = m, ![a].version = @ + 1]
      BY <2>2
    <3>r. PICK r : r = [old EXCEPT !.models = m, !.version = old.version + 1]
      OBVIOUS
    <3>1. r \in AccountRecord /\ r.version = old.version + 1
      <4>f. old.version + 1 \in Nat
        BY DEF AccountRecord
      <4>1. r \in [on : {old.on}, models : {m}, secret : {old.secret},
                  version : {old.version + 1}]
        BY <3>r DEF AccountRecord
      <4> QED
        BY <4>f, <4>1 DEF AccountRecord
    <3>2. server' = [server EXCEPT ![a] = r]
      BY <1>0, <2>o, <3>m, <3>r DEF Lists
    <3> QED
      BY <2>o, <3>1, <3>2
  <2> QED
    BY <1>a, <2>1, <2>2
<1>2. /\ server' = [x \in Items |-> server'[x]] /\ server'[a] = r
      /\ \A x \in Items \ {a} : server'[x] = server[x]
  BY <1>0, <1>1 DEF Lists
<1>3. Lists(server')
  BY <1>0, <1>2, ItemKinds DEF Lists
<1>4. Newer(server, server')
  BY <1>0, <1>1, <1>2, <1>3, ItemKinds DEF Newer
<1>5. /\ \A x \in Items : Faithful(server', x, rows[x])
      /\ \A d \in Dialogs : DialogOK(server', d, dialog[d])
      /\ \A c \in Slots : CallOK(server', calls[c])
  BY <1>4, NewerServer DEF IInv
<1> QED
  BY <1>3, <1>5, <1>u DEF IInv, Copies, DialogsOK, CallsOK, Aimed, Awaited

\* What is written is a record of the item, and a new version of an account.
LEMMA WrittenIs ==
  ASSUME IInv, NEW c \in Slots, Writes(c), NEW w, w = Written(calls[c])
  PROVE  /\ Asked(server, calls[c]) /\ calls[c].op # "idle" /\ calls[c].op # "refresh"
         /\ calls[c].item \in Items /\ w \in Record(calls[c].item)
         /\ calls[c].item \in Accounts =>
              /\ calls[c].op = "put" /\ w.version = server[calls[c].item].version + 1
              /\ w.on = calls[c].body.on /\ w.models = calls[c].body.models
              /\ w.secret = SecretOf(calls[c])
<1>r. PICK r : r = calls[c]
  OBVIOUS
<1>0. r.op \in {"save", "rotate", "revoke", "put"}
  BY <1>r DEF Writes
<1>1. Asked(server, r)
  BY <1>0, <1>r, BusyAsked DEF IInv, CallsOK
<1>2. CASE r.op = "put"
  <2>1. r.item \in Accounts /\ r.body \in AccountRecord
    BY <1>1, <1>2 DEF Asked, Put, Agrees
  <2>2. server[r.item] \in AccountRecord
    BY <2>1, ItemKinds DEF IInv, Copies, Lists
  <2>3. server[r.item].version \in Nat /\ server[r.item].secret \in Nat
    BY <2>2 DEF AccountRecord
  <2>v. PICK v \in Nat : v = server[r.item].version + 1
    BY <2>3
  <2>s. PICK s \in Nat : s = SecretOf(r)
    BY <2>3 DEF SecretOf
  <2>4. w = [r.body EXCEPT !.secret = s, !.version = v]
    BY <1>2, <1>r, <2>s, <2>v DEF Written
  <2>b. PICK body \in AccountRecord : body = r.body
    BY <2>1
  <2>5. /\ w \in AccountRecord /\ w.version = v /\ w.on = body.on
        /\ w.models = body.models /\ w.secret = s
    BY <2>4, <2>b DEF AccountRecord
  <2> QED
    BY <1>1, <1>2, <1>r, <2>1, <2>5, <2>b, <2>s, <2>v, ItemKinds
<1>3. CASE r.op \in {"save", "rotate", "revoke"}
  <2>1. r.item \in Keys
    BY <1>1, <1>3 DEF Asked
  <2>2. server[r.item] \in KeyRecord
    BY <2>1, ItemKinds DEF IInv, Copies, Lists
  <2>o. PICK old \in KeyRecord : old = server[r.item]
    BY <2>2
  <2>3. w \in KeyRecord
    <3>1. CASE r.op = "save"
      <4>1. r.body.on \in BOOLEAN
        BY <1>1, <3>1 DEF Asked
      <4>b. PICK b \in BOOLEAN : b = (r.body.on \/ r.item = Default)
        BY <4>1
      <4>2. w = [old EXCEPT !.on = b]
        BY <1>r, <2>o, <3>1, <4>b DEF Written
      <4> QED
        BY <4>2 DEF KeyRecord
    <3>2. CASE r.op = "rotate"
      <4>1. w = [on |-> TRUE, secret |-> old.secret + 1]
        BY <1>r, <2>o, <3>2 DEF Written
      <4> QED
        BY <4>1 DEF KeyRecord
    <3>3. CASE r.op = "revoke"
      <4>1. w = [old EXCEPT !.on = FALSE]
        BY <1>r, <2>o, <3>3 DEF Written
      <4> QED
        BY <4>1 DEF KeyRecord
    <3> QED
      BY <1>3, <3>1, <3>2, <3>3
  <2> QED
    BY <1>1, <1>3, <1>r, <2>1, <2>3, ItemKinds
<1> QED
  BY <1>0, <1>2, <1>3

\* What a request may see.
MaySee(t, r, saw) ==
  /\ r.op \in {"save", "rotate", "revoke", "put"} =>
       saw \in Record(r.item) /\ Faithful(t, r.item, saw)
  /\ r.op = "refresh" => Lists(saw) /\ \A x \in Items : Faithful(t, x, saw[x])
Answered(r, saw) == [r EXCEPT !.at = "done", !.saw = saw]
SameButAnswered(t, r, u) ==
  /\ CallOK(t, u) /\ u.op = r.op /\ u.from = r.from /\ u.mounted = r.mounted
  /\ u.item = r.item

\* A request is answered with what it saw.
LEMMA AnsweredOK ==
  ASSUME NEW s, NEW t, Newer(s, t), NEW r, Asked(s, r), NEW saw,
         MaySee(t, r, saw),
         NEW u, u = Answered(r, saw)
  PROVE  SameButAnswered(t, r, u)
<1>0. Asked(t, r) /\ Request(r)
  <2>1. r # Idle
    BY DEF Asked, Request, Idle
  <2> QED
    BY <2>1, OlderCall DEF CallOK, Asked
<1>1. u \in [op : {r.op}, item : {r.item}, body : {r.body}, blank : {r.blank},
             based : {r.based}, meant : {r.meant}, from : {r.from}, mounted : {r.mounted},
             at : {"done"}, saw : {saw}]
  BY <1>0 DEF Request, Answered
<1>2. /\ u.op = r.op /\ u.item = r.item /\ u.body = r.body /\ u.blank = r.blank
      /\ u.based = r.based /\ u.meant = r.meant /\ u.from = r.from
      /\ u.mounted = r.mounted /\ u.at = "done" /\ u.saw = saw
  BY <1>1
<1>3. Request(u)
  BY <1>0, <1>1, <1>2 DEF Request
<1>4. Put(t, r) => Put(t, u)
  BY <1>2 DEF Put, Agrees
<1>5. Saw(t, u)
  BY <1>2 DEF Saw, MaySee
<1> QED
  BY <1>0, <1>2, <1>3, <1>4, <1>5 DEF SameButAnswered, CallOK, Asked

\* A request is served.
LEMMA ServeKeeps ==
  ASSUME IInv, NEW c \in Slots, Serve(c)
  PROVE  IInv'
<1>u. UNCHANGED <<rows, dialog, loading>>
  BY DEF Serve
<1>r. PICK r : r = calls[c]
  OBVIOUS
<1>0. Asked(server, r) /\ Request(r) /\ Lists(server)
  BY <1>r, BusyAsked DEF Serve, Busy, IInv, CallsOK, Copies
<1>s. Newer(server, server)
  BY <1>0 DEF Newer
<1>1. CASE Writes(c)
  <2>w. PICK w : w = Written(r)
    OBVIOUS
  <2>1. /\ r.op # "refresh" /\ r.item \in Items /\ w \in Record(r.item)
        /\ r.item \in Accounts => w.version = server[r.item].version + 1
    BY <1>1, <1>r, <2>w, WrittenIs
  <2>2. server' = [server EXCEPT ![r.item] = w]
    BY <1>1, <1>r, <2>w DEF Writes
  <2>3. /\ server' = [x \in Items |-> server'[x]] /\ server'[r.item] = w
        /\ \A x \in Items \ {r.item} : server'[x] = server[x]
    BY <1>0, <2>1, <2>2 DEF Lists
  <2>4. Lists(server')
    BY <1>0, <2>1, <2>3 DEF Lists
  <2>5. Newer(server, server')
    BY <1>0, <2>1, <2>3, <2>4, ItemKinds DEF Newer
  <2>6. Faithful(server', r.item, w)
    <3>1. r.item \in Accounts => w.version \in Nat
      <4> HAVE r.item \in Accounts
      <4>1. w \in AccountRecord
        BY <2>1, ItemKinds
      <4> QED
        BY <4>1 DEF AccountRecord
    <3> QED
      BY <2>3, <3>1 DEF Faithful
  <2>z. PICK z : z = Answered(r, w)
    OBVIOUS
  <2>7. SameButAnswered(server', r, z)
    <3>1. MaySee(server', r, w)
      BY <2>1, <2>6 DEF MaySee
    <3> QED
      BY <1>0, <2>5, <2>z, <3>1, AnsweredOK
  <2>8. calls' = [calls EXCEPT ![c] = z]
    BY <1>1, <1>r, <2>w, <2>z DEF Writes, Answered, IInv, CallsOK
  <2> QED
    BY <1>r, <1>u, <2>5, <2>7, <2>8, ServedKeeps DEF SameButAnswered
<1>2. CASE Tests(c)
  <2>z. PICK z : z = [r EXCEPT !.at = "done"]
    OBVIOUS
  <2>y. PICK y : y = Answered(r, r.saw)
    OBVIOUS
  <2>1. z = y
    BY <1>0, <2>y, <2>z DEF Answered, Request
  <2>2. r.op = "test" /\ calls' = [calls EXCEPT ![c] = y] /\ UNCHANGED server
    BY <1>2, <1>r, <2>1, <2>z DEF Tests, IInv, CallsOK
  <2>3. SameButAnswered(server, r, y)
    <3>1. MaySee(server, r, r.saw)
      BY <2>2 DEF MaySee
    <3> QED
      BY <1>0, <1>s, <2>y, <3>1, AnsweredOK
  <2> QED
    BY <1>r, <1>s, <1>u, <2>2, <2>3, ServedKeeps DEF SameButAnswered
<1>3. CASE Reads(c)
  <2>z. PICK z : z = Answered(r, server)
    OBVIOUS
  <2>1. r.op = "refresh" /\ calls' = [calls EXCEPT ![c] = z] /\ UNCHANGED server
    BY <1>3, <1>r, <2>z DEF Reads, Answered, IInv, CallsOK
  <2>2. \A x \in Items : Faithful(server, x, server[x])
    <3>1. \A x \in Accounts : server[x].version \in Nat
      <4> TAKE x \in Accounts
      <4>1. server[x] \in AccountRecord
        BY <1>0, ItemKinds DEF Lists
      <4> QED
        BY <4>1 DEF AccountRecord
    <3> QED
      BY <3>1 DEF Faithful
  <2>3. SameButAnswered(server, r, z)
    <3>1. MaySee(server, r, server)
      BY <1>0, <2>1, <2>2 DEF MaySee
    <3> QED
      BY <1>0, <1>s, <2>z, <3>1, AnsweredOK
  <2> QED
    BY <1>r, <1>s, <1>u, <2>1, <2>3, ServedKeeps DEF SameButAnswered
<1> QED
  BY <1>1, <1>2, <1>3 DEF Serve

-----------------------------------------------------------------------------
(* The answers.                                                            *)

\* The dialog that waited is enabled again.
LEMMA ReleaseKeeps ==
  ASSUME IInv, UNCHANGED server, NEW c \in Slots, Busy(c), dialog' = Release(calls[c])
  PROVE  /\ DialogsOK'
         /\ \A d \in Dialogs : dialog'[d].busy => dialog[d].busy /\ ~Waits(calls[c], d)
         /\ \A e \in Slots, d \in Dialogs :
              Waits(calls[e], d) => Aims(calls[e], dialog'[d])
<1>r. PICK r : r = calls[c]
  OBVIOUS
<1>0. Asked(server, r) /\ Request(r) /\ r.op # "idle"
  BY <1>r, BusyAsked DEF Busy, IInv, CallsOK
<1>1. CASE r.from # None /\ r.mounted
  <2>d. PICK d \in Dialogs : d = r.from
    BY <1>0, <1>1 DEF Request
  <2>o. PICK o : o = dialog[d]
    OBVIOUS
  <2>b. PICK b \in BOOLEAN : b = FALSE
    OBVIOUS
  <2>v. PICK v : v = [o EXCEPT !.busy = b]
    OBVIOUS
  <2>1. DialogOK(server, d, o)
    BY <2>o DEF IInv, DialogsOK
  <2>2. DialogOK(server, d, v) /\ v.item = o.item /\ v.crossed = o.crossed /\ ~v.busy
    BY <2>1, <2>b, <2>v, BusyOK
  <2>3. dialog' = [dialog EXCEPT ![d] = v]
    BY <1>1, <1>r, <2>b, <2>d, <2>o, <2>v DEF Release, Released, IInv, DialogsOK
  <2>4. DialogsOK' /\ dialog'[d] = v /\ \A e \in Dialogs \ {d} : dialog'[e] = dialog[e]
    BY <2>2, <2>3, DialogSet DEF IInv, DialogsOK
  <2>5. \A e \in Dialogs : /\ dialog'[e].item = dialog[e].item
                           /\ dialog'[e].crossed = dialog[e].crossed
    BY <2>2, <2>4, <2>o
  <2>6. \A e \in Dialogs : dialog'[e].busy => dialog[e].busy /\ ~Waits(calls[c], e)
    BY <1>r, <2>2, <2>4, <2>d DEF Waits
  <2> QED
    BY <2>4, <2>5, <2>6 DEF IInv, Aimed, Aims
<1>2. CASE ~(r.from # None /\ r.mounted)
  <2>1. dialog' = dialog
    BY <1>2, <1>r DEF Release
  <2>2. \A d \in Dialogs : ~Waits(calls[c], d)
    BY <1>2, <1>r, ItemKinds DEF Waits
  <2> QED
    BY <2>1, <2>2 DEF IInv, DialogsOK, Aimed
<1> QED
  BY <1>1, <1>2

\* A request that fails, or is refused.
LEMMA GiveUpKeeps ==
  ASSUME IInv, NEW c \in Slots, Busy(c), GiveUp(c)
  PROVE  IInv'
<1>1. /\ dialog' = Release(calls[c]) /\ UNCHANGED <<server, rows>> /\ Finish(c)
      /\ loading' \in BOOLEAN
  BY DEF GiveUp, IInv, Copies
<1>2. Copies'
  BY <1>1 DEF IInv, Copies
<1> QED
  BY <1>1, <1>2, ReleaseKeeps, DoneKeeps

\* A dialog is set to the item of an answer.
LEMMA RetargetKeeps ==
  ASSUME IInv, UNCHANGED server, NEW d \in Dialogs, NEW c \in Slots, Busy(c),
         NEW r, r = calls[c], r.from = d, r.item \in ItemsOf(d),
         r.saw \in Record(r.item), Faithful(server, r.item, r.saw),
         dialog' = Retarget(d, r)
  PROVE  /\ DialogsOK'
         /\ \A e \in Dialogs : dialog'[e].busy => dialog[e].busy /\ ~Waits(calls[c], e)
         /\ \A e \in Slots, f \in Dialogs :
              e # c /\ Waits(calls[e], f) => Aims(calls[e], dialog'[f])
<1>0. /\ Request(r) /\ r.op # "idle" /\ d # None /\ r.item # None /\ r.item \in Items
      /\ r.mounted \in BOOLEAN
  BY BusyAsked, ItemKinds DEF Busy, IInv, CallsOK, ItemsOf, Request
<1>o. PICK o : o = dialog[d]
  OBVIOUS
<1>1. DialogOK(server, d, o) /\ Window(o)
  BY <1>o DEF IInv, DialogsOK, DialogOK
<1>2. ASSUME NEW v, DialogOK(server, d, v), v.item = r.item,
             v.busy => o.busy /\ ~r.mounted,
             o.item # None => (v.crossed <=> (o.crossed \/ ~r.mounted)),
             dialog' = [dialog EXCEPT ![d] = v]
      PROVE  /\ DialogsOK'
             /\ \A e \in Dialogs : dialog'[e].busy => dialog[e].busy /\ ~Waits(calls[c], e)
             /\ \A e \in Slots, f \in Dialogs :
                  e # c /\ Waits(calls[e], f) => Aims(calls[e], dialog'[f])
  <2>1. DialogsOK' /\ dialog'[d] = v /\ \A e \in Dialogs \ {d} : dialog'[e] = dialog[e]
    BY <1>2, DialogSet DEF IInv, DialogsOK
  <2>2. ASSUME NEW e \in Dialogs, dialog'[e].busy
        PROVE  dialog[e].busy /\ ~Waits(calls[c], e)
    BY <1>2, <1>o, <2>1, <2>2 DEF Waits
  <2>3. ASSUME NEW e \in Slots, NEW f \in Dialogs, e # c, Waits(calls[e], f)
        PROVE  Aims(calls[e], dialog'[f])
    <3>1. Aims(calls[e], dialog[f])
      BY <2>3 DEF IInv, Aimed
    <3>2. CASE f # d
      BY <2>1, <3>1, <3>2
    <3>3. CASE f = d
      <4>1. o.item # None /\ (~o.crossed => calls[e].item = o.item)
        BY <1>o, <3>1, <3>3 DEF Aims
      <4>2. r.mounted => (~o.crossed => r.item = o.item)
        <5>1. r.mounted => Waits(calls[c], d)
          BY <1>0 DEF Waits
        <5> QED
          BY <1>o, <5>1 DEF IInv, Aimed, Aims
      <4>3. v.item # None /\ (~v.crossed => calls[e].item = v.item)
        BY <1>0, <1>2, <4>1, <4>2
      <4> QED
        BY <2>1, <3>3, <4>3 DEF Aims
    <3> QED
      BY <3>2, <3>3
  <2> QED
    BY <2>1, <2>2, <2>3
<1>3. CASE ~Open(d)
  <2>v. PICK v : v = Mounted(d, r.item, r.saw)
    OBVIOUS
  <2>1. DialogOK(server, d, v) /\ v.item = r.item /\ ~v.busy
    BY <2>v, MountedOK
  <2>2. dialog' = [dialog EXCEPT ![d] = v] /\ o.item = None
    BY <1>3, <1>o, <2>v DEF Retarget, Open
  <2> QED
    BY <1>2, <2>1, <2>2
<1>4. CASE Open(d)
  <2>b. PICK b \in BOOLEAN : b = IF r.mounted THEN FALSE ELSE o.busy
    BY <1>1 DEF Window
  <2>x. PICK x \in BOOLEAN : x <=> o.crossed \/ ~r.mounted
    OBVIOUS
  <2>y. PICK y \in BOOLEAN : y <=> o.synced \/ (d = "tester" /\ r.mounted)
    OBVIOUS
  <2>h. PICK h : h = IF d = "tester" \/ r.mounted THEN r.item ELSE o.head
    OBVIOUS
  <2>v. PICK v : v = [item |-> r.item, copy |-> r.saw, form |-> o.form, head |-> h,
                      busy |-> b, synced |-> y, crossed |-> x]
    OBVIOUS
  <2>1. dialog' = [dialog EXCEPT ![d] = v]
    <3>0. DialogsOK
      BY DEF IInv
    <3>p. PICK p : p = [o EXCEPT !.busy = b]
      OBVIOUS
    <3>1. Release(r) = [dialog EXCEPT ![d] = p]
      <4>1. CASE r.mounted
        BY <1>0, <1>1, <1>o, <2>b, <3>0, <3>p, <4>1 DEF Release, Released, DialogsOK
      <4>2. CASE ~r.mounted
        <5>1. p = o
          BY <1>1, <2>b, <3>p, <4>2 DEF Window
        <5> QED
          BY <1>o, <3>0, <4>2, <5>1 DEF Release, DialogsOK
      <4> QED
        BY <4>1, <4>2
    <3>R. PICK R : R = Release(r)
      OBVIOUS
    <3>2. R = [e \in Dialogs |-> R[e]] /\ R[d] = p
          /\ \A e \in Dialogs \ {d} : R[e] = dialog[e]
      BY <3>0, <3>1, <3>R DEF DialogsOK
    <3>3. p \in [item : {o.item}, copy : {o.copy}, form : {o.form}, head : {o.head},
                 busy : {b}, synced : {o.synced}, crossed : {o.crossed}]
      BY <1>1, <3>p DEF Window
    <3>q. PICK q : q = [p EXCEPT !.item = r.item, !.copy = r.saw, !.crossed = x,
                                 !.synced = y, !.head = h]
      OBVIOUS
    <3>4. q = v
      <4>1. q \in [item : {r.item}, copy : {r.saw}, form : {o.form}, head : {h},
                   busy : {b}, synced : {y}, crossed : {x}]
        BY <3>3, <3>q
      <4>2. v \in [item : {r.item}, copy : {r.saw}, form : {o.form}, head : {h},
                   busy : {b}, synced : {y}, crossed : {x}]
        BY <2>v
      <4> QED
        BY <4>1, <4>2
    <3>5. dialog' = [R EXCEPT ![d].item = r.item, ![d].copy = r.saw, ![d].crossed = x,
                              ![d].synced = y, ![d].head = h]
      <4>1. dialog' = [R EXCEPT ![d].item = r.item, ![d].copy = r.saw,
                         ![d].crossed = R[d].crossed \/ ~r.mounted,
                         ![d].synced = R[d].synced \/ (d = "tester" /\ r.mounted),
                         ![d].head = IF d = "tester" \/ r.mounted THEN r.item
                                     ELSE R[d].head]
        BY <1>4, <3>2, <3>R DEF Retarget
      <4>2. R[d].crossed = o.crossed /\ R[d].synced = o.synced /\ R[d].head = o.head
        BY <3>2, <3>3
      <4>3. x = (o.crossed \/ ~r.mounted)
            /\ y = (o.synced \/ (d = "tester" /\ r.mounted))
        BY <2>x, <2>y
      <4> QED
        BY <2>h, <4>1, <4>2, <4>3
    <3>6. dialog' = [R EXCEPT ![d] = q]
      BY <3>2, <3>5, <3>q
    <3>7. [R EXCEPT ![d] = q] = [dialog EXCEPT ![d] = q]
      BY <3>0, <3>2 DEF DialogsOK
    <3> QED
      BY <3>4, <3>6, <3>7
  <2>2. /\ v.item = r.item /\ v.copy = r.saw /\ v.form = o.form /\ v.head = h
        /\ v.busy = b /\ v.crossed = x
    BY <2>v
  <2>3. o.item # None /\ o.form \in Items \cup {None} /\ o.head \in Items \cup {None}
    BY <1>1, <1>4, <1>o DEF Open, Window
  <2>4. Window(v)
    BY <1>0, <2>h, <2>v, <2>2, <2>3 DEF Window
  <2>5. ShowsItem(v)
    <3>1. ~x => r.mounted /\ ~o.crossed
      BY <2>x
    <3>2. r.mounted => Waits(calls[c], d)
      BY <1>0 DEF Waits
    <3>3. r.mounted /\ ~o.crossed => r.item = o.item
      BY <1>o, <3>2 DEF IInv, Aimed, Aims
    <3>4. ~o.crossed => o.form \in {o.item, None}
      BY <1>1, <2>3 DEF DialogOK, ShowsItem
    <3> QED
      BY <2>2, <2>h, <3>1, <3>3, <3>4 DEF ShowsItem
  <2>6. DialogOK(server, d, v)
    BY <1>0, <2>2, <2>4, <2>5 DEF DialogOK
  <2>7. v.busy => o.busy /\ ~r.mounted
    BY <2>2, <2>b
  <2>8. v.crossed <=> (o.crossed \/ ~r.mounted)
    BY <2>2, <2>x
  <2> QED
    BY <1>2, <2>1, <2>2, <2>6, <2>7, <2>8
<1> QED
  BY <1>3, <1>4

\* A row is what an answer says it is.
LEMMA RowSet ==
  ASSUME IInv, UNCHANGED <<server, loading>>, NEW x \in Items, NEW saw \in Record(x),
         Faithful(server, x, saw), rows' = [rows EXCEPT ![x] = saw]
  PROVE  Copies'
<1>0. Lists(server) /\ Lists(rows) /\ loading \in BOOLEAN
      /\ \A y \in Items : Faithful(server, y, rows[y])
  BY DEF IInv, Copies
<1>1. /\ rows' = [y \in Items |-> rows'[y]] /\ rows'[x] = saw
      /\ \A y \in Items \ {x} : rows'[y] = rows[y]
  BY <1>0 DEF Lists
<1>2. Lists(rows')
  BY <1>0, <1>1 DEF Lists
<1>3. \A y \in Items : Faithful(server, y, rows'[y])
  BY <1>0, <1>1
<1> QED
  BY <1>0, <1>2, <1>3 DEF Copies

\* An answer to the dialog of a key, or to a sync.
LEMMA RetargetedKeeps ==
  ASSUME IInv, NEW c \in Slots, Answer(c), KeyAnswered(c) \/ SyncAnswered(c)
  PROVE  IInv'
<1>r. PICK r : r = calls[c]
  OBVIOUS
<1>0. /\ Asked(server, r) /\ Request(r) /\ Busy(c) /\ r.at = "done" /\ UNCHANGED server
      /\ UNCHANGED loading /\ Finish(c) /\ rows' = [rows EXCEPT ![r.item] = r.saw]
  BY <1>r, BusyAsked DEF Answer, Busy, IInv, CallsOK, KeyAnswered, SyncAnswered
<1>d. PICK d \in Dialogs : /\ r.from = d /\ r.item \in ItemsOf(d)
                           /\ dialog' = Retarget(d, r)
  <2>1. CASE KeyAnswered(c)
    <3>1. /\ r.from = "key" /\ r.item \in Keys /\ dialog' = Retarget("key", r)
          /\ "key" \in Dialogs
      BY <1>0, <1>r, <2>1 DEF KeyAnswered, Asked, Dialogs
    <3> QED
      BY <3>1 DEF ItemsOf
  <2>2. CASE SyncAnswered(c)
    <3>1. /\ r.from = "tester" /\ r.item \in Accounts /\ dialog' = Retarget("tester", r)
          /\ "tester" \in Dialogs
      BY <1>0, <1>r, <2>2 DEF SyncAnswered, Asked, Put, Dialogs
    <3> QED
      BY <3>1 DEF ItemsOf
  <2> QED
    BY <2>1, <2>2
<1>1. r.op \in {"save", "rotate", "revoke", "put"}
  BY <1>r DEF KeyAnswered, SyncAnswered
<1>2. r.saw \in Record(r.item) /\ Faithful(server, r.item, r.saw)
  BY <1>0, <1>1 DEF Asked, Saw
<1>3. r.item \in Items
  BY <1>d, ItemKinds DEF ItemsOf
<1>4. Copies'
  BY <1>0, <1>2, <1>3, RowSet
<1>5. /\ DialogsOK'
      /\ \A e \in Dialogs : dialog'[e].busy => dialog[e].busy /\ ~Waits(calls[c], e)
      /\ \A e \in Slots, f \in Dialogs :
           e # c /\ Waits(calls[e], f) => Aims(calls[e], dialog'[f])
  BY <1>0, <1>2, <1>d, <1>r, RetargetKeeps
<1> QED
  BY <1>0, <1>4, <1>5, DoneKeeps

\* An answer after which the lists are read again, and the dialog is closed.
LEMMA ChangedKeeps ==
  ASSUME IInv, NEW c \in Slots, Answer(c), ChangeAnswered(c)
  PROVE  IInv'
<1>r. PICK r : r = calls[c]
  OBVIOUS
<1>0. /\ Asked(server, r) /\ Request(r) /\ Busy(c) /\ UNCHANGED <<server, rows>>
      /\ loading' = TRUE /\ dialog' = CloseOf(r)
      /\ calls' = [(IF r.from = None THEN calls ELSE Unmounted(r.from)) EXCEPT
                     ![c] = Reading]
  BY <1>r, BusyAsked DEF Answer, Busy, IInv, CallsOK, ChangeAnswered, ThenRefresh
<1>c. Copies'
  BY <1>0 DEF IInv, Copies
<1>R. PICK reading : reading = Reading
  OBVIOUS
<1>i. /\ CallOK(server, reading) /\ \A d \in Dialogs : ~Waits(reading, d)
  BY <1>R, ReadingIs, ItemKinds DEF CallOK, Waits
<1>1. CASE r.from = None
  <2>1. calls' = [calls EXCEPT ![c] = reading] /\ dialog' = dialog
    BY <1>0, <1>1, <1>R DEF CloseOf
  <2>2. CallsOK' /\ calls'[c] = reading /\ \A e \in Slots \ {c} : calls'[e] = calls[e]
    BY <1>0, <1>i, <2>1, SlotSet DEF IInv, CallsOK
  <2>3. DialogsOK'
    BY <1>0, <2>1 DEF IInv, DialogsOK
  <2>4. Aimed(calls', dialog')
    BY <1>i, <2>1, <2>2 DEF IInv, Aimed
  <2>5. \A d \in Dialogs : ~Waits(calls[c], d)
    BY <1>1, <1>r, ItemKinds DEF Waits
  <2>6. Awaited(calls', dialog')
    BY <2>1, <2>2, <2>5 DEF IInv, Awaited
  <2> QED
    BY <1>c, <2>2, <2>3, <2>4, <2>6 DEF IInv
<1>2. CASE r.from # None
  <2>d. PICK d \in Dialogs : d = r.from
    BY <1>0, <1>2 DEF Request
  <2>C. PICK C : C = Unmounted(d)
    OBVIOUS
  <2>1. calls' = [C EXCEPT ![c] = reading] /\ dialog' = [dialog EXCEPT ![d] = Closed]
    BY <1>0, <1>2, <1>R, <2>d, <2>C DEF CloseOf
  <2>2. /\ C = [e \in Slots |-> C[e]] /\ \A e \in Slots : CallOK(server, C[e])
        /\ \A e \in Slots : ~Waits(C[e], d)
        /\ \A e \in Slots, f \in Dialogs :
             f # d => (Waits(C[e], f) <=> Waits(calls[e], f))
        /\ \A e \in Slots, f \in Dialogs : f # d /\ Waits(C[e], f) => C[e] = calls[e]
    BY <2>C, GoneKeeps
  <2>3. /\ calls' = [e \in Slots |-> calls'[e]] /\ calls'[c] = reading
        /\ \A e \in Slots \ {c} : calls'[e] = C[e]
    BY <2>1, <2>2
  <2>4. CallsOK'
    BY <1>0, <1>i, <2>2, <2>3 DEF CallsOK
  <2>v. PICK v : v = Closed
    OBVIOUS
  <2>5. DialogOK(server, d, v) /\ ~v.busy
    BY <2>v, ClosedOK
  <2>6. DialogsOK' /\ dialog'[d] = v /\ \A e \in Dialogs \ {d} : dialog'[e] = dialog[e]
    BY <1>0, <2>1, <2>5, <2>v, DialogSet DEF IInv, DialogsOK
  <2>7. ASSUME NEW e \in Slots, NEW f \in Dialogs, Waits(calls'[e], f)
        PROVE  Aims(calls'[e], dialog'[f])
    <3>1. e # c
      BY <1>i, <2>3, <2>7
    <3>2. f # d /\ calls'[e] = calls[e] /\ Waits(calls[e], f)
      BY <2>2, <2>3, <2>7, <3>1
    <3> QED
      BY <2>6, <3>2 DEF IInv, Aimed
  <2>8. ASSUME NEW f \in Dialogs, dialog'[f].busy
        PROVE  \E e \in Slots : Waits(calls'[e], f)
    <3>1. f # d /\ dialog[f].busy
      BY <2>5, <2>6, <2>8
    <3>2. PICK e \in Slots : Waits(calls[e], f)
      BY <3>1 DEF IInv, Awaited
    <3>3. e # c
      BY <1>r, <2>d, <3>1, <3>2 DEF Waits
    <3> QED
      BY <2>2, <2>3, <3>1, <3>2, <3>3
  <2> QED
    BY <1>c, <2>4, <2>6, <2>7, <2>8 DEF IInv, Aimed, Awaited
<1> QED
  BY <1>1, <1>2

\* The result of a test.
LEMMA TestedKeeps ==
  ASSUME IInv, NEW c \in Slots, Answer(c), TestAnswered(c)
  PROVE  IInv'
<1>r. PICK r : r = calls[c]
  OBVIOUS
<1>0. /\ Asked(server, r) /\ Request(r) /\ Busy(c) /\ UNCHANGED <<server, rows, loading>>
      /\ Finish(c) /\ r.op = "test" /\ r.from = "tester" /\ r.item \in Accounts
      /\ dialog' = IF r.mounted
                   THEN [Released("tester") EXCEPT !["tester"].form = r.item] ELSE dialog
  BY <1>r, BusyAsked DEF Answer, Busy, IInv, CallsOK, TestAnswered, Asked
<1>c. Copies'
  BY <1>0 DEF IInv, Copies
<1>1. CASE r.mounted
  <2>t. PICK t \in Dialogs : t = "tester"
    BY DEF Dialogs
  <2>o. PICK o : o = dialog[t]
    OBVIOUS
  <2>1. Aims(r, o)
    <3>1. Waits(calls[c], t)
      BY <1>0, <1>1, <1>r, <2>t DEF Waits
    <3> QED
      BY <1>r, <2>o, <3>1 DEF IInv, Aimed
  <2>2. DialogOK(server, t, o) /\ Window(o)
    BY <2>o DEF IInv, DialogsOK, DialogOK
  <2>v. PICK v : v = [o EXCEPT !.busy = FALSE, !.form = r.item]
    OBVIOUS
  <2>3. dialog' = [dialog EXCEPT ![t] = v]
    <3>p. PICK p : p = [o EXCEPT !.busy = FALSE]
      OBVIOUS
    <3>R. PICK R : R = Released(t)
      OBVIOUS
    <3>1. R = [dialog EXCEPT ![t] = p]
      BY <2>o, <3>R, <3>p DEF Released
    <3>2. dialog' = [R EXCEPT ![t].form = r.item]
      BY <1>0, <1>1, <2>t, <3>R
    <3>3. dialog' = [dialog EXCEPT ![t] = [p EXCEPT !.form = r.item]]
      BY <3>1, <3>2 DEF IInv, DialogsOK
    <3> QED
      BY <2>v, <3>3, <3>p
  <2>4. /\ v \in [item : {o.item}, copy : {o.copy}, form : {r.item}, head : {o.head},
                  busy : {FALSE}, synced : {o.synced}, crossed : {o.crossed}]
    BY <2>2, <2>v DEF Window
  <2>5. /\ v.item = o.item /\ v.copy = o.copy /\ v.form = r.item /\ v.head = o.head
        /\ ~v.busy /\ v.crossed = o.crossed
    BY <2>4
  <2>6. r.item \in Items
    BY <1>0, ItemKinds
  <2>7. Window(v)
    BY <2>2, <2>4, <2>5, <2>6 DEF Window
  <2>8. ShowsItem(v)
    BY <2>1, <2>2, <2>5 DEF ShowsItem, Aims, DialogOK
  <2>9. DialogOK(server, t, v)
    BY <2>1, <2>2, <2>5, <2>7, <2>8 DEF DialogOK, Aims
  <2>10. DialogsOK' /\ dialog'[t] = v /\ \A e \in Dialogs \ {t} : dialog'[e] = dialog[e]
    BY <1>0, <2>3, <2>9, DialogSet DEF IInv, DialogsOK
  <2>11. \A e \in Dialogs : dialog'[e].busy => dialog[e].busy /\ ~Waits(calls[c], e)
    BY <1>0, <1>r, <2>5, <2>10, <2>t DEF Waits
  <2>12. \A e \in Slots, f \in Dialogs :
           Waits(calls[e], f) => Aims(calls[e], dialog'[f])
    BY <2>5, <2>10, <2>o DEF IInv, Aimed, Aims
  <2> QED
    BY <1>0, <1>c, <2>10, <2>11, <2>12, DoneKeeps
<1>2. CASE ~r.mounted
  <2>1. dialog' = dialog
    BY <1>0, <1>2
  <2>2. \A d \in Dialogs : ~Waits(calls[c], d)
    BY <1>2, <1>r DEF Waits
  <2>3. DialogsOK'
    BY <1>0, <2>1 DEF IInv, DialogsOK
  <2> QED
    BY <1>0, <1>c, <2>1, <2>2, <2>3, DoneKeeps DEF IInv, Aimed
<1> QED
  BY <1>0, <1>1, <1>2 DEF Request

\* The lists of a refresh.
LEMMA RefreshedKeeps ==
  ASSUME IInv, NEW c \in Slots, Answer(c), RefreshAnswered(c)
  PROVE  IInv'
<1>r. PICK r : r = calls[c]
  OBVIOUS
<1>0. /\ Asked(server, r) /\ Request(r) /\ Busy(c) /\ UNCHANGED <<server, dialog>>
      /\ Finish(c) /\ r.op = "refresh" /\ r.at = "done" /\ rows' = r.saw
      /\ loading' = FALSE
  BY <1>r, BusyAsked DEF Answer, Busy, IInv, CallsOK, RefreshAnswered
<1>1. Lists(r.saw) /\ \A x \in Items : Faithful(server, x, r.saw[x])
  BY <1>0 DEF Asked, Saw
<1>2. Copies'
  BY <1>0, <1>1 DEF IInv, Copies
<1>3. \A d \in Dialogs : ~Waits(calls[c], d)
  BY <1>0, <1>r, ItemKinds DEF Asked, Waits
<1>4. DialogsOK'
  BY <1>0 DEF IInv, DialogsOK
<1> QED
  BY <1>0, <1>2, <1>3, <1>4, DoneKeeps DEF IInv, Aimed

-----------------------------------------------------------------------------
(* The properties.                                                         *)

\* At the start no dialog is open and nothing is under way.
LEMMA InitKeeps == Init => IInv
<1> SUFFICES ASSUME Init PROVE IInv
  OBVIOUS
<1>1. /\ server = [x \in Items |->
            IF x \in Keys THEN [on |-> TRUE, secret |-> 0]
            ELSE [on |-> TRUE, models |-> "all", secret |-> 0, version |-> 0]]
      /\ rows = server /\ loading = FALSE
      /\ dialog = [d \in Dialogs |-> Closed] /\ calls = [c \in Slots |-> Idle]
  BY DEF Init
<1>2. /\ [on |-> TRUE, secret |-> 0] \in KeyRecord
      /\ [on |-> TRUE, models |-> "all", secret |-> 0, version |-> 0] \in AccountRecord
  BY DEF KeyRecord, AccountRecord, Models
<1>3. Lists(server)
  BY <1>1, <1>2 DEF Lists, Record
<1>4. \A x \in Accounts : server[x].version = 0
  BY <1>1, ItemKinds
<1>5. \A x \in Items : Faithful(server, x, rows[x])
  BY <1>1, <1>4 DEF Faithful
<1>6. Copies
  BY <1>1, <1>3, <1>5 DEF Copies
<1>7. DialogsOK /\ CallsOK
  BY <1>1, ClosedOK DEF DialogsOK, CallsOK, CallOK
<1>8. Aimed(calls, dialog)
  BY <1>1, IdleWaits DEF Aimed
<1>9. Awaited(calls, dialog)
  BY <1>1, ClosedOK DEF Awaited
<1> QED
  BY <1>6, <1>7, <1>8, <1>9 DEF IInv

\* Every step keeps the invariant.
LEMMA NextKeeps ==
  ASSUME IInv, [Next]_vars
  PROVE  IInv'
<1>1. CASE Operator
  BY <1>1, OperatorKeeps
<1>2. CASE Elsewhere
  BY <1>2, ElsewhereKeeps
<1>3. ASSUME NEW c \in Slots, Serve(c) \/ Answer(c) \/ Fail(c) \/ Refuse(c)
      PROVE  IInv'
  <2>1. CASE Serve(c)
    BY <2>1, ServeKeeps
  <2>2. CASE Answer(c)
    BY <2>2, RetargetedKeeps, ChangedKeeps, TestedKeeps, RefreshedKeeps DEF Answer
  <2>3. CASE Fail(c)
    BY <2>3, GiveUpKeeps DEF Fail
  <2>4. CASE Refuse(c)
    BY <2>4, GiveUpKeeps DEF Refuse
  <2> QED
    BY <1>3, <2>1, <2>2, <2>3, <2>4
<1>4. CASE UNCHANGED vars
  BY <1>4 DEF vars, IInv, Copies, DialogsOK, CallsOK, Aimed, Awaited
<1> QED
  BY <1>1, <1>2, <1>3, <1>4 DEF Next

\* The invariant holds throughout.
LEMMA IInvThroughout == Spec => []IInv
BY InitKeeps, NextKeeps, PTL DEF Spec

\* Records, dialogs and requests have their shapes, and a dialog whose buttons are
\* disabled is waited for by a request of its own (busy in KeyModal, AccountTestModal and
\* AccountModal).
THEOREM TypeCorrect == Spec => []TypeOK
<1>1. IInv => TypeOK
  <2> SUFFICES ASSUME IInv PROVE TypeOK
    OBVIOUS
  <2>1. /\ \A k \in Keys : server[k] \in KeyRecord /\ rows[k] \in KeyRecord
        /\ \A a \in Accounts : server[a] \in AccountRecord /\ rows[a] \in AccountRecord
        /\ loading \in BOOLEAN
    BY ItemKinds DEF IInv, Copies, Lists
  <2>2. \A d \in Dialogs : /\ dialog[d].item \in Items \cup {None}
                           /\ dialog[d].form \in Items \cup {None}
                           /\ dialog[d].head \in Items \cup {None}
    BY DEF IInv, DialogsOK, DialogOK, Window
  <2>3. \A d \in Dialogs : dialog[d].busy =>
          \E c \in Slots : Busy(c) /\ calls[c].from = d /\ calls[c].mounted
    BY DEF IInv, Awaited, Waits, Busy
  <2> QED
    BY <2>1, <2>2, <2>3 DEF TypeOK
<1> QED
  BY <1>1, IInvThroughout, PTL

\* A dialog sends its requests to the item it shows, unless an answer to a dialog closed
\* before came meanwhile (setKeyEditor, setAccountTester).
THEOREM TargetIsAlwaysShown == Spec => []TargetIsShown
<1>1. IInv => TargetIsShown
  BY DEF IInv, DialogsOK, DialogOK, ShowsItem, TargetIsShown, Open
<1> QED
  BY <1>1, IInvThroughout, PTL

\* A write of an account changes nothing of it but what the operator changed, when it is
\* made of the latest copy, and never its API key when none was typed (accountPayload,
\* normalizeAccountInput).
THEOREM NothingElseIsWritten == Spec => OnlyWhatWasMeant
<1>1. ASSUME IInv, [Next]_vars
      PROVE  [\A c \in Slots : Busy(c) /\ calls[c].op = "put" /\ Writes(c) =>
                LET call == calls[c] IN
                  \A f \in Fields \ call.meant :
                    call.based = server[call.item].version \/ f = "secret" =>
                      server'[call.item][f] = server[call.item][f]]_vars
  <2> SUFFICES ASSUME NEW c \in Slots, calls[c].op = "put", Writes(c), NEW r, r = calls[c],
                      NEW f \in Fields \ r.meant,
                      r.based = server[r.item].version \/ f = "secret"
               PROVE  server'[r.item][f] = server[r.item][f]
    OBVIOUS
  <2>w. PICK w : w = Written(r)
    OBVIOUS
  <2>1. /\ Asked(server, r) /\ r.item \in Items /\ w \in Record(r.item)
        /\ r.item \in Accounts =>
             /\ w.on = r.body.on /\ w.models = r.body.models /\ w.secret = SecretOf(r)
    BY <1>1, <2>w, WrittenIs
  <2>2. /\ r.item \in Accounts /\ (r.blank <=> "secret" \notin r.meant)
        /\ Agrees(server, r)
    BY <2>1 DEF Asked, Put
  <2>3. server'[r.item] = w
    BY <1>1, <2>1, <2>w DEF Writes, IInv, Copies, Lists
  <2>4. /\ w \in AccountRecord /\ server[r.item] \in AccountRecord
    BY <1>1, <2>1, <2>2, ItemKinds DEF IInv, Copies, Lists
  <2>5. CASE f = "secret"
    <3>1. w.secret = server[r.item].secret
      BY <2>1, <2>2, <2>5 DEF SecretOf
    <3> QED
      BY <2>3, <2>4, <2>5, <3>1 DEF AccountRecord
  <2>6. CASE f = "on"
    <3>1. w.on = server[r.item].on
      BY <2>1, <2>2, <2>6 DEF Agrees
    <3> QED
      BY <2>3, <2>4, <2>6, <3>1 DEF AccountRecord
  <2>7. CASE f = "models"
    <3>1. w.models = server[r.item].models
      BY <2>1, <2>2, <2>7 DEF Agrees
    <3> QED
      BY <2>3, <2>4, <2>7, <3>1 DEF AccountRecord
  <2> QED
    BY <2>5, <2>6, <2>7 DEF Fields
<1> QED
  BY <1>1, IInvThroughout, PTL DEF Spec, OnlyWhatWasMeant

=============================================================================
