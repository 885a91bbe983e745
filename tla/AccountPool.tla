----------------------------- MODULE AccountPool -----------------------------
(***************************************************************************)
(* The upstream account pool of the proxy: how a client request reserves a *)
(* concurrency slot, is forwarded, fails over once, is answered, charged   *)
(* to an account, booked in the ledger and gives its slot back, while the  *)
(* operator edits accounts and the balance poller probes them.             *)
(*                                                                         *)
(* An account is a heap object.  An admin update does not edit the object: *)
(* it puts a NEW one in the pool, and requests in flight keep the old one. *)
(* Hence the slot counter `active` and the cooldown `blocked` belong to    *)
(* Objects, and several objects may carry the same account id.             *)
(***************************************************************************)
EXTENDS Naturals, Sequences, FiniteSets

CONSTANTS
  Requests,       \* concurrently served requests (handler goroutines, reused)
  Objects,        \* account objects the process may ever allocate
  AccountIds,     \* account ids
  Operators,      \* admin calls and the balance poller, each one goroutine
  Sessions,       \* session keys (a hash of the tenant key and a seed)
  AffinityGroup,  \* the sessions that routingPolicy puts in the affinity arm
  Models,         \* model names
  Configs,        \* account settings that pass normalizeAccountInput
  Initial,        \* [initial objects -> their id, settings and origin]
  SessionOf,      \* [Requests -> session key, or NoSession]
  ModelOf,        \* [Requests -> model]
  Replayable,     \* the requests whose body can be sent twice (GetBody)
  Cancellable,    \* the requests whose client may hang up or that may time out
  Outcomes,       \* what an upstream call may come back with
  Hints,          \* Retry-After hints, in ticks; 0 when the header is absent
  TPS,            \* clock ticks per second
  ServerCool,     \* cooldown after a 5xx or a transport error, in ticks
  AuthCool,       \* cooldown after a 401
  PaymentCool,    \* cooldown after a 402
  HintCap,        \* longest cooldown a Retry-After may ask for
  MaxTime,        \* bound: the clock stops there
  NoObject, NoId, NoSession

Config == [limit : Nat, weight : Nat, models : SUBSET Models, enabled : BOOLEAN]

\* The status classes that markStatus and retryableUpstreamResult tell apart
\* ("rejected" is 400, 404, 422...; "server_other" a 5xx that is not retried),
\* "error" for a call the network ends, "cancelled" for one our own context ends.
NoResponse == {"error", "cancelled"}
StatusClasses == {"ok", "rejected", "unauthorized", "payment", "limited",
                  "server", "server_other"} \cup NoResponse

ASSUME PoolAssumption ==
  /\ IsFiniteSet(Requests)
  /\ NoObject \notin Objects
  /\ NoId \notin AccountIds
  /\ NoSession \notin Sessions
  /\ AffinityGroup \subseteq Sessions
  /\ Configs \subseteq Config
  /\ Configs # {}
  /\ DOMAIN Initial \subseteq Objects
  /\ \A o \in DOMAIN Initial :
        Initial[o] \in [id : AccountIds, config : Config, managed : BOOLEAN]
  /\ \A o, p \in DOMAIN Initial : Initial[o].id = Initial[p].id => o = p
  /\ SessionOf \in [Requests -> Sessions \cup {NoSession}]
  /\ ModelOf \in [Requests -> Models]
  /\ Outcomes \subseteq StatusClasses
  /\ NoResponse \subseteq Outcomes
  /\ Hints \subseteq Nat
  /\ TPS \in Nat \ {0}
  /\ ServerCool \in Nat /\ AuthCool \in Nat /\ PaymentCool \in Nat
  /\ HintCap \in Nat
  /\ MaxTime \in Nat

VARIABLES
  now,        \* the wall clock, in ticks
  pool,       \* s.accounts: the objects routing sees
  ident,      \* the id of every object, NoId before it is allocated
  config,     \* the settings of every object, fixed at allocation
  managed,    \* the objects kept in SQLite (the others are read-only)
  active,     \* Account.active: reserved slots
  blocked,    \* Account.blocked: the second the cooldown ends
  bound,      \* the affinity table: session -> account id
  pc,         \* where each request stands
  acct,       \* requestMeta.account while its slot is held
  next,       \* the second account a failover has reserved
  scan,       \* the locals of pickAccount and poolSaturated
  meta,       \* requestMeta: attempts, outcome, cancellation, affinity flags
  probe,      \* the account call each operator goroutine waits for
  calls,      \* history: the upstream calls of a request and their outcomes
  charged,    \* history: the outcomes marked on accounts for a request
  ledger      \* the request events booked for a request

poolVars == <<pool, ident, config, managed>>
history  == <<calls, charged, ledger>>
vars == <<now, pool, ident, config, managed, active, blocked, bound, pc, acct,
          next, scan, meta, probe, calls, charged, ledger>>

-----------------------------------------------------------------------------
(* Accounts.                                                               *)

RetryableUpstreamResult(k) ==
  k \in NoResponse \cup {"payment", "limited", "server"}

Seconds(t) == t \div TPS        \* time.Time.Unix truncates

Healthy(o, t) == blocked[o] <= Seconds(t)

SupportsModel(o, m) == config[o].models = {} \/ m \in config[o].models

AtCapacity(o) == config[o].limit > 0 /\ active[o] >= config[o].limit

\* The loop of tryAcquire succeeds when the compare-and-swap finds a count
\* below the limit.
AlwaysReservable(o) == TRUE
Reservable(o) == config[o].limit = 0 \/ active[o] < config[o].limit

Usable(o, m, t) == config[o].enabled /\ Healthy(o, t) /\ SupportsModel(o, m)

Weight(o) == IF config[o].weight = 0 THEN 1 ELSE config[o].weight

RateLimitCool(h) == IF h = 0 THEN TPS ELSE IF h > HintCap THEN HintCap ELSE h

\* The cooldown a status earns, in ticks.
Cooldown(k, h) ==
  CASE k = "unauthorized" -> AuthCool
    [] k = "payment"      -> PaymentCool
    [] k = "limited"      -> RateLimitCool(h)
    [] OTHER              -> ServerCool

\* The second at which an account marked with k becomes healthy; a success or
\* a request error of the client clears the cooldown.
BlockedUntil(k, h) ==
  IF k \in {"ok", "rejected"} THEN 0 ELSE Seconds(now + Cooldown(k, h))

Mark(o, k, h) == blocked' = [blocked EXCEPT ![o] = BlockedUntil(k, h)]

-----------------------------------------------------------------------------
(* Requests: local state.                                                  *)

NoScan == [want |-> NoId, todo |-> {}, best |-> NoObject, load |-> 0,
           at |-> 0, tries |-> 0, full |-> FALSE]
NoMeta == [attempts |-> 0, outcome |-> "none", cancelled |-> FALSE,
           reused |-> FALSE, fallback |-> FALSE]

NoProbe == [obj |-> NoObject, kind |-> "none"]
Probe(o, k) == [obj |-> o, kind |-> k]

Locations == {"idle", "sticky", "reserve", "select", "scan", "bind", "census",
              "counting", "upstream", "mark", "switch", "deliver", "body", "release",
              "busy", "unavailable"}

Goto(r, loc)  == pc' = [pc EXCEPT ![r] = loc]
SetScan(r, s) == scan' = [scan EXCEPT ![r] = s]
SetMeta(r, m) == meta' = [meta EXCEPT ![r] = m]

UsesAffinity(r) == SessionOf[r] \in AffinityGroup

Retrying(r) == acct[r] # NoObject

\* selectAccount(model, excludedID): a retry excludes the account it leaves.
ExcludedObject(r, o) == o = acct[r]
Excluded(r, o) == Retrying(r) /\ ident[o] = ident[acct[r]]

Call(o, k) == [obj |-> o, kind |-> k]
Last(s) == s[Len(s)]

-----------------------------------------------------------------------------
Init ==
  /\ now = 0
  /\ pool = DOMAIN Initial
  /\ ident = [o \in Objects |->
                IF o \in DOMAIN Initial THEN Initial[o].id ELSE NoId]
  /\ config = [o \in Objects |-> IF o \in DOMAIN Initial THEN Initial[o].config
                                 ELSE CHOOSE c \in Configs : TRUE]
  /\ managed = {o \in DOMAIN Initial : Initial[o].managed}
  /\ active = [o \in Objects |-> 0]
  /\ blocked = [o \in Objects |-> 0]
  /\ bound = [s \in Sessions |-> NoId]
  /\ pc = [r \in Requests |-> "idle"]
  /\ acct = [r \in Requests |-> NoObject]
  /\ next = [r \in Requests |-> NoObject]
  /\ scan = [r \in Requests |-> NoScan]
  /\ meta = [r \in Requests |-> NoMeta]
  /\ probe = [p \in Operators |-> NoProbe]
  /\ calls = [r \in Requests |-> <<>>]
  /\ charged = [r \in Requests |-> <<>>]
  /\ ledger = [r \in Requests |-> <<>>]

Tick ==
  /\ now < MaxTime
  /\ now' = now + 1
  /\ UNCHANGED <<poolVars, active, blocked, bound, pc, acct, next, scan, meta,
                 probe, history>>

-----------------------------------------------------------------------------
(* Routing.                                                                *)

\* An authorised, well-formed request enters routeAccount.  With affinity, the
\* session table is consulted first; `at` is the time.Now() read here.
RouteAccount(r) ==
  /\ pc[r] = "idle"
  /\ \/ /\ UsesAffinity(r)
        /\ bound[SessionOf[r]] # NoId
        /\ Goto(r, "sticky")
        /\ SetScan(r, [scan[r] EXCEPT !.want = bound[SessionOf[r]], !.at = now])
     \/ /\ UsesAffinity(r) => bound[SessionOf[r]] = NoId
        /\ Goto(r, "select")
        /\ UNCHANGED scan
  /\ UNCHANGED <<now, poolVars, active, blocked, bound, acct, next, meta, probe,
                 history>>

\* The session's account, found by id among the accounts of this moment.
StickyAnywhere(r) ==
  {o \in Objects : ident[o] = scan[r].want /\ Usable(o, ModelOf[r], scan[r].at)}
Sticky(r) ==
  {o \in pool : ident[o] = scan[r].want /\ Usable(o, ModelOf[r], scan[r].at)}

EligibleAccount(r) ==
  /\ pc[r] = "sticky"
  /\ \/ \E o \in Sticky(r) :
          /\ SetScan(r, [scan[r] EXCEPT !.best = o])
          /\ Goto(r, "reserve")
          /\ UNCHANGED meta
     \/ /\ Sticky(r) = {}
        /\ SetScan(r, NoScan)
        /\ SetMeta(r, [meta[r] EXCEPT !.fallback = TRUE])
        /\ Goto(r, "select")
  /\ UNCHANGED <<now, poolVars, active, blocked, bound, acct, next, probe,
                 history>>

\* account.tryAcquire() on the session's account.
ReserveSticky(r) ==
  /\ pc[r] = "reserve"
  /\ SetScan(r, NoScan)
  /\ LET o == scan[r].best IN
       \/ /\ Reservable(o)
          /\ active' = [active EXCEPT ![o] = @ + 1]
          /\ acct' = [acct EXCEPT ![r] = o]
          /\ SetMeta(r, [meta[r] EXCEPT !.attempts = 1, !.reused = TRUE])
          /\ Goto(r, "upstream")
       \/ /\ ~Reservable(o)
          /\ SetMeta(r, [meta[r] EXCEPT !.fallback = TRUE])
          /\ Goto(r, "select")
          /\ UNCHANGED <<active, acct>>
  /\ UNCHANGED <<now, poolVars, blocked, bound, next, probe, history>>

\* pickAccount reads the clock and copies the pool.  The copy is then examined
\* account by account while other goroutines run; the round-robin start
\* (s.sequence) is abstracted to an arbitrary order of the scan.
PickAccount(r) ==
  /\ pc[r] = "select"
  /\ SetScan(r, [scan[r] EXCEPT !.todo = pool, !.best = NoObject, !.load = 0,
                                !.at = now])
  /\ Goto(r, "scan")
  /\ UNCHANGED <<now, poolVars, active, blocked, bound, acct, next, meta, probe,
                 history>>

\* Does o, examined now, beat the best account seen so far?  The scores
\* (active+1)/weight are compared by cross-multiplication.
Selectable(r, o) ==
  /\ ~Excluded(r, o)
  /\ Usable(o, ModelOf[r], scan[r].at)
  /\ ~AtCapacity(o)
Better(r, o) ==
  scan[r].best # NoObject =>
    (active[o] + 1) * Weight(scan[r].best) < scan[r].load * Weight(o)

ScanAccount(r) ==
  /\ pc[r] = "scan"
  /\ \E o \in scan[r].todo :
       \/ /\ Selectable(r, o) /\ Better(r, o)
          /\ SetScan(r, [scan[r] EXCEPT !.todo = @ \ {o}, !.best = o,
                                        !.load = active[o] + 1])
       \/ /\ ~(Selectable(r, o) /\ Better(r, o))
          /\ SetScan(r, [scan[r] EXCEPT !.todo = @ \ {o}])
  /\ UNCHANGED <<now, poolVars, active, blocked, bound, pc, acct, next, meta,
                 probe, history>>

Picked(r) == pc[r] = "scan" /\ scan[r].todo = {} /\ scan[r].best # NoObject

\* selectAccount gets a slot: on the first routing the request's own slot
\* (bound to the session under affinity), on a retry a second one.
TryAcquire(r) ==
  /\ Picked(r)
  /\ LET o == scan[r].best IN
       /\ Reservable(o)
       /\ active' = [active EXCEPT ![o] = @ + 1]
       /\ \/ /\ Retrying(r)
             /\ next' = [next EXCEPT ![r] = o]
             /\ Goto(r, "mark")
             /\ UNCHANGED <<acct, meta>>
          \/ /\ ~Retrying(r)
             /\ acct' = [acct EXCEPT ![r] = o]
             /\ SetMeta(r, [meta[r] EXCEPT !.attempts = 1])
             /\ Goto(r, IF UsesAffinity(r) THEN "bind" ELSE "upstream")
             /\ UNCHANGED next
  /\ SetScan(r, NoScan)
  /\ UNCHANGED <<now, poolVars, blocked, bound, probe, history>>

\* Another request took the last slot between the scan and the swap: pick
\* again, three times in all.
RescanForever(r) ==
  /\ Goto(r, "select")
  /\ UNCHANGED scan
GiveUpOrRescan(r) ==
  IF scan[r].tries < 2
  THEN /\ SetScan(r, [scan[r] EXCEPT !.tries = @ + 1])
       /\ Goto(r, "select")
  ELSE /\ SetScan(r, NoScan)
       /\ Goto(r, IF Retrying(r) THEN "deliver" ELSE "census")

LoseSlot(r) ==
  /\ Picked(r)
  /\ ~Reservable(scan[r].best)
  /\ GiveUpOrRescan(r)
  /\ UNCHANGED <<now, poolVars, active, blocked, bound, acct, next, meta, probe,
                 history>>

\* pickAccount found nothing: a retry returns the first answer, a new request
\* is refused.
NoAccount(r) ==
  /\ pc[r] = "scan" /\ scan[r].todo = {} /\ scan[r].best = NoObject
  /\ SetScan(r, NoScan)
  /\ Goto(r, IF Retrying(r) THEN "deliver" ELSE "census")
  /\ UNCHANGED <<now, poolVars, active, blocked, bound, acct, next, meta, probe,
                 history>>

\* affinities.Bind, after the first selection and after a failover.
BoundToFirst(r) == IF calls[r] = <<>> THEN acct[r] ELSE calls[r][1].obj
BoundTo(r) == acct[r]

BindSession(r) ==
  /\ pc[r] = "bind"
  /\ bound' = [bound EXCEPT ![SessionOf[r]] = ident[BoundTo(r)]]
  /\ Goto(r, "upstream")
  /\ UNCHANGED <<now, poolVars, active, blocked, acct, next, scan, meta, probe,
                 history>>

\* The table may drop an entry: its TTL ran out, or it was evicted.
ForgetSession(s) ==
  /\ bound[s] # NoId
  /\ bound' = [bound EXCEPT ![s] = NoId]
  /\ UNCHANGED <<now, poolVars, active, blocked, pc, acct, next, scan, meta,
                 probe, history>>

-----------------------------------------------------------------------------
(* Refusal: poolSaturated looks at the accounts afresh, one by one.        *)

StartCensus(r) ==
  /\ pc[r] = "census"
  /\ SetScan(r, [scan[r] EXCEPT !.todo = pool, !.at = now])
  /\ Goto(r, "counting")
  /\ UNCHANGED <<now, poolVars, active, blocked, bound, acct, next, meta, probe,
                 history>>

CountAccount(r) ==
  /\ pc[r] = "counting"
  /\ \E o \in scan[r].todo :
       \/ /\ ~Usable(o, ModelOf[r], scan[r].at)
          /\ SetScan(r, [scan[r] EXCEPT !.todo = @ \ {o}])
          /\ UNCHANGED pc
       \/ /\ Usable(o, ModelOf[r], scan[r].at) /\ AtCapacity(o)
          /\ SetScan(r, [scan[r] EXCEPT !.todo = @ \ {o}, !.full = TRUE])
          /\ UNCHANGED pc
       \/ /\ Usable(o, ModelOf[r], scan[r].at) /\ ~AtCapacity(o)
          /\ SetScan(r, NoScan)
          /\ Goto(r, "unavailable")
  /\ UNCHANGED <<now, poolVars, active, blocked, bound, acct, next, meta, probe,
                 history>>

\* Every account examined: 429 if some usable one was full, else 503.
EndCensus(r) ==
  /\ pc[r] = "counting" /\ scan[r].todo = {}
  /\ Goto(r, IF scan[r].full THEN "busy" ELSE "unavailable")
  /\ SetScan(r, NoScan)
  /\ UNCHANGED <<now, poolVars, active, blocked, bound, acct, next, meta, probe,
                 history>>

Refuse(r) ==
  /\ pc[r] \in {"busy", "unavailable"}
  /\ Goto(r, "idle")
  /\ SetMeta(r, NoMeta)
  /\ UNCHANGED <<now, poolVars, active, blocked, bound, acct, next, scan, probe,
                 history>>

-----------------------------------------------------------------------------
(* Forwarding.                                                             *)

\* The client hangs up or RequestTimeout expires: the request's context ends,
\* and a call under it fails without an answer of the upstream.
Cancel(r) ==
  /\ r \in Cancellable
  /\ acct[r] # NoObject
  /\ pc[r] \notin {"deliver", "body", "release"}
  /\ ~meta[r].cancelled
  /\ SetMeta(r, [meta[r] EXCEPT !.cancelled = TRUE])
  /\ UNCHANGED <<now, poolVars, active, blocked, bound, pc, acct, next, scan,
                 probe, history>>

\* base.RoundTrip ends with outcome k.  Only the first call may be retried.
RoundTrip(r) ==
  /\ pc[r] = "upstream"
  /\ \E k \in IF meta[r].cancelled THEN {"cancelled"} ELSE Outcomes \ {"cancelled"} :
       /\ SetMeta(r, [meta[r] EXCEPT !.outcome = k])
       /\ calls' = [calls EXCEPT ![r] = Append(@, Call(acct[r], k))]
       /\ Goto(r, IF /\ meta[r].attempts = 1
                     /\ RetryableUpstreamResult(k)
                     /\ r \in Replayable
                  THEN "select" ELSE "deliver")
  /\ UNCHANGED <<now, poolVars, active, blocked, bound, acct, next, scan, probe,
                 charged, ledger>>

\* The failover holds two slots: it charges the outcome to the account it
\* leaves, and closes that answer's body...
BlamedNext(r) == IF next[r] = NoObject THEN acct[r] ELSE next[r]
Blamed(r) == acct[r]

ChargeOutcome(r) ==
  /\ \E h \in IF meta[r].outcome = "limited" THEN Hints ELSE {0} :
        Mark(Blamed(r), meta[r].outcome, h)
  /\ charged' = [charged EXCEPT ![r] =
                   Append(@, Call(Blamed(r), meta[r].outcome))]

MarkPrevious(r) ==
  /\ pc[r] = "mark"
  /\ ChargeOutcome(r)
  /\ Goto(r, "switch")
  /\ UNCHANGED <<now, poolVars, active, bound, acct, next, scan, meta, probe,
                 calls, ledger>>

\* ... then gives the slot of the left account back and moves to the other.
ReleaseSlot(o) == active' = [active EXCEPT ![o] = @ - 1]

SwitchAccount(r) ==
  /\ pc[r] = "switch"
  /\ ReleaseSlot(acct[r])
  /\ acct' = [acct EXCEPT ![r] = next[r]]
  /\ next' = [next EXCEPT ![r] = NoObject]
  /\ SetMeta(r, [meta[r] EXCEPT !.attempts = @ + 1, !.outcome = "none",
                                !.fallback = @ \/ UsesAffinity(r)])
  /\ Goto(r, IF UsesAffinity(r) THEN "bind" ELSE "upstream")
  /\ UNCHANGED <<now, poolVars, blocked, bound, scan, probe, history>>

\* recordMeta books the account the request ended on.
BookRouted(r) == calls[r][1].obj
Booked(r) == acct[r]

RecordMeta(r) ==
  ledger' = [ledger EXCEPT ![r] =
    IF @ # <<>> THEN @     \* meta.recorded is already set
    ELSE <<[account |-> ident[Booked(r)], attempts |-> meta[r].attempts,
            status |-> meta[r].outcome]>>]

\* modifyResponse charges the answer and hands its body to the client.
ModifyResponse(r) ==
  /\ pc[r] = "deliver" /\ meta[r].outcome \notin NoResponse
  /\ ChargeOutcome(r)
  /\ Goto(r, "body")
  /\ UNCHANGED <<now, poolVars, active, bound, acct, next, scan, meta, probe,
                 calls, ledger>>

\* trackingBody.Close, reached whether the body was read to its end or not.
CloseBody(r) ==
  /\ pc[r] = "body"
  /\ RecordMeta(r)
  /\ Goto(r, "release")
  /\ UNCHANGED <<now, poolVars, active, blocked, bound, acct, next, scan, meta,
                 probe, calls, charged>>

\* errorHandler: no answer to deliver, a 502 of the proxy's own.
ErrorHandler(r) ==
  /\ pc[r] = "deliver" /\ meta[r].outcome \in NoResponse
  /\ ChargeOutcome(r)
  /\ RecordMeta(r)
  /\ Goto(r, "release")
  /\ UNCHANGED <<now, poolVars, active, bound, acct, next, scan, meta, probe,
                 calls>>

\* The deferred meta.account.release() of ServeHTTP; the goroutine is free.
HeldAtRouting(r) == calls[r][1].obj
HeldById(r) ==
  LET same == {o \in pool : ident[o] = ident[acct[r]]}
  IN  IF same = {} THEN acct[r] ELSE CHOOSE o \in same : TRUE
HeldAtReturn(r) == acct[r]

Release(r) ==
  /\ pc[r] = "release"
  /\ ReleaseSlot(HeldAtReturn(r))
  /\ acct' = [acct EXCEPT ![r] = NoObject]
  /\ SetMeta(r, NoMeta)
  /\ calls' = [calls EXCEPT ![r] = <<>>]
  /\ charged' = [charged EXCEPT ![r] = <<>>]
  /\ ledger' = [ledger EXCEPT ![r] = <<>>]
  /\ Goto(r, "idle")
  /\ UNCHANGED <<now, poolVars, blocked, bound, next, scan, probe>>

-----------------------------------------------------------------------------
(* Operators: the admin account endpoints and the balance poller.          *)

Fresh(o) == ident[o] = NoId

Allocate(o, id, c) ==
  /\ Fresh(o)
  /\ ident' = [ident EXCEPT ![o] = id]
  /\ config' = [config EXCEPT ![o] = c]
  /\ managed' = managed \cup {o}

\* An enabled account is polled by the handler that created or updated it.
PollAfter(p, o, c) ==
  probe' = [probe EXCEPT ![p] = IF c.enabled THEN Probe(o, "poll") ELSE NoProbe]

CreateManagedAccount(p) ==
  /\ probe[p] = NoProbe
  /\ \E o \in Objects, id \in AccountIds, c \in Configs :
       /\ \A q \in pool : ident[q] # id
       /\ Allocate(o, id, c)
       /\ pool' = pool \cup {o}
       /\ PollAfter(p, o, c)
  /\ UNCHANGED <<now, active, blocked, bound, pc, acct, next, scan, meta,
                 history>>

UpdateManagedAccount(p) ==
  /\ probe[p] = NoProbe
  /\ \E old \in pool \cap managed, o \in Objects, c \in Configs :
       /\ Allocate(o, ident[old], c)
       /\ pool' = (pool \ {old}) \cup {o}
       /\ PollAfter(p, o, c)
  /\ UNCHANGED <<now, active, blocked, bound, pc, acct, next, scan, meta,
                 history>>

RemoveManagedAccount(p) ==
  /\ probe[p] = NoProbe
  /\ \E o \in pool \cap managed : pool' = pool \ {o}
  /\ UNCHANGED <<now, ident, config, managed, active, blocked, bound, pc, acct,
                 next, scan, meta, probe, history>>

\* A balance poll (the poller, or the check button) or an API test begins.
StartProbe(p) ==
  /\ probe[p] = NoProbe
  /\ \E o \in pool, k \in {"poll", "test"} :
       /\ config[o].enabled
       /\ probe' = [probe EXCEPT ![p] = Probe(o, k)]
  /\ UNCHANGED <<now, poolVars, active, blocked, bound, pc, acct, next, scan,
                 meta, history>>

\* It ends, possibly long after other outcomes were marked.  A poll marks
\* nothing on a transport error or an unreadable balance; Retry-After is not
\* looked at.
FinishProbe(p) ==
  /\ probe[p] # NoProbe
  /\ \/ \E k \in Outcomes \ {"cancelled"} :
          /\ k = "error" => probe[p].kind = "test"
          /\ Mark(probe[p].obj, k, 0)
     \/ probe[p].kind = "poll" /\ UNCHANGED blocked
  /\ probe' = [probe EXCEPT ![p] = NoProbe]
  /\ UNCHANGED <<now, poolVars, active, bound, pc, acct, next, scan, meta,
                 history>>

-----------------------------------------------------------------------------
Serve(r) ==
  \/ EligibleAccount(r) \/ ReserveSticky(r)
  \/ PickAccount(r) \/ ScanAccount(r) \/ TryAcquire(r) \/ LoseSlot(r)
  \/ NoAccount(r) \/ BindSession(r)
  \/ StartCensus(r) \/ CountAccount(r) \/ EndCensus(r) \/ Refuse(r)
  \/ RoundTrip(r) \/ MarkPrevious(r) \/ SwitchAccount(r)
  \/ ModifyResponse(r) \/ CloseBody(r) \/ ErrorHandler(r) \/ Release(r)

Operate(p) ==
  \/ CreateManagedAccount(p) \/ UpdateManagedAccount(p)
  \/ RemoveManagedAccount(p) \/ StartProbe(p) \/ FinishProbe(p)

Next ==
  \/ Tick
  \/ \E r \in Requests : RouteAccount(r) \/ Cancel(r) \/ Serve(r)
  \/ \E s \in Sessions : ForgetSession(s)
  \/ \E p \in Operators : Operate(p)

Spec == Init /\ [][Next]_vars

\* The handlers run, the upstream answers or RequestTimeout ends the call, the
\* client reads its answer or goes away: a request in flight takes its next step.
FairSpec == Spec /\ \A r \in Requests : WF_vars(Serve(r))

-----------------------------------------------------------------------------
(* Properties.                                                             *)

ScanState == [want : AccountIds \cup {NoId}, todo : SUBSET Objects,
              best : Objects \cup {NoObject}, load : Nat, at : Nat,
              tries : 0..2, full : BOOLEAN]
MetaState == [attempts : Nat, outcome : Outcomes \cup {"none"},
              cancelled : BOOLEAN, reused : BOOLEAN, fallback : BOOLEAN]
CallState == [obj : Objects, kind : Outcomes]
EntryState == [account : AccountIds \cup {NoId}, attempts : Nat,
               status : Outcomes]

\* Every variable keeps its type; in particular no slot counter goes negative.
TypeOK ==
  /\ now \in Nat
  /\ pool \subseteq Objects
  /\ ident \in [Objects -> AccountIds \cup {NoId}]
  /\ config \in [Objects -> Config]
  /\ managed \subseteq Objects
  /\ active \in [Objects -> Nat]
  /\ blocked \in [Objects -> Nat]
  /\ bound \in [Sessions -> AccountIds \cup {NoId}]
  /\ pc \in [Requests -> Locations]
  /\ acct \in [Requests -> Objects \cup {NoObject}]
  /\ next \in [Requests -> Objects \cup {NoObject}]
  /\ scan \in [Requests -> ScanState]
  /\ meta \in [Requests -> MetaState]
  /\ probe \in [Operators -> [obj : Objects \cup {NoObject},
                              kind : {"none", "poll", "test"}]]
  /\ calls \in [Requests -> Seq(CallState)]
  /\ charged \in [Requests -> Seq(CallState)]
  /\ ledger \in [Requests -> Seq(EntryState)]

\* The slots of an account object are held by requests, one by each: a slot is
\* neither leaked nor given back twice, although a failover holds two slots and
\* the deferred release runs long after the account of the request changed
\* (failoverTransport.RoundTrip, the deferred release of ServeHTTP).
Holders(o) == {r \in Requests : acct[r] = o \/ next[r] = o}
SlotConservation == \A o \in Objects : active[o] = Cardinality(Holders(o))

\* An account object never runs more requests than its limit, although the
\* limit is looked at during the scan and the slot is taken later (tryAcquire).
NoOverAdmission ==
  \A o \in Objects : config[o].limit > 0 => active[o] <= config[o].limit

\* A request is sent at most twice, the second time only after a retryable
\* outcome, with a replayable body, and to another account id, even if the
\* operator replaced the first account in between (RoundTrip, README "at most
\* one switch to another healthy account").
OneRetryElsewhere ==
  \A r \in Requests :
    /\ Len(calls[r]) <= 2
    /\ Len(calls[r]) = 2 =>
         /\ RetryableUpstreamResult(calls[r][1].kind)
         /\ r \in Replayable
         /\ ident[calls[r][1].obj] # ident[calls[r][2].obj]

\* When a request ends it has one ledger event, naming the account that gave
\* the delivered answer, that answer's status and the number of calls really
\* made (recordMeta; README "the ledger keeps the final account and attempts").
LedgerTellsTheTruth ==
  \A r \in Requests : pc[r] = "release" =>
    ledger[r] = <<[account |-> ident[Last(calls[r]).obj],
                   attempts |-> Len(calls[r]), status |-> Last(calls[r]).kind]>>

\* Every upstream outcome is charged once, to the account that produced it: no
\* failure goes unnoticed and none cools an account twice or a bystander
\* (the marks in RoundTrip, modifyResponse and errorHandler).
ChargedOnce ==
  \A r \in Requests : pc[r] = "release" => charged[r] = calls[r]

\* During the second call of a session's only request, the session is no longer
\* bound to the account the request had to leave (the Bind in RoundTrip;
\* docs/PLAN.md "after a switch the affinity moves to the new account").
MigratesOnFailover ==
  \A r \in Requests :
    /\ pc[r] = "upstream" /\ meta[r].attempts = 2 /\ UsesAffinity(r)
    /\ \A q \in Requests \ {r} : SessionOf[q] # SessionOf[r]
    => bound[SessionOf[r]] # ident[calls[r][1].obj]

\* Every routed request ends and so gives its slots back: losing the last slot
\* to others again and again ends in a refusal (the loop of selectAccount).
EveryRequestEnds ==
  \A r \in Requests : (pc[r] # "idle") ~> (pc[r] = "idle")

\* An account object that an update or a removal took out of the pool drains:
\* at some point it runs no request, for good (updateManagedAccount,
\* removeManagedAccount; a session bound to its id must not revive it).
RetiredDrains ==
  \A o \in Objects : (ident[o] # NoId /\ o \notin pool) ~> [](active[o] = 0)

\* The pool implements the slot discipline of SlotPool: every change of who
\* holds a slot is a reservation below the limit or a return (tryAcquire,
\* release), and an object's limit never changes while a request holds a slot.
Slots == INSTANCE SlotPool
           WITH holders <- [o \in Objects |-> Holders(o)],
                limit <- [o \in Objects |-> config[o].limit]
SlotPoolSpec == Slots!Spec

=============================================================================
