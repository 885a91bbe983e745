------------------------------ MODULE KeyQuota ------------------------------
(***************************************************************************)
(* The tenant keys of the proxy (KeyStore): which secret authenticates     *)
(* which key, what a key may still spend, and what of it survives a crash. *)
(*                                                                         *)
(* Every operation of the store runs under one mutex, but the clock is     *)
(* read BEFORE the mutex is taken: between the two, other requests may     *)
(* have moved the windows of the key on.  Memory and the SQLite row of a   *)
(* key are separate, and a write to the row may fail.                      *)
(***************************************************************************)
EXTENDS Naturals, FiniteSets

CONSTANTS
  Requests,        \* bound: the client requests that are ever made
  Keys,            \* ids of virtual keys
  Default,         \* vk-default, configured by PLATFORM_API_KEY
  Secrets,         \* secrets that may ever be generated or configured
  DefaultSecrets,  \* the values PLATFORM_API_KEY may have at a start
  Quotas,          \* quota policies that pass validateQuota
  Usages,          \* what an answered request may cost
  Admin,           \* the admin calls made: "create", "update", "rotate", "revoke"
  Failing,         \* the writes that may fail: the above and "usage"
  MinuteLen, DayLen, MonthLen,  \* in clock ticks
  MonthShift,      \* how far Beijing's calendar is ahead of the local one
  MaxLag,          \* bound: ticks between reading the clock and the mutex
  MaxTime,         \* bound: the clock stops there
  MaxCrashes,      \* bound: restarts of the process
  NoKey, NoSecret

Quota == [rpm : Nat, tpm : Nat, concurrent : Nat, dailyTokens : Nat,
          dailyCost : Nat, monthlyCost : Nat]
Unlimited == [rpm |-> 0, tpm |-> 0, concurrent |-> 0, dailyTokens |-> 0,
              dailyCost |-> 0, monthlyCost |-> 0]

ASSUME QuotaAssumption ==
  /\ IsFiniteSet(Requests)
  /\ Default \in Keys /\ NoKey \notin Keys /\ NoSecret \notin Secrets
  /\ DefaultSecrets \subseteq Secrets /\ DefaultSecrets # {}
  /\ Quotas \subseteq Quota
  /\ Usages \subseteq [tokens : Nat, cost : Nat]
  /\ MinuteLen \in Nat \ {0} /\ DayLen \in Nat \ {0} /\ MonthLen \in Nat \ {0}
  /\ MonthShift \in Nat /\ MaxLag \in Nat /\ MaxTime \in Nat /\ MaxCrashes \in Nat

VARIABLES
  now,      \* the wall clock, in ticks
  known,    \* the keys in memory (byID)
  mem,      \* the virtualKey of each known key
  byHash,   \* the key a secret authenticates, or NoKey
  disk,     \* the row of each known key
  pc,       \* where each request stands
  req,      \* its secret, its key, the clock it read and its usage
  issued,   \* history: the secrets generated or configured so far
  revoked,  \* history: keys whose revocation was confirmed and not undone since
  tally,    \* history: what each key did in the true minute, day and month
  missed,   \* history: what of that the store need not know of
  crashes   \* restarts so far

store == <<known, mem, byHash, disk>>
histories == <<tally, missed>>
vars == <<now, known, mem, byHash, disk, pc, req, issued, revoked, tally, missed,
          crashes>>

-----------------------------------------------------------------------------
(* Windows.                                                                *)

Minute(t) == 1 + t \div MinuteLen
Day(t)    == 1 + t \div DayLen
Month(t)  == 1 + (t + MonthShift) \div MonthLen

\* A key fresh in memory: 0 is no minute, date or month.
Blank == [quota |-> Unlimited, enabled |-> TRUE, secret |-> NoSecret,
          minute |-> 0, minuteRequests |-> 0, minuteTokens |-> 0, active |-> 0,
          date |-> 0, dailyTokens |-> 0, dailyCost |-> 0,
          month |-> 0, monthlyCost |-> 0]

RollMinute(m, t) ==
  IF m.minute = Minute(t) THEN m
  ELSE [m EXCEPT !.minute = Minute(t), !.minuteRequests = 0, !.minuteTokens = 0]
RollDay(m, t) ==
  IF m.date = Day(t) THEN m
  ELSE [m EXCEPT !.date = Day(t), !.dailyTokens = 0, !.dailyCost = 0]
RollMonth(m, t) ==
  IF m.month = Month(t) THEN m
  ELSE [m EXCEPT !.month = Month(t), !.monthlyCost = 0]
RollForgetsMonth(m, t) == [RollDay(RollMinute(m, t), t) EXCEPT !.monthlyCost = 0]
RollUsageWindows(m, t) == RollMonth(RollDay(RollMinute(m, t), t), t)

Reached(limit, used) == limit > 0 /\ used >= limit
Passed(limit, used)  == limit > 0 /\ used > limit
ConcurrencyPassed(m) == Passed(m.quota.concurrent, m.active)
ConcurrencyReached(m) == Reached(m.quota.concurrent, m.active)

Refused(m) ==
  \/ Reached(m.quota.rpm, m.minuteRequests)
  \/ Reached(m.quota.tpm, m.minuteTokens)
  \/ ConcurrencyReached(m)
  \/ Reached(m.quota.dailyTokens, m.dailyTokens)
  \/ Reached(m.quota.dailyCost, m.dailyCost)
  \/ Reached(m.quota.monthlyCost, m.monthlyCost)

-----------------------------------------------------------------------------
(* Rows.                                                                   *)

RowUndated(m) == [quota |-> m.quota, enabled |-> m.enabled, secret |-> m.secret,
                  dailyTokens |-> m.dailyTokens, dailyCost |-> m.dailyCost,
                  monthlyCost |-> m.monthlyCost]
\* The columns of virtual_keys; minute counters and active slots have none.
Row(m) == [quota |-> m.quota, enabled |-> m.enabled, secret |-> m.secret,
           date |-> m.date, dailyTokens |-> m.dailyTokens,
           dailyCost |-> m.dailyCost, month |-> m.month,
           monthlyCost |-> m.monthlyCost]

LoadedForgetful(d) ==
  [Blank EXCEPT !.quota = d.quota, !.enabled = d.enabled, !.secret = d.secret]
Loaded(d) ==
  [Blank EXCEPT !.quota = d.quota, !.enabled = d.enabled, !.secret = d.secret,
                !.date = d.date, !.dailyTokens = d.dailyTokens,
                !.dailyCost = d.dailyCost, !.month = d.month,
                !.monthlyCost = d.monthlyCost]

\* A change of a key in memory only, and one written through to its row.
PutInMemory(k, m) == mem' = [mem EXCEPT ![k] = m] /\ UNCHANGED disk
PutInsertOnly(k, m) ==
  /\ mem' = [mem EXCEPT ![k] = m]
  /\ disk' = IF disk[k].secret = NoSecret THEN [disk EXCEPT ![k] = Row(m)] ELSE disk
Put(k, m) ==
  /\ mem' = [mem EXCEPT ![k] = m]
  /\ disk' = [disk EXCEPT ![k] = Row(m)]

\* A secret nobody has seen yet: they are random.
FreshSecrets == Secrets \ (issued \cup DefaultSecrets)

Did(requests, u) ==
  [requests |-> requests, tokens |-> u.tokens, dailyTokens |-> u.tokens,
   dailyCost |-> u.cost, monthlyCost |-> u.cost]
NoUsage == [tokens |-> 0, cost |-> 0]
NoTally == Did(0, NoUsage)
NoRequest == [secret |-> NoSecret, key |-> NoKey, at |-> 0,
              usage |-> NoUsage]

Stage(r, loc) == pc' = [pc EXCEPT ![r] = loc]
Ends(r) == Stage(r, "ended") /\ req' = [req EXCEPT ![r] = NoRequest]
Holding == {"admitted", "stamped", "recorded", "done"}

-----------------------------------------------------------------------------
Init ==
  /\ now = 0 /\ crashes = 0
  /\ known = {Default}
  /\ \E s \in DefaultSecrets :
       /\ mem = [k \in Keys |-> IF k = Default THEN [Blank EXCEPT !.secret = s]
                                ELSE Blank]
       /\ byHash = [x \in Secrets |-> IF x = s THEN Default ELSE NoKey]
       /\ issued = {s}
  /\ disk = [k \in Keys |-> Row(mem[k])]
  /\ pc = [r \in Requests |-> "idle"]
  /\ req = [r \in Requests |-> NoRequest]
  /\ revoked = {}
  /\ tally = [k \in Keys |-> NoTally]
  /\ missed = [k \in Keys |-> NoTally]

\* The true windows turn with the clock; no goroutine waits longer than MaxLag.  Until
\* all that do have read the clock in the new window, one of them may roll a key back,
\* which forgets what the key did in it.
Turned(a, t) ==
  [requests    |-> IF Minute(t) = Minute(now) THEN a.requests ELSE 0,
   tokens      |-> IF Minute(t) = Minute(now) THEN a.tokens ELSE 0,
   dailyTokens |-> IF Day(t) = Day(now) THEN a.dailyTokens ELSE 0,
   dailyCost   |-> IF Day(t) = Day(now) THEN a.dailyCost ELSE 0,
   monthlyCost |-> IF Month(t) = Month(now) THEN a.monthlyCost ELSE 0]

Tick ==
  /\ now < MaxTime
  /\ \A r \in Requests :
       pc[r] \in {"arrived", "stamped", "recorded"} => now < req[r].at + MaxLag
  /\ now' = now + 1
  /\ tally' = [k \in Keys |-> Turned(tally[k], now + 1)]
  /\ missed' = [k \in Keys |-> Turned(missed[k], now + 1)]
  /\ UNCHANGED <<store, pc, req, issued, revoked, crashes>>

Earliest == IF now > MaxLag THEN now - MaxLag ELSE 0
IfUnsettled(then, n, x) == IF then = n THEN 0 ELSE x
Forgettable(a) ==
  [requests    |-> IfUnsettled(Minute(Earliest), Minute(now), a.requests),
   tokens      |-> IfUnsettled(Minute(Earliest), Minute(now), a.tokens),
   dailyTokens |-> IfUnsettled(Day(Earliest), Day(now), a.dailyTokens),
   dailyCost   |-> IfUnsettled(Day(Earliest), Day(now), a.dailyCost),
   monthlyCost |-> IfUnsettled(Month(Earliest), Month(now), a.monthlyCost)]

Plus(a, b) ==
  [requests |-> a.requests + b.requests, tokens |-> a.tokens + b.tokens,
   dailyTokens |-> a.dailyTokens + b.dailyTokens,
   dailyCost |-> a.dailyCost + b.dailyCost, monthlyCost |-> a.monthlyCost + b.monthlyCost]
Happened(k, a) ==
  /\ tally' = [tally EXCEPT ![k] = Plus(@, a)]
  /\ missed' = [missed EXCEPT ![k] = Plus(@, Forgettable(a))]

-----------------------------------------------------------------------------
(* Requests.                                                               *)

\* authorize evaluates time.Now() for its call of Acquire.
Arrive(r) ==
  /\ pc[r] = "idle"
  /\ \E s \in issued : req' = [req EXCEPT ![r] = [NoRequest EXCEPT !.secret = s,
                                                                  !.at = now]]
  /\ Stage(r, "arrived")
  /\ UNCHANGED <<now, store, issued, revoked, histories, crashes>>

\* Acquire: 401 for an unknown or disabled key, 429 for an exhausted one.
Unauthorized(r) ==
  /\ pc[r] = "arrived"
  /\ byHash[req[r].secret] # NoKey => ~mem[byHash[req[r].secret]].enabled
  /\ Ends(r)
  /\ UNCHANGED <<now, store, issued, revoked, histories, crashes>>

AtKey(r, k) ==
  /\ pc[r] = "arrived"
  /\ k = byHash[req[r].secret] /\ k \in known
  /\ mem[k].enabled

Reject(r) ==
  /\ \E k \in Keys :
       /\ AtKey(r, k)
       /\ LET m == RollUsageWindows(mem[k], req[r].at) IN
            /\ Refused(m)
            /\ mem' = [mem EXCEPT ![k] = m]
  /\ Ends(r)
  /\ UNCHANGED <<now, known, byHash, disk, issued, revoked, histories, crashes>>

Acquire(r) ==
  /\ \E k \in Keys :
       /\ AtKey(r, k)
       /\ LET m == RollUsageWindows(mem[k], req[r].at) IN
            /\ ~Refused(m)
            /\ mem' = [mem EXCEPT ![k] = [m EXCEPT !.minuteRequests = @ + 1,
                                                   !.active = @ + 1]]
       /\ req' = [req EXCEPT ![r] = [NoRequest EXCEPT !.key = k]]
       /\ Happened(k, Did(1, NoUsage))
  /\ Stage(r, "admitted")
  /\ UNCHANGED <<now, known, byHash, disk, issued, revoked, crashes>>

\* A malformed body, a model off the allow-list, no account: nothing is booked.
TurnAway(r) ==
  /\ pc[r] = "admitted"
  /\ Stage(r, "done")
  /\ UNCHANGED <<now, store, req, issued, revoked, histories, crashes>>

\* recordMeta has written the ledger event and reads the clock again.
Answer(r) ==
  /\ pc[r] = "admitted"
  /\ \E u \in Usages : req' = [req EXCEPT ![r].usage = u, ![r].at = now]
  /\ Stage(r, "stamped")
  /\ UNCHANGED <<now, store, issued, revoked, histories, crashes>>

Charged(m, r) ==
  [RollUsageWindows(m, req[r].at) EXCEPT
     !.minuteTokens = @ + req[r].usage.tokens,
     !.dailyTokens  = @ + req[r].usage.tokens,
     !.dailyCost    = @ + req[r].usage.cost,
     !.monthlyCost  = @ + req[r].usage.cost]

\* A failing write is logged; the counters in memory stay.
RecordUsage(r) ==
  /\ pc[r] = "stamped"
  /\ LET k == req[r].key IN
       /\ \/ Put(k, Charged(mem[k], r))
          \/ /\ "usage" \in Failing
             /\ PutInMemory(k, Charged(mem[k], r))
       /\ Happened(k, Did(0, req[r].usage))
  /\ Stage(r, "recorded")
  /\ UNCHANGED <<now, known, byHash, req, issued, revoked, crashes>>

\* The quota alert looks at the key with the same reading of the clock.
View(r) ==
  /\ pc[r] = "recorded"
  /\ mem' = [mem EXCEPT ![req[r].key] = RollUsageWindows(@, req[r].at)]
  /\ req' = [req EXCEPT ![r] = [NoRequest EXCEPT !.key = req[r].key]]
  /\ Stage(r, "done")
  /\ UNCHANGED <<now, known, byHash, disk, issued, revoked, histories, crashes>>

\* The deferred Release of ServeHTTP.
ReleasedIfEnabled(m) == IF m.enabled THEN m.active - 1 ELSE m.active
ReleasedActive(m) == IF m.active > 0 THEN m.active - 1 ELSE 0

Release(r) ==
  /\ pc[r] = "done"
  /\ mem' = [mem EXCEPT ![req[r].key].active = ReleasedActive(mem[req[r].key])]
  /\ Ends(r)
  /\ UNCHANGED <<now, known, byHash, disk, issued, revoked, histories, crashes>>

-----------------------------------------------------------------------------
(* Admin calls, each under the mutex from its check to its write.  A call  *)
(* whose write fails undoes what it did in memory: except for Revoke that  *)
(* leaves no trace, and is no step of the model.                           *)

CreateWithQuota ==
  /\ "create" \in Admin
  /\ \E k \in Keys \ known, s \in FreshSecrets, q \in Quotas :
       /\ Put(k, [Blank EXCEPT !.secret = s, !.quota = q])
       /\ known' = known \cup {k}
       /\ byHash' = [byHash EXCEPT ![s] = k]
       /\ issued' = issued \cup {s}
  /\ UNCHANGED <<now, pc, req, revoked, histories, crashes>>

Update ==
  /\ "update" \in Admin
  /\ \E k \in known, q \in Quotas, e \in BOOLEAN :
       /\ Put(k, [mem[k] EXCEPT !.quota = q, !.enabled = e \/ k = Default])
       /\ revoked' = IF e THEN revoked \ {k} ELSE revoked
  /\ UNCHANGED <<now, known, byHash, pc, req, issued, histories, crashes>>

\* The old secret leaves the index, the new one enables the key.
SecretAdded(k, s)    == [byHash EXCEPT ![s] = k]
SecretReplaced(k, s) == [byHash EXCEPT ![mem[k].secret] = NoKey, ![s] = k]

Rotate ==
  /\ "rotate" \in Admin
  /\ \E k \in known \ {Default}, s \in FreshSecrets :
       /\ byHash' = SecretReplaced(k, s)
       /\ Put(k, [mem[k] EXCEPT !.secret = s, !.enabled = TRUE])
       /\ issued' = issued \cup {s}
       /\ revoked' = revoked \ {k}
  /\ UNCHANGED <<now, known, pc, req, histories, crashes>>

\* A failing write sets Enabled to true, whatever it was before.
Revoke ==
  /\ "revoke" \in Admin
  /\ \E k \in known \ {Default} :
       \/ /\ Put(k, [mem[k] EXCEPT !.enabled = FALSE])
          /\ revoked' = revoked \cup {k}
       \/ /\ "revoke" \in Failing
          /\ PutInMemory(k, [mem[k] EXCEPT !.enabled = TRUE])
          /\ UNCHANGED revoked
  /\ UNCHANGED <<now, known, byHash, pc, req, issued, histories, crashes>>

\* The console lists the keys.
List ==
  /\ mem' = [k \in Keys |-> IF k \in known THEN RollUsageWindows(mem[k], now)
                            ELSE mem[k]]
  /\ UNCHANGED <<now, known, byHash, disk, pc, req, issued, revoked,
                 histories, crashes>>

\* The process dies and starts again, with the default secret configured then.  Nothing
\* is left of what the keys did this minute.
Restart ==
  /\ crashes < MaxCrashes
  /\ crashes' = crashes + 1
  /\ \E s \in DefaultSecrets :
       LET loaded == [k \in Keys |-> IF k \in known THEN Loaded(disk[k]) ELSE Blank]
           default == [loaded[Default] EXCEPT !.secret = s, !.enabled = TRUE]
       IN  /\ mem' = [loaded EXCEPT ![Default] = default]
           /\ disk' = [disk EXCEPT ![Default] = Row(default)]
           /\ byHash' = [x \in Secrets |->
                IF x = s THEN Default
                ELSE IF \E k \in known \ {Default} : disk[k].secret = x
                     THEN CHOOSE k \in known \ {Default} : disk[k].secret = x
                     ELSE NoKey]
           /\ issued' = issued \cup {s}
  /\ pc' = [r \in Requests |-> IF pc[r] = "idle" THEN "idle" ELSE "ended"]
  /\ req' = [r \in Requests |-> NoRequest]
  /\ missed' = [k \in Keys |-> [missed[k] EXCEPT !.requests = tally[k].requests,
                                                 !.tokens = tally[k].tokens]]
  /\ UNCHANGED <<now, known, revoked, tally>>

-----------------------------------------------------------------------------
Handle(r) ==
  \/ Unauthorized(r) \/ Reject(r) \/ Acquire(r) \/ TurnAway(r) \/ Answer(r)
  \/ RecordUsage(r) \/ View(r) \/ Release(r)

Next ==
  \/ Tick
  \/ \E r \in Requests : Arrive(r) \/ Handle(r)
  \/ CreateWithQuota \/ Update \/ Rotate \/ Revoke \/ List
  \/ Restart

Spec == Init /\ [][Next]_vars

-----------------------------------------------------------------------------
(* Properties.                                                             *)

KeyState == [quota : Quota, enabled : BOOLEAN, secret : Secrets \cup {NoSecret},
             minute : Nat, minuteRequests : Nat, minuteTokens : Nat, active : Nat,
             date : Nat, dailyTokens : Nat, dailyCost : Nat,
             month : Nat, monthlyCost : Nat]
RowState == [quota : Quota, enabled : BOOLEAN, secret : Secrets \cup {NoSecret},
             date : Nat, dailyTokens : Nat, dailyCost : Nat, month : Nat,
             monthlyCost : Nat]
RequestState == [secret : Secrets \cup {NoSecret}, key : Keys \cup {NoKey},
                 at : Nat, usage : [tokens : Nat, cost : Nat]]
TallyState == [requests : Nat, tokens : Nat, dailyTokens : Nat, dailyCost : Nat,
               monthlyCost : Nat]

\* Every variable keeps its type.
TypeOK ==
  /\ now \in Nat /\ crashes \in Nat
  /\ known \subseteq Keys /\ Default \in known
  /\ mem \in [Keys -> KeyState]
  /\ byHash \in [Secrets -> Keys \cup {NoKey}]
  /\ disk \in [Keys -> RowState]
  /\ pc \in [Requests -> Holding \cup {"idle", "arrived", "ended"}]
  /\ req \in [Requests -> RequestState]
  /\ issued \subseteq Secrets
  /\ revoked \subseteq Keys
  /\ tally \in [Keys -> TallyState] /\ missed \in [Keys -> TallyState]

\* The concurrency counter of a key is the number of requests that were admitted
\* with it and have not ended, however the key is updated, rotated or revoked in
\* the meantime (Acquire, Release).
InFlight(k) == {r \in Requests : pc[r] \in Holding /\ req[r].key = k}
KeySlotsConserved == \A k \in Keys : mem[k].active = Cardinality(InFlight(k))

\* A secret authenticates the one key that memory and its row say it belongs to:
\* no change of a key, and no crash after it, leaves two secrets or none
\* (add, Rotate, loadSQLite).
OneSecretPerKey ==
  /\ \A s \in Secrets, k \in Keys :
       byHash[s] = k <=> k \in known /\ mem[k].secret = s
  /\ \A k \in known : disk[k].secret = mem[k].secret

\* A tenant's secret that was rotated out is never accepted again, not even after
\* a restart (Rotate; README "the old key is invalid at once").
RotatedStaysDead ==
  [][\A s \in issued \ DefaultSecrets :
       byHash[s] = NoKey => byHash'[s] = NoKey]_vars

\* A key whose revocation was confirmed admits nothing until an update or a
\* rotation enables it again (Revoke; README "revoke a virtual key").
RevokedStaysOut ==
  \A k \in revoked : ~mem[k].enabled /\ ~disk[k].enabled

\* What a key did that the store has to know of: everything but what was done before
\* all requests had read the clock in the new window, and, of the minute, before the
\* process started.
Due(k) ==
  [requests    |-> tally[k].requests - missed[k].requests,
   tokens      |-> tally[k].tokens - missed[k].tokens,
   dailyTokens |-> tally[k].dailyTokens - missed[k].dailyTokens,
   dailyCost   |-> tally[k].dailyCost - missed[k].dailyCost,
   monthlyCost |-> tally[k].monthlyCost - missed[k].monthlyCost]

\* A request is admitted only if what is due of its key this minute, this day and this
\* month, and its requests in flight, leave room in all its limits; usage is known
\* when a request ends, and counts at once (Acquire, rollUsageWindows; README "once
\* the budget is reached requests are refused").
QuotaHonoured ==
  [][\A r \in Requests, k \in Keys :
       pc[r] = "arrived" /\ pc'[r] = "admitted" /\ req'[r].key = k =>
         LET q == mem[k].quota
             a == Due(k)
         IN  /\ ~Reached(q.rpm, a.requests)
             /\ ~Reached(q.tpm, a.tokens)
             /\ ~Reached(q.concurrent, Cardinality(InFlight(k)))
             /\ ~Reached(q.dailyTokens, a.dailyTokens)
             /\ ~Reached(q.dailyCost, a.dailyCost)
             /\ ~Reached(q.monthlyCost, a.monthlyCost)]_vars

\* A quota on usage lags, but not by more than the requests that may be in flight:
\* no day's tokens, as far as they are due, pass the limit by more than one request's
\* worth for each (Acquire, RecordUsage; README "a lagging limit").
MaxTokens == CHOOSE n \in {u.tokens : u \in Usages} :
               \A u \in Usages : u.tokens <= n
OvershootBounded ==
  \A k \in known :
    LET q == mem[k].quota IN
    q.dailyTokens > 0 /\ q.concurrent > 0 =>
      Due(k).dailyTokens < q.dailyTokens + q.concurrent * MaxTokens
=============================================================================
