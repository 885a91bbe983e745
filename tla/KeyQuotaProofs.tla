--------------------------- MODULE KeyQuotaProofs ---------------------------
(***************************************************************************)
(* Proofs about KeyQuota, for any number of requests, keys, secrets and    *)
(* crashes, any quotas and any windows.                                    *)
(***************************************************************************)
EXTENDS KeyQuota, FiniteSetTheorems, TLAPS

-----------------------------------------------------------------------------
(* The inductive invariants.                                               *)

\* A secret belongs to one key in the index, in memory and in the rows; the secrets
\* of tenants are never values of PLATFORM_API_KEY, and the default key has one.
Index ==
  /\ OneSecretPerKey
  /\ \A k \in known : mem[k].secret \in issued
  /\ mem[Default].secret \in DefaultSecrets
  /\ \A k \in known \ {Default} : mem[k].secret \notin DefaultSecrets
  /\ \A k \in Keys \ known : mem[k] = Blank

\* A request that holds a slot holds one of a known key.
Placed ==
  \A r \in Requests :
    /\ pc[r] \in Holding => req[r].key \in known
    /\ pc[r] = "arrived" => req[r].secret \in Secrets

\* What the store need not know of is part of what happened.
Fewer(a, b) ==
  /\ a.requests <= b.requests /\ a.tokens <= b.tokens
  /\ a.dailyTokens <= b.dailyTokens /\ a.dailyCost <= b.dailyCost
  /\ a.monthlyCost <= b.monthlyCost
Counted == \A k \in Keys : Fewer(missed[k], tally[k])

IInv == TypeOK /\ Index /\ Placed /\ KeySlotsConserved /\ Counted

-----------------------------------------------------------------------------
(* Windows and rows.                                                       *)

\* The number of a minute, a day or a month.
LEMMA Numbers ==
  ASSUME NEW t \in Nat
  PROVE  /\ Minute(t) \in Nat /\ Day(t) \in Nat /\ Month(t) \in Nat
         /\ Minute(t) # 0 /\ Day(t) # 0 /\ Month(t) # 0
<1>1. t \div MinuteLen \in Nat
  BY QuotaAssumption DEF QuotaAssumption
<1>2. t \div DayLen \in Nat
  BY QuotaAssumption DEF QuotaAssumption
<1>3. (t + MonthShift) \div MonthLen \in Nat
  BY QuotaAssumption DEF QuotaAssumption
<1> QED
  BY <1>1, <1>2, <1>3 DEF Minute, Day, Month

\* A key after its windows were moved on to a time.
LEMMA Rolled ==
  ASSUME NEW m \in KeyState, NEW t \in Nat
  PROVE  LET n == RollUsageWindows(m, t) IN
           /\ n \in KeyState
           /\ n.quota = m.quota /\ n.enabled = m.enabled /\ n.secret = m.secret
           /\ n.active = m.active
           /\ n.minute = Minute(t) /\ n.date = Day(t) /\ n.month = Month(t)
           /\ n.minuteRequests = IF m.minute = Minute(t) THEN m.minuteRequests ELSE 0
           /\ n.minuteTokens = IF m.minute = Minute(t) THEN m.minuteTokens ELSE 0
           /\ n.dailyTokens = IF m.date = Day(t) THEN m.dailyTokens ELSE 0
           /\ n.dailyCost = IF m.date = Day(t) THEN m.dailyCost ELSE 0
           /\ n.monthlyCost = IF m.month = Month(t) THEN m.monthlyCost ELSE 0
<1> DEFINE a == RollMinute(m, t)
           b == RollDay(a, t)
           n == RollMonth(b, t)
<1>1. Minute(t) \in Nat /\ Day(t) \in Nat /\ Month(t) \in Nat
  BY Numbers
<1>2. /\ a \in KeyState
      /\ a.quota = m.quota /\ a.enabled = m.enabled /\ a.secret = m.secret
      /\ a.active = m.active /\ a.minute = Minute(t)
      /\ a.date = m.date /\ a.month = m.month
      /\ a.minuteRequests = IF m.minute = Minute(t) THEN m.minuteRequests ELSE 0
      /\ a.minuteTokens = IF m.minute = Minute(t) THEN m.minuteTokens ELSE 0
      /\ a.dailyTokens = m.dailyTokens /\ a.dailyCost = m.dailyCost
      /\ a.monthlyCost = m.monthlyCost
  BY <1>1 DEF RollMinute, KeyState
<1> HIDE DEF a
<1>3. /\ b \in KeyState
      /\ b.quota = a.quota /\ b.enabled = a.enabled /\ b.secret = a.secret
      /\ b.active = a.active /\ b.minute = a.minute
      /\ b.date = Day(t) /\ b.month = a.month
      /\ b.minuteRequests = a.minuteRequests /\ b.minuteTokens = a.minuteTokens
      /\ b.dailyTokens = IF a.date = Day(t) THEN a.dailyTokens ELSE 0
      /\ b.dailyCost = IF a.date = Day(t) THEN a.dailyCost ELSE 0
      /\ b.monthlyCost = a.monthlyCost
  BY <1>1, <1>2 DEF RollDay, KeyState
<1> HIDE DEF b
<1>4. /\ n \in KeyState
      /\ n.quota = b.quota /\ n.enabled = b.enabled /\ n.secret = b.secret
      /\ n.active = b.active /\ n.minute = b.minute /\ n.date = b.date
      /\ n.month = Month(t)
      /\ n.minuteRequests = b.minuteRequests /\ n.minuteTokens = b.minuteTokens
      /\ n.dailyTokens = b.dailyTokens /\ n.dailyCost = b.dailyCost
      /\ n.monthlyCost = IF b.month = Month(t) THEN b.monthlyCost ELSE 0
  BY <1>1, <1>3 DEF RollMonth, KeyState
<1> HIDE DEF n
<1>5. RollUsageWindows(m, t) = n
  BY DEF RollUsageWindows, a, b, n
<1> QED
  BY <1>2, <1>3, <1>4, <1>5

\* The row of a key holds what the key holds.
LEMMA Rows ==
  ASSUME NEW m \in KeyState
  PROVE  /\ Row(m) \in RowState
         /\ Row(m).quota = m.quota /\ Row(m).enabled = m.enabled
         /\ Row(m).secret = m.secret /\ Row(m).date = m.date
         /\ Row(m).dailyTokens = m.dailyTokens /\ Row(m).dailyCost = m.dailyCost
         /\ Row(m).month = m.month /\ Row(m).monthlyCost = m.monthlyCost
BY DEF Row, KeyState, RowState

\* A new key is enabled, unlimited and unused.
LEMMA Blanks ==
  /\ Blank \in KeyState
  /\ Blank.active = 0 /\ Blank.secret = NoSecret /\ Blank.enabled
  /\ Blank.minute = 0 /\ Blank.date = 0 /\ Blank.month = 0
  /\ Blank.quota = Unlimited /\ Blank.dailyTokens = 0 /\ Blank.dailyCost = 0
  /\ Blank.monthlyCost = 0
BY DEF Blank, KeyState, Quota, Unlimited

\* And so does the key that is loaded from a row, but for what a row has no column for.
LEMMA LoadedRows ==
  ASSUME NEW d \in RowState
  PROVE  LET m == Loaded(d) IN
           /\ m \in KeyState
           /\ m.quota = d.quota /\ m.enabled = d.enabled /\ m.secret = d.secret
           /\ m.active = 0 /\ m.minute = 0 /\ m.date = d.date /\ m.month = d.month
           /\ m.dailyTokens = d.dailyTokens /\ m.dailyCost = d.dailyCost
           /\ m.monthlyCost = d.monthlyCost
<1> DEFINE a == [Blank EXCEPT !.quota = d.quota, !.enabled = d.enabled,
                              !.secret = d.secret, !.date = d.date]
           b == [a EXCEPT !.dailyTokens = d.dailyTokens, !.dailyCost = d.dailyCost,
                          !.month = d.month, !.monthlyCost = d.monthlyCost]
<1>1. /\ d.quota \in Quota /\ d.enabled \in BOOLEAN
      /\ d.secret \in Secrets \cup {NoSecret} /\ d.date \in Nat
      /\ d.dailyTokens \in Nat /\ d.dailyCost \in Nat /\ d.month \in Nat
      /\ d.monthlyCost \in Nat
  BY DEF RowState
<1>2. /\ a \in KeyState
      /\ a.quota = d.quota /\ a.enabled = d.enabled /\ a.secret = d.secret
      /\ a.active = 0 /\ a.minute = 0 /\ a.date = d.date
  BY <1>1, Blanks DEF KeyState
<1> HIDE DEF a
<1>3. /\ b \in KeyState
      /\ b.quota = a.quota /\ b.enabled = a.enabled /\ b.secret = a.secret
      /\ b.active = a.active /\ b.minute = a.minute /\ b.date = a.date
      /\ b.month = d.month /\ b.dailyTokens = d.dailyTokens
      /\ b.dailyCost = d.dailyCost /\ b.monthlyCost = d.monthlyCost
  BY <1>1, <1>2 DEF KeyState
<1>4. Loaded(d) = b
  BY DEF Loaded, a
<1> QED
  BY <1>2, <1>3, <1>4

-----------------------------------------------------------------------------
(* Frames.                                                                 *)

\* Steps that leave the secrets alone.
LEMMA IndexFrame ==
  ASSUME Index, known' = known, byHash' = byHash, issued' = issued,
         \A k \in Keys : mem'[k].secret = mem[k].secret,
         \A k \in known : disk'[k].secret = mem[k].secret,
         \A k \in Keys \ known : mem'[k] = mem[k],
         Default \in Keys, known \subseteq Keys
  PROVE  Index'
BY DEF Index, OneSecretPerKey

\* Steps that leave the requests in flight and the counters alone.
LEMMA SlotsFrame ==
  ASSUME KeySlotsConserved,
         \A k \in Keys : mem'[k].active = mem[k].active,
         \A r \in Requests, k \in Keys :
           (pc'[r] \in Holding /\ req'[r].key = k) <=> (pc[r] \in Holding /\ req[r].key = k)
  PROVE  KeySlotsConserved'
<1>1. \A k \in Keys : InFlight(k)' = InFlight(k)
  BY DEF InFlight
<1> QED
  BY <1>1 DEF KeySlotsConserved

\* The requests in flight are finitely many.
LEMMA InFlightFinite ==
  ASSUME NEW k
  PROVE  IsFiniteSet(InFlight(k)) /\ Cardinality(InFlight(k)) \in Nat
<1>1. InFlight(k) \subseteq Requests
  BY DEF InFlight
<1> QED
  BY <1>1, QuotaAssumption, FS_Subset, FS_CardinalityType DEF QuotaAssumption

-----------------------------------------------------------------------------
(* The histories.                                                          *)

\* What a counter of window n says of window w.
Current(n, w, x) == IF n = w THEN x ELSE 0

\* What is due of a key is a number of each kind.
LEMMA DueCounts ==
  ASSUME IInv, NEW k \in Keys
  PROVE  Due(k) \in TallyState
<1>1. tally[k] \in TallyState /\ missed[k] \in TallyState /\ Fewer(missed[k], tally[k])
  BY DEF IInv, TypeOK, Counted
<1> QED
  BY <1>1 DEF Due, Fewer, TallyState

\* Steps that do nothing the histories tell of.
LEMMA HistoriesFrame ==
  ASSUME UNCHANGED <<tally, missed>>
  PROVE  /\ \A k : Due(k)' = Due(k)
         /\ IInv => tally' \in [Keys -> TallyState] /\ missed' \in [Keys -> TallyState]
                     /\ Counted'
BY DEF Due, IInv, TypeOK, Counted

\* What a request does is counted as it should be.
LEMMA Doing ==
  ASSUME NEW n \in Nat, NEW u, u.tokens \in Nat, u.cost \in Nat
  PROVE  LET a == Did(n, u) IN
           /\ a \in TallyState
           /\ a.requests = n /\ a.tokens = u.tokens /\ a.dailyTokens = u.tokens
           /\ a.dailyCost = u.cost /\ a.monthlyCost = u.cost
BY DEF Did, TallyState

\* Of what is done, the store has to know what is done when all requests have read the
\* clock in the window.
LEMMA Happening ==
  ASSUME IInv, NEW k \in Keys, NEW a \in TallyState, Happened(k, a)
  PROVE  /\ tally' \in [Keys -> TallyState] /\ missed' \in [Keys -> TallyState]
         /\ Counted'
         /\ \A j \in Keys \ {k} : Due(j)' = Due(j)
         /\ LET d == Due(k)
                m == Minute(Earliest)  n == Minute(now)
                b == Day(Earliest)  c == Day(now)
            IN  /\ Due(k)'.requests = d.requests + Current(m, n, a.requests)
                /\ Due(k)'.tokens = d.tokens + Current(m, n, a.tokens)
                /\ Due(k)'.dailyTokens = d.dailyTokens + Current(b, c, a.dailyTokens)
                /\ Due(k)'.dailyCost = d.dailyCost + Current(b, c, a.dailyCost)
                /\ Due(k)'.monthlyCost =
                     d.monthlyCost + Current(Month(Earliest), Month(now), a.monthlyCost)
<1> DEFINE g == Forgettable(a)
<1>1. /\ tally \in [Keys -> TallyState] /\ missed \in [Keys -> TallyState]
      /\ \A j \in Keys : Fewer(missed[j], tally[j])
  BY DEF IInv, TypeOK, Counted
<1>2. /\ g \in TallyState /\ Fewer(g, a)
      /\ g.requests = IfUnsettled(Minute(Earliest), Minute(now), a.requests)
      /\ g.tokens = IfUnsettled(Minute(Earliest), Minute(now), a.tokens)
      /\ g.dailyTokens = IfUnsettled(Day(Earliest), Day(now), a.dailyTokens)
      /\ g.dailyCost = IfUnsettled(Day(Earliest), Day(now), a.dailyCost)
      /\ g.monthlyCost = IfUnsettled(Month(Earliest), Month(now), a.monthlyCost)
  BY DEF Forgettable, IfUnsettled, TallyState, Fewer
<1>3. ASSUME NEW b \in TallyState, NEW c \in TallyState
      PROVE  /\ Plus(b, c) \in TallyState
             /\ Plus(b, c).requests = b.requests + c.requests
             /\ Plus(b, c).tokens = b.tokens + c.tokens
             /\ Plus(b, c).dailyTokens = b.dailyTokens + c.dailyTokens
             /\ Plus(b, c).dailyCost = b.dailyCost + c.dailyCost
             /\ Plus(b, c).monthlyCost = b.monthlyCost + c.monthlyCost
  BY DEF Plus, TallyState
<1>4. /\ tally' = [tally EXCEPT ![k] = Plus(tally[k], a)]
      /\ missed' = [missed EXCEPT ![k] = Plus(missed[k], g)]
  BY DEF Happened
<1> HIDE DEF g
<1>5. /\ tally' \in [Keys -> TallyState] /\ tally'[k] = Plus(tally[k], a)
      /\ missed' \in [Keys -> TallyState] /\ missed'[k] = Plus(missed[k], g)
      /\ \A j \in Keys \ {k} : tally'[j] = tally[j] /\ missed'[j] = missed[j]
  BY <1>1, <1>2, <1>3, <1>4
<1>6. /\ tally[k] \in TallyState /\ missed[k] \in TallyState /\ Fewer(missed[k], tally[k])
  BY <1>1
<1>7. Fewer(missed'[k], tally'[k])
  BY <1>2, <1>3, <1>5, <1>6 DEF Fewer, TallyState
<1>8. Counted'
  BY <1>1, <1>5, <1>7 DEF Counted
<1>9. \A j \in Keys \ {k} : Due(j)' = Due(j)
  BY <1>5 DEF Due
<1>10. /\ Due(k)'.requests = (tally[k].requests + a.requests)
                               - (missed[k].requests + g.requests)
       /\ Due(k)'.tokens = (tally[k].tokens + a.tokens) - (missed[k].tokens + g.tokens)
       /\ Due(k)'.dailyTokens = (tally[k].dailyTokens + a.dailyTokens)
                                  - (missed[k].dailyTokens + g.dailyTokens)
       /\ Due(k)'.dailyCost = (tally[k].dailyCost + a.dailyCost)
                                - (missed[k].dailyCost + g.dailyCost)
       /\ Due(k)'.monthlyCost = (tally[k].monthlyCost + a.monthlyCost)
                                  - (missed[k].monthlyCost + g.monthlyCost)
  BY <1>2, <1>3, <1>5, <1>6 DEF Due
<1>11. /\ Due(k).requests = tally[k].requests - missed[k].requests
       /\ Due(k).tokens = tally[k].tokens - missed[k].tokens
       /\ Due(k).dailyTokens = tally[k].dailyTokens - missed[k].dailyTokens
       /\ Due(k).dailyCost = tally[k].dailyCost - missed[k].dailyCost
       /\ Due(k).monthlyCost = tally[k].monthlyCost - missed[k].monthlyCost
  BY DEF Due
<1>12. ASSUME NEW then, NEW n, NEW x, NEW y, NEW z, NEW f, NEW d, NEW e,
              x \in Nat, y \in Nat, z \in Nat, f = IfUnsettled(then, n, z),
              e = (x + z) - (y + f), d = x - y
       PROVE  e = d + Current(then, n, z)
  BY <1>12 DEF IfUnsettled, Current
<1>13. /\ tally[k].requests \in Nat /\ tally[k].tokens \in Nat
       /\ tally[k].dailyTokens \in Nat /\ tally[k].dailyCost \in Nat
       /\ tally[k].monthlyCost \in Nat
       /\ missed[k].requests \in Nat /\ missed[k].tokens \in Nat
       /\ missed[k].dailyTokens \in Nat /\ missed[k].dailyCost \in Nat
       /\ missed[k].monthlyCost \in Nat
       /\ a.requests \in Nat /\ a.tokens \in Nat /\ a.dailyTokens \in Nat
       /\ a.dailyCost \in Nat /\ a.monthlyCost \in Nat
  BY <1>6 DEF TallyState
<1>14. Due(k)'.requests = Due(k).requests + Current(Minute(Earliest), Minute(now), a.requests)
  BY <1>2, <1>10, <1>11, <1>12, <1>13
<1>15. Due(k)'.tokens = Due(k).tokens + Current(Minute(Earliest), Minute(now), a.tokens)
  BY <1>2, <1>10, <1>11, <1>12, <1>13
<1>16. Due(k)'.dailyTokens = Due(k).dailyTokens + Current(Day(Earliest), Day(now), a.dailyTokens)
  BY <1>2, <1>10, <1>11, <1>12, <1>13
<1>17. Due(k)'.dailyCost = Due(k).dailyCost + Current(Day(Earliest), Day(now), a.dailyCost)
  BY <1>2, <1>10, <1>11, <1>12, <1>13
<1>18. Due(k)'.monthlyCost = Due(k).monthlyCost + Current(Month(Earliest), Month(now), a.monthlyCost)
  BY <1>2, <1>10, <1>11, <1>12, <1>13
<1> QED
  BY <1>5, <1>8, <1>9, <1>14, <1>15, <1>16, <1>17, <1>18

-----------------------------------------------------------------------------
(* The clock and the requests.                                             *)

\* The invariant holds at the start.
LEMMA InitInvariant == Init => IInv
<1> SUFFICES ASSUME Init PROVE IInv
  OBVIOUS
<1> USE QuotaAssumption DEF QuotaAssumption
<1>1. PICK s \in DefaultSecrets :
        /\ mem = [k \in Keys |-> IF k = Default THEN [Blank EXCEPT !.secret = s]
                                 ELSE Blank]
        /\ byHash = [x \in Secrets |-> IF x = s THEN Default ELSE NoKey]
        /\ issued = {s}
  BY DEF Init
<1>2. s \in Secrets /\ s # NoSecret
  OBVIOUS
<1>3. /\ [Blank EXCEPT !.secret = s] \in KeyState
      /\ [Blank EXCEPT !.secret = s].secret = s
      /\ [Blank EXCEPT !.secret = s].active = 0
  BY <1>2, Blanks DEF KeyState
<1>4. mem \in [Keys -> KeyState]
  BY <1>1, <1>3, Blanks
<1>5. \A k \in Keys : /\ mem[k].active = 0
                      /\ k # Default => mem[k] = Blank
  BY <1>1, <1>3, Blanks
<1>6. mem[Default].secret = s
  BY <1>1, <1>3
<1>7. disk \in [Keys -> RowState] /\ \A k \in Keys : disk[k].secret = mem[k].secret
  BY <1>4, Rows DEF Init
<1>8. NoRequest \in RequestState
  BY DEF NoRequest, NoUsage, RequestState
<1>9. NoTally \in TallyState /\ Fewer(NoTally, NoTally)
  BY Doing DEF NoTally, NoUsage, TallyState, Fewer
<1>10. TypeOK
  BY <1>1, <1>2, <1>4, <1>7, <1>8, <1>9 DEF Init, TypeOK, Holding
<1>11. Index
  <2>1. ASSUME NEW x \in Secrets, NEW k \in Keys
        PROVE  byHash[x] = k <=> k \in known /\ mem[k].secret = x
    BY <1>1, <1>6 DEF Init
  <2> QED
    BY <1>1, <1>5, <1>6, <1>7, <2>1 DEF Init, Index, OneSecretPerKey
<1>12. Placed
  BY DEF Init, Placed, Holding
<1>13. KeySlotsConserved
  <2>1. \A k \in Keys : InFlight(k) = {}
    BY DEF Init, InFlight, Holding
  <2> QED
    BY <1>5, <2>1, FS_EmptySet DEF KeySlotsConserved
<1>14. Counted
  BY <1>9 DEF Init, Counted
<1> QED
  BY <1>10, <1>11, <1>12, <1>13, <1>14 DEF IInv

\* The clock moves on.
LEMMA TickKeeps ==
  ASSUME IInv, Tick
  PROVE  IInv'
<1>1. /\ now' = now + 1 /\ tally' = [k \in Keys |-> Turned(tally[k], now + 1)]
      /\ missed' = [k \in Keys |-> Turned(missed[k], now + 1)]
      /\ UNCHANGED <<known, mem, byHash, disk, pc, req, issued, revoked, crashes>>
  BY DEF Tick, store
<1>2. tally' \in [Keys -> TallyState] /\ missed' \in [Keys -> TallyState] /\ Counted'
  <2>1. \A a \in TallyState : Turned(a, now + 1) \in TallyState
    BY DEF Turned, TallyState
  <2>2. ASSUME NEW a \in TallyState, NEW b \in TallyState, Fewer(a, b)
        PROVE  Fewer(Turned(a, now + 1), Turned(b, now + 1))
    BY <2>2 DEF Turned, TallyState, Fewer
  <2> QED
    BY <1>1, <2>1, <2>2 DEF IInv, TypeOK, Counted
<1>3. TypeOK'
  BY <1>1, <1>2 DEF IInv, TypeOK
<1>4. Index' /\ Placed' /\ KeySlotsConserved'
  BY <1>1 DEF IInv, Index, OneSecretPerKey, Placed, KeySlotsConserved, InFlight
<1> QED
  BY <1>2, <1>3, <1>4 DEF IInv

\* Steps of a request that take or give no slot and change no secret: what the request
\* knows, and the windows of a key.
LEMMA HandlerKeeps ==
  ASSUME IInv, NEW r \in Requests,
         NEW loc \in Holding \cup {"idle", "arrived", "ended"}, Stage(r, loc),
         req' \in [Requests -> RequestState],
         \A x \in Requests \ {r} : req'[x] = req[x],
         pc[r] \in Holding <=> loc \in Holding,
         loc \in Holding => req'[r].key = req[r].key,
         loc = "arrived" => req'[r].secret \in Secrets,
         mem' \in [Keys -> KeyState], disk' \in [Keys -> RowState],
         tally' \in [Keys -> TallyState], missed' \in [Keys -> TallyState], Counted',
         \A k \in Keys : /\ mem'[k].secret = mem[k].secret
                         /\ mem'[k].active = mem[k].active
                         /\ k \notin known => mem'[k] = mem[k]
                         /\ k \in known => disk'[k].secret = mem[k].secret,
         UNCHANGED <<now, known, byHash, issued, revoked, crashes>>
  PROVE  IInv'
<1>1. /\ pc' \in [Requests -> Holding \cup {"idle", "arrived", "ended"}]
      /\ pc'[r] = loc /\ \A x \in Requests \ {r} : pc'[x] = pc[x]
  BY DEF Stage, IInv, TypeOK
<1>2. TypeOK'
  BY <1>1 DEF IInv, TypeOK
<1>3. Index'
  BY IndexFrame DEF IInv, TypeOK
<1>4. Placed'
  BY <1>1 DEF IInv, Placed, Holding
<1>5. KeySlotsConserved'
  <2>1. ASSUME NEW x \in Requests, NEW k \in Keys
        PROVE  (pc'[x] \in Holding /\ req'[x].key = k)
                 <=> (pc[x] \in Holding /\ req[x].key = k)
    BY <1>1
  <2> QED
    BY <2>1, SlotsFrame DEF IInv
<1> QED
  BY <1>2, <1>3, <1>4, <1>5 DEF IInv

\* Requests as they change.
LEMMA Requesting ==
  ASSUME req \in [Requests -> RequestState], NEW r \in Requests
  PROVE  /\ NoRequest \in RequestState
         /\ [req EXCEPT ![r] = NoRequest] \in [Requests -> RequestState]
         /\ \A k \in Keys :
              LET q == [NoRequest EXCEPT !.key = k] IN
                /\ [req EXCEPT ![r] = q] \in [Requests -> RequestState]
                /\ [req EXCEPT ![r] = q][r].key = k
                /\ \A x \in Requests \ {r} : [req EXCEPT ![r] = q][x] = req[x]
<1>1. NoRequest \in RequestState
  BY QuotaAssumption DEF NoRequest, NoUsage, RequestState
<1>2. ASSUME NEW k \in Keys
      PROVE  /\ [NoRequest EXCEPT !.key = k] \in RequestState
             /\ [NoRequest EXCEPT !.key = k].key = k
  BY <1>1 DEF RequestState
<1> HIDE DEF NoRequest
<1> QED
  BY <1>1, <1>2

\* A request comes in, and reads the clock.
LEMMA ArriveKeeps ==
  ASSUME IInv, NEW r \in Requests, Arrive(r)
  PROVE  IInv'
<1>1. /\ pc[r] = "idle" /\ Stage(r, "arrived")
      /\ UNCHANGED <<now, known, mem, byHash, disk, issued, revoked,
                     tally, missed, crashes>>
  BY DEF Arrive, histories, store
<1>2. PICK s \in issued :
        req' = [req EXCEPT ![r] = [NoRequest EXCEPT !.secret = s, !.at = now]]
  BY DEF Arrive, histories, store
<1>3. s \in Secrets
  BY DEF IInv, TypeOK
<1>4. /\ [NoRequest EXCEPT !.secret = s, !.at = now] \in RequestState
      /\ [NoRequest EXCEPT !.secret = s, !.at = now].secret = s
  BY <1>3 DEF IInv, TypeOK, NoRequest, NoUsage, RequestState
<1>5. /\ req' \in [Requests -> RequestState]
      /\ \A x \in Requests \ {r} : req'[x] = req[x]
      /\ req'[r].secret \in Secrets
  BY <1>2, <1>3, <1>4 DEF IInv, TypeOK
<1>6. \A k \in Keys : /\ mem'[k] = mem[k]
                      /\ k \in known => disk'[k].secret = mem[k].secret
  BY <1>1 DEF IInv, Index, OneSecretPerKey
<1> QED
  BY <1>1, <1>5, <1>6, HandlerKeeps, HistoriesFrame DEF IInv, TypeOK, Holding

\* A request without a key that would admit it ends.
LEMMA UnauthorizedKeeps ==
  ASSUME IInv, NEW r \in Requests, Unauthorized(r)
  PROVE  IInv'
<1>1. /\ pc[r] = "arrived" /\ Stage(r, "ended") /\ req' = [req EXCEPT ![r] = NoRequest]
      /\ UNCHANGED <<now, known, mem, byHash, disk, issued, revoked,
                     tally, missed, crashes>>
  BY DEF Unauthorized, histories, store, Ends
<1>2. /\ req' \in [Requests -> RequestState]
      /\ \A x \in Requests \ {r} : req'[x] = req[x]
  BY <1>1, Requesting DEF IInv, TypeOK
<1>3. \A k \in Keys : /\ mem'[k] = mem[k]
                      /\ k \in known => disk'[k].secret = mem[k].secret
  BY <1>1 DEF IInv, Index, OneSecretPerKey
<1> QED
  BY <1>1, <1>2, <1>3, HandlerKeeps, HistoriesFrame DEF IInv, TypeOK, Holding

\* The windows of one key move on.
LEMMA Rolling ==
  ASSUME mem \in [Keys -> KeyState], NEW k \in Keys, NEW t \in Nat,
         mem' = [mem EXCEPT ![k] = RollUsageWindows(mem[k], t)]
  PROVE  /\ mem' \in [Keys -> KeyState]
         /\ mem'[k] = RollUsageWindows(mem[k], t)
         /\ \A j \in Keys \ {k} : mem'[j] = mem[j]
         /\ \A j \in Keys : /\ mem'[j].secret = mem[j].secret
                            /\ mem'[j].active = mem[j].active
                            /\ mem'[j].enabled = mem[j].enabled
                            /\ mem'[j].quota = mem[j].quota
<1> DEFINE n == RollUsageWindows(mem[k], t)
<1>1. /\ n \in KeyState /\ n.secret = mem[k].secret /\ n.active = mem[k].active
      /\ n.enabled = mem[k].enabled /\ n.quota = mem[k].quota
  BY Rolled
<1> HIDE DEF n
<1>2. mem' = [mem EXCEPT ![k] = n]
  BY DEF n
<1>3. /\ mem' \in [Keys -> KeyState] /\ mem'[k] = n
      /\ \A j \in Keys \ {k} : mem'[j] = mem[j]
  BY <1>1, <1>2
<1>4. mem'[k] = RollUsageWindows(mem[k], t)
  BY <1>3 DEF n
<1> QED
  BY <1>1, <1>3, <1>4

\* A request whose key has nothing left ends.
LEMMA RejectKeeps ==
  ASSUME IInv, NEW r \in Requests, Reject(r)
  PROVE  IInv'
<1>1. /\ pc[r] = "arrived" /\ Stage(r, "ended") /\ req' = [req EXCEPT ![r] = NoRequest]
      /\ UNCHANGED <<now, known, byHash, disk, issued, revoked, tally, missed, crashes>>
  BY DEF Reject, histories, Ends, AtKey
<1>2. PICK k \in Keys : /\ k \in known
                        /\ mem' = [mem EXCEPT ![k] = RollUsageWindows(mem[k], req[r].at)]
  BY DEF Reject, AtKey
<1>3. req[r].at \in Nat
  BY DEF IInv, TypeOK, RequestState
<1>4. /\ mem' \in [Keys -> KeyState]
      /\ \A j \in Keys \ {k} : mem'[j] = mem[j]
      /\ \A j \in Keys : /\ mem'[j].secret = mem[j].secret
                         /\ mem'[j].active = mem[j].active
  BY <1>2, <1>3, Rolling DEF IInv, TypeOK
<1>5. \A j \in Keys : /\ j \notin known => mem'[j] = mem[j]
                      /\ j \in known => disk'[j].secret = mem[j].secret
  BY <1>1, <1>2, <1>4 DEF IInv, Index, OneSecretPerKey
<1>6. /\ req' \in [Requests -> RequestState]
      /\ \A x \in Requests \ {r} : req'[x] = req[x]
  BY <1>1, Requesting DEF IInv, TypeOK
<1> QED
  BY <1>1, <1>4, <1>5, <1>6, HandlerKeeps, HistoriesFrame DEF IInv, TypeOK, Holding

\* A request that failed before it was sent on books nothing.
LEMMA TurnAwayKeeps ==
  ASSUME IInv, NEW r \in Requests, TurnAway(r)
  PROVE  IInv'
<1>1. /\ pc[r] = "admitted" /\ Stage(r, "done")
      /\ UNCHANGED <<now, known, mem, byHash, disk, req, issued, revoked,
                     tally, missed, crashes>>
  BY DEF TurnAway, histories, store
<1>2. \A k \in Keys : /\ mem'[k] = mem[k]
                      /\ k \in known => disk'[k].secret = mem[k].secret
  BY <1>1 DEF IInv, Index, OneSecretPerKey
<1> QED
  BY <1>1, <1>2, HandlerKeeps, HistoriesFrame DEF IInv, TypeOK, Holding

\* The answer comes, and the clock is read again.
LEMMA AnswerKeeps ==
  ASSUME IInv, NEW r \in Requests, Answer(r)
  PROVE  IInv'
<1>1. /\ pc[r] = "admitted" /\ Stage(r, "stamped")
      /\ UNCHANGED <<now, known, mem, byHash, disk, issued, revoked,
                     tally, missed, crashes>>
  BY DEF Answer, histories, store
<1>2. PICK u \in Usages : req' = [req EXCEPT ![r].usage = u, ![r].at = now]
  BY DEF Answer
<1>3. u \in [tokens : Nat, cost : Nat] /\ now \in Nat /\ req[r] \in RequestState
  BY QuotaAssumption DEF QuotaAssumption, IInv, TypeOK
<1> DEFINE q == [req[r] EXCEPT !.usage = u, !.at = now]
<1>4. q \in RequestState /\ q.key = req[r].key
  BY <1>3 DEF RequestState
<1>5. req' = [req EXCEPT ![r] = q]
  BY <1>2 DEF IInv, TypeOK
<1> HIDE DEF q
<1>6. /\ req' \in [Requests -> RequestState] /\ req'[r].key = req[r].key
      /\ \A x \in Requests \ {r} : req'[x] = req[x]
  BY <1>4, <1>5 DEF IInv, TypeOK
<1>7. \A k \in Keys : /\ mem'[k] = mem[k]
                      /\ k \in known => disk'[k].secret = mem[k].secret
  BY <1>1 DEF IInv, Index, OneSecretPerKey
<1> QED
  BY <1>1, <1>6, <1>7, HandlerKeeps, HistoriesFrame DEF IInv, TypeOK, Holding

\* A key after a request was charged to it.
LEMMA Charging ==
  ASSUME NEW m \in KeyState, NEW r \in Requests, req \in [Requests -> RequestState]
  PROVE  LET n == Charged(m, r)
             w == RollUsageWindows(m, req[r].at)
             u == req[r].usage IN
           /\ n \in KeyState
           /\ n.quota = m.quota /\ n.enabled = m.enabled /\ n.secret = m.secret
           /\ n.active = m.active
           /\ n.minute = w.minute /\ n.date = w.date /\ n.month = w.month
           /\ n.minuteRequests = w.minuteRequests
           /\ n.minuteTokens = w.minuteTokens + u.tokens
           /\ n.dailyTokens = w.dailyTokens + u.tokens
           /\ n.dailyCost = w.dailyCost + u.cost
           /\ n.monthlyCost = w.monthlyCost + u.cost
<1> DEFINE w == RollUsageWindows(m, req[r].at)
           u == req[r].usage
<1>1. req[r].at \in Nat /\ u.tokens \in Nat /\ u.cost \in Nat
  BY DEF RequestState
<1>2. /\ w \in KeyState /\ w.quota = m.quota /\ w.enabled = m.enabled
      /\ w.secret = m.secret /\ w.active = m.active
  BY <1>1, Rolled
<1>3. Charged(m, r) = [w EXCEPT !.minuteTokens = @ + u.tokens,
                                !.dailyTokens = @ + u.tokens,
                                !.dailyCost = @ + u.cost, !.monthlyCost = @ + u.cost]
  BY DEF Charged
<1> HIDE DEF w, u
<1> DEFINE n == [w EXCEPT !.minuteTokens = w.minuteTokens + u.tokens,
                          !.dailyTokens = w.dailyTokens + u.tokens,
                          !.dailyCost = w.dailyCost + u.cost,
                          !.monthlyCost = w.monthlyCost + u.cost]
<1>4. Charged(m, r) = n
  BY <1>2, <1>3 DEF KeyState
<1>5. /\ w.minuteTokens + u.tokens \in Nat /\ w.dailyTokens + u.tokens \in Nat
      /\ w.dailyCost + u.cost \in Nat /\ w.monthlyCost + u.cost \in Nat
  BY <1>1, <1>2 DEF KeyState
<1>6. /\ n \in KeyState
      /\ n.quota = w.quota /\ n.enabled = w.enabled /\ n.secret = w.secret
      /\ n.active = w.active
      /\ n.minute = w.minute /\ n.date = w.date /\ n.month = w.month
      /\ n.minuteRequests = w.minuteRequests
      /\ n.minuteTokens = w.minuteTokens + u.tokens
      /\ n.dailyTokens = w.dailyTokens + u.tokens
      /\ n.dailyCost = w.dailyCost + u.cost
      /\ n.monthlyCost = w.monthlyCost + u.cost
  BY <1>2, <1>5 DEF KeyState
<1> HIDE DEF n
<1> QED
  BY <1>2, <1>4, <1>6 DEF w, u

\* What the usage of a request changes: the counters of its key, its row unless the
\* write fails, and the history.
LEMMA Recorded ==
  ASSUME IInv, NEW r \in Requests, RecordUsage(r)
  PROVE  \E k \in known :
           /\ k = req[r].key
           /\ Charged(mem[k], r) \in KeyState
           /\ mem' \in [Keys -> KeyState] /\ mem'[k] = Charged(mem[k], r)
           /\ disk' \in [Keys -> RowState]
           /\ \/ disk'[k] = Row(Charged(mem[k], r))
              \/ "usage" \in Failing /\ disk' = disk
           /\ Did(0, req[r].usage) \in TallyState /\ Happened(k, Did(0, req[r].usage))
           /\ \A j \in Keys \ {k} : mem'[j] = mem[j] /\ disk'[j] = disk[j]
<1> DEFINE k == req[r].key
           n == Charged(mem[k], r)
<1>1. k \in known /\ k \in Keys
  BY DEF RecordUsage, IInv, TypeOK, Placed, Holding
<1>2. n \in KeyState
  BY <1>1, Charging DEF IInv, TypeOK
<1>3. Did(0, req[r].usage) \in TallyState
  BY Doing DEF IInv, TypeOK, RequestState
<1>4. /\ \/ Put(k, n)
         \/ "usage" \in Failing /\ PutInMemory(k, n)
      /\ Happened(k, Did(0, req[r].usage))
  BY DEF RecordUsage
<1>5. k = req[r].key
  OBVIOUS
<1> HIDE DEF k, n
<1>6. /\ mem' = [mem EXCEPT ![k] = n]
      /\ \/ disk' = [disk EXCEPT ![k] = Row(n)]
         \/ "usage" \in Failing /\ disk' = disk
  BY <1>4 DEF Put, PutInMemory
<1>7. Row(n) \in RowState
  BY <1>2, Rows
<1>8. /\ mem' \in [Keys -> KeyState] /\ mem'[k] = n
      /\ \A j \in Keys \ {k} : mem'[j] = mem[j]
  BY <1>1, <1>2, <1>6 DEF IInv, TypeOK
<1>9. /\ disk' \in [Keys -> RowState]
      /\ disk'[k] = Row(n) \/ ("usage" \in Failing /\ disk' = disk)
      /\ \A j \in Keys \ {k} : disk'[j] = disk[j]
  BY <1>1, <1>6, <1>7 DEF IInv, TypeOK
<1> USE DEF n
<1> QED
  BY <1>1, <1>2, <1>3, <1>4, <1>5, <1>8, <1>9

\* The usage of a request is booked, whether or not its row can be written.
LEMMA RecordUsageKeeps ==
  ASSUME IInv, NEW r \in Requests, RecordUsage(r)
  PROVE  IInv'
<1>1. /\ pc[r] = "stamped" /\ Stage(r, "recorded")
      /\ UNCHANGED <<now, known, byHash, req, issued, revoked, crashes>>
  BY DEF RecordUsage
<1>2. PICK k \in known :
        /\ mem' \in [Keys -> KeyState] /\ mem'[k] = Charged(mem[k], r)
        /\ disk' \in [Keys -> RowState]
        /\ disk'[k] = Row(Charged(mem[k], r)) \/ disk' = disk
        /\ Did(0, req[r].usage) \in TallyState /\ Happened(k, Did(0, req[r].usage))
        /\ \A j \in Keys \ {k} : mem'[j] = mem[j] /\ disk'[j] = disk[j]
  BY Recorded
<1> DEFINE n == Charged(mem[k], r)
<1>3. mem[k] \in KeyState
  BY DEF IInv, TypeOK
<1>4. n \in KeyState /\ n.secret = mem[k].secret /\ n.active = mem[k].active
  BY <1>3, Charging DEF IInv, TypeOK
<1> HIDE DEF n
<1>5. Row(n).secret = n.secret
  BY <1>4, Rows
<1>6. mem'[k] = n /\ (disk'[k] = Row(n) \/ disk' = disk)
  BY <1>2 DEF n
<1>7. \A j \in Keys : /\ mem'[j].secret = mem[j].secret
                      /\ mem'[j].active = mem[j].active
                      /\ j \notin known => mem'[j] = mem[j]
  BY <1>2, <1>4, <1>6
<1>8. \A j \in known : disk'[j].secret = mem[j].secret
  BY <1>2, <1>4, <1>5, <1>6 DEF IInv, TypeOK, Index, OneSecretPerKey
<1>9. tally' \in [Keys -> TallyState] /\ missed' \in [Keys -> TallyState] /\ Counted'
  BY <1>2, Happening DEF IInv, TypeOK
<1> QED
  BY <1>1, <1>2, <1>7, <1>8, <1>9, HandlerKeeps DEF IInv, TypeOK, Holding

\* The quota alert looks at the key.
LEMMA ViewKeeps ==
  ASSUME IInv, NEW r \in Requests, View(r)
  PROVE  IInv'
<1>1. /\ pc[r] = "recorded" /\ Stage(r, "done")
      /\ req' = [req EXCEPT ![r] = [NoRequest EXCEPT !.key = req[r].key]]
      /\ UNCHANGED <<now, known, byHash, disk, issued, revoked, tally, missed, crashes>>
  BY DEF View, histories
<1>2. PICK k \in Keys : k = req[r].key /\ k \in known
  BY <1>1 DEF IInv, TypeOK, Placed, Holding
<1>3. mem' = [mem EXCEPT ![k] = RollUsageWindows(mem[k], req[r].at)]
  BY <1>2 DEF View
<1>4. req[r].at \in Nat
  BY DEF IInv, TypeOK, RequestState
<1>5. /\ mem' \in [Keys -> KeyState]
      /\ \A j \in Keys \ {k} : mem'[j] = mem[j]
      /\ \A j \in Keys : /\ mem'[j].secret = mem[j].secret
                         /\ mem'[j].active = mem[j].active
  BY <1>3, <1>4, Rolling DEF IInv, TypeOK
<1>6. \A j \in Keys : /\ j \notin known => mem'[j] = mem[j]
                      /\ j \in known => disk'[j].secret = mem[j].secret
  BY <1>1, <1>2, <1>5 DEF IInv, Index, OneSecretPerKey
<1>7. /\ req' \in [Requests -> RequestState] /\ req'[r].key = req[r].key
      /\ \A x \in Requests \ {r} : req'[x] = req[x]
  BY <1>1, <1>2, Requesting DEF IInv, TypeOK
<1> QED
  BY <1>1, <1>5, <1>6, <1>7, HandlerKeeps, HistoriesFrame DEF IInv, TypeOK, Holding

\* What the windows and counters of two keys have in common.
SameCounters(m, n) ==
  /\ n.minute = m.minute /\ n.minuteRequests = m.minuteRequests
  /\ n.minuteTokens = m.minuteTokens
  /\ n.date = m.date /\ n.dailyTokens = m.dailyTokens /\ n.dailyCost = m.dailyCost
  /\ n.month = m.month /\ n.monthlyCost = m.monthlyCost

\* What an admission changes: the windows of the key move on, one request and one slot
\* more are counted, and the history counts the request.
LEMMA Acquired ==
  ASSUME IInv, NEW r \in Requests, Acquire(r)
  PROVE  \E k \in known :
           LET w == RollUsageWindows(mem[k], req[r].at) IN
             /\ k = byHash[req[r].secret] /\ mem[k].enabled /\ ~Refused(w)
             /\ w \in KeyState
             /\ mem' \in [Keys -> KeyState]
             /\ \A j \in Keys \ {k} : mem'[j] = mem[j]
             /\ mem'[k].quota = w.quota /\ mem'[k].enabled = w.enabled
             /\ mem'[k].secret = w.secret /\ mem'[k].active = w.active + 1
             /\ mem'[k].minute = w.minute /\ mem'[k].minuteTokens = w.minuteTokens
             /\ mem'[k].minuteRequests = w.minuteRequests + 1
             /\ mem'[k].date = w.date /\ mem'[k].dailyTokens = w.dailyTokens
             /\ mem'[k].dailyCost = w.dailyCost
             /\ mem'[k].month = w.month /\ mem'[k].monthlyCost = w.monthlyCost
             /\ Did(1, NoUsage) \in TallyState /\ Happened(k, Did(1, NoUsage))
             /\ req' = [req EXCEPT ![r] = [NoRequest EXCEPT !.key = k]]
<1>1. PICK k \in Keys :
        /\ k = byHash[req[r].secret] /\ k \in known /\ mem[k].enabled
        /\ ~Refused(RollUsageWindows(mem[k], req[r].at))
        /\ mem' = [mem EXCEPT ![k] = [RollUsageWindows(mem[k], req[r].at) EXCEPT
                                        !.minuteRequests = @ + 1, !.active = @ + 1]]
        /\ req' = [req EXCEPT ![r] = [NoRequest EXCEPT !.key = k]]
        /\ Happened(k, Did(1, NoUsage))
  BY DEF Acquire, AtKey
<1> DEFINE w == RollUsageWindows(mem[k], req[r].at)
           v == [w EXCEPT !.minuteRequests = @ + 1]
           n == [v EXCEPT !.active = @ + 1]
<1>2. req[r].at \in Nat /\ mem[k] \in KeyState
  BY DEF IInv, TypeOK, RequestState
<1>3. w \in KeyState
  BY <1>2, Rolled
<1>4. mem' = [mem EXCEPT ![k] = n] /\ ~Refused(w)
  BY <1>1
<1> HIDE DEF w
<1>5. /\ v \in KeyState /\ v.quota = w.quota /\ v.enabled = w.enabled
      /\ v.secret = w.secret /\ v.active = w.active
      /\ v.minute = w.minute /\ v.minuteTokens = w.minuteTokens
      /\ v.minuteRequests = w.minuteRequests + 1
      /\ v.date = w.date /\ v.dailyTokens = w.dailyTokens /\ v.dailyCost = w.dailyCost
      /\ v.month = w.month /\ v.monthlyCost = w.monthlyCost
  BY <1>3 DEF KeyState
<1> HIDE DEF v
<1>6. /\ n \in KeyState /\ n.quota = v.quota /\ n.enabled = v.enabled
      /\ n.secret = v.secret /\ n.active = v.active + 1 /\ SameCounters(v, n)
  BY <1>5 DEF KeyState, SameCounters
<1> HIDE DEF n
<1>7. /\ mem' \in [Keys -> KeyState] /\ mem'[k] = n
      /\ \A j \in Keys \ {k} : mem'[j] = mem[j]
  BY <1>4, <1>6 DEF IInv, TypeOK
<1>8. Did(1, NoUsage) \in TallyState
  BY Doing DEF NoUsage
<1>9. /\ mem'[k].quota = w.quota /\ mem'[k].enabled = w.enabled
       /\ mem'[k].secret = w.secret /\ mem'[k].active = w.active + 1
       /\ mem'[k].minute = w.minute /\ mem'[k].minuteTokens = w.minuteTokens
       /\ mem'[k].minuteRequests = w.minuteRequests + 1
       /\ mem'[k].date = w.date /\ mem'[k].dailyTokens = w.dailyTokens
       /\ mem'[k].dailyCost = w.dailyCost
       /\ mem'[k].month = w.month /\ mem'[k].monthlyCost = w.monthlyCost
  BY <1>5, <1>6, <1>7 DEF SameCounters
<1>10. k \in known /\ k = byHash[req[r].secret] /\ mem[k].enabled
       /\ req' = [req EXCEPT ![r] = [NoRequest EXCEPT !.key = k]]
       /\ Happened(k, Did(1, NoUsage))
  BY <1>1
<1> USE DEF w
<1> QED
  BY <1>3, <1>4, <1>7, <1>8, <1>9, <1>10

\* A request is admitted, and takes a slot.
LEMMA AcquireKeeps ==
  ASSUME IInv, NEW r \in Requests, Acquire(r)
  PROVE  IInv'
<1>1. /\ pc[r] = "arrived" /\ Stage(r, "admitted")
      /\ UNCHANGED <<now, known, byHash, disk, issued, revoked, crashes>>
  BY DEF Acquire, AtKey
<1>2. PICK k \in known :
        LET w == RollUsageWindows(mem[k], req[r].at) IN
          /\ mem' \in [Keys -> KeyState]
          /\ \A j \in Keys \ {k} : mem'[j] = mem[j]
          /\ mem'[k].secret = w.secret /\ mem'[k].active = w.active + 1
          /\ Did(1, NoUsage) \in TallyState /\ Happened(k, Did(1, NoUsage))
          /\ req' = [req EXCEPT ![r] = [NoRequest EXCEPT !.key = k]]
  BY Acquired
<1>3. req[r].at \in Nat /\ mem[k] \in KeyState /\ k \in Keys
  BY DEF IInv, TypeOK, RequestState
<1>4. mem'[k].secret = mem[k].secret /\ mem'[k].active = mem[k].active + 1
  BY <1>2, <1>3, Rolled
<1>5. /\ req' \in [Requests -> RequestState] /\ req'[r].key = k
      /\ \A x \in Requests \ {r} : req'[x] = req[x]
  BY <1>2, <1>3, Requesting DEF IInv, TypeOK
<1>6. /\ pc' \in [Requests -> Holding \cup {"idle", "arrived", "ended"}]
      /\ pc'[r] = "admitted" /\ \A x \in Requests \ {r} : pc'[x] = pc[x]
  BY <1>1 DEF Stage, IInv, TypeOK, Holding
<1>7. TypeOK' /\ Counted'
  <2>1. tally' \in [Keys -> TallyState] /\ missed' \in [Keys -> TallyState] /\ Counted'
    BY <1>2, <1>3, Happening
  <2> QED
    BY <1>1, <1>2, <1>5, <1>6, <2>1 DEF IInv, TypeOK
<1>8. Index'
  <2>1. \A j \in Keys : mem'[j].secret = mem[j].secret
    BY <1>2, <1>4
  <2>2. \A j \in known : disk'[j].secret = mem[j].secret
    BY <1>1 DEF IInv, Index, OneSecretPerKey
  <2>3. \A j \in Keys \ known : mem'[j] = mem[j]
    BY <1>2
  <2> QED
    BY <1>1, <2>1, <2>2, <2>3, IndexFrame DEF IInv, TypeOK
<1>9. Placed'
  BY <1>1, <1>2, <1>5, <1>6 DEF IInv, Placed, Holding
<1>10. KeySlotsConserved'
  <2>1. \A j \in Keys \ {k} : InFlight(j)' = InFlight(j)
    BY <1>1, <1>5, <1>6 DEF InFlight, Holding
  <2>2. r \notin InFlight(k) /\ InFlight(k)' = InFlight(k) \cup {r}
    BY <1>1, <1>5, <1>6 DEF InFlight, Holding
  <2>3. Cardinality(InFlight(k)') = Cardinality(InFlight(k)) + 1
    BY <2>2, InFlightFinite, FS_AddElement
  <2> QED
    BY <1>2, <1>4, <2>1, <2>3 DEF IInv, KeySlotsConserved
<1> QED
  BY <1>7, <1>8, <1>9, <1>10 DEF IInv

\* What the end of a request changes: its key counts one slot less.
LEMMA Released ==
  ASSUME IInv, NEW r \in Requests, Release(r)
  PROVE  \E k \in known :
           /\ k = req[r].key /\ r \in InFlight(k)
           /\ mem' \in [Keys -> KeyState]
           /\ \A j \in Keys \ {k} : mem'[j] = mem[j]
           /\ mem'[k].quota = mem[k].quota /\ mem'[k].enabled = mem[k].enabled
           /\ mem'[k].secret = mem[k].secret /\ mem'[k].active = mem[k].active - 1
           /\ SameCounters(mem[k], mem'[k])
<1>1. pc[r] = "done"
  BY DEF Release
<1>2. PICK k \in Keys : k = req[r].key /\ k \in known
  BY <1>1 DEF IInv, TypeOK, Placed, Holding
<1>3. r \in InFlight(k)
  BY <1>1, <1>2 DEF InFlight, Holding
<1>4. mem[k].active > 0
  <2>1. mem[k].active = Cardinality(InFlight(k))
    BY DEF IInv, KeySlotsConserved
  <2>2. Cardinality(InFlight(k)) # 0
    BY <1>3, InFlightFinite, FS_EmptySet
  <2> QED
    BY <2>1, <2>2, InFlightFinite
<1> DEFINE n == [mem[k] EXCEPT !.active = mem[k].active - 1]
<1>5. mem[k] \in KeyState
  BY DEF IInv, TypeOK
<1>6. mem[k].active - 1 \in Nat
  BY <1>4, <1>5 DEF KeyState
<1>7. /\ n \in KeyState /\ n.quota = mem[k].quota /\ n.enabled = mem[k].enabled
      /\ n.secret = mem[k].secret /\ n.active = mem[k].active - 1
      /\ SameCounters(mem[k], n)
  BY <1>5, <1>6 DEF KeyState, SameCounters
<1>8. mem' = [mem EXCEPT ![k] = n]
  BY <1>2, <1>4 DEF Release, ReleasedActive
<1> HIDE DEF n
<1>9. /\ mem' \in [Keys -> KeyState] /\ mem'[k] = n
      /\ \A j \in Keys \ {k} : mem'[j] = mem[j]
  BY <1>7, <1>8 DEF IInv, TypeOK
<1> QED
  BY <1>2, <1>3, <1>7, <1>9

\* A request ends, and gives its slot back, which its key still counts.
LEMMA ReleaseKeeps ==
  ASSUME IInv, NEW r \in Requests, Release(r)
  PROVE  IInv'
<1>1. /\ pc[r] = "done" /\ Stage(r, "ended") /\ req' = [req EXCEPT ![r] = NoRequest]
      /\ UNCHANGED <<now, known, byHash, disk, issued, revoked, tally, missed, crashes>>
  BY DEF Release, histories, Ends
<1>2. PICK k \in known :
        /\ k = req[r].key /\ r \in InFlight(k)
        /\ mem' \in [Keys -> KeyState]
        /\ \A j \in Keys \ {k} : mem'[j] = mem[j]
        /\ mem'[k].secret = mem[k].secret /\ mem'[k].active = mem[k].active - 1
  BY Released
<1>3. k \in Keys
  BY DEF IInv, TypeOK
<1>4. /\ req' \in [Requests -> RequestState]
      /\ \A x \in Requests \ {r} : req'[x] = req[x]
  BY <1>1, Requesting DEF IInv, TypeOK
<1>5. /\ pc' \in [Requests -> Holding \cup {"idle", "arrived", "ended"}]
      /\ pc'[r] = "ended" /\ \A x \in Requests \ {r} : pc'[x] = pc[x]
  BY <1>1 DEF Stage, IInv, TypeOK
<1>6. TypeOK'
  BY <1>1, <1>2, <1>4, <1>5 DEF IInv, TypeOK
<1>7. Index'
  <2>1. \A j \in Keys : mem'[j].secret = mem[j].secret
    BY <1>2
  <2>2. \A j \in known : disk'[j].secret = mem[j].secret
    BY <1>1 DEF IInv, Index, OneSecretPerKey
  <2>3. \A j \in Keys \ known : mem'[j] = mem[j]
    BY <1>2
  <2> QED
    BY <1>1, <2>1, <2>2, <2>3, IndexFrame DEF IInv, TypeOK
<1>8. Placed'
  BY <1>1, <1>4, <1>5 DEF IInv, Placed, Holding
<1>9. KeySlotsConserved'
  <2>1. \A j \in Keys \ {k} : InFlight(j)' = InFlight(j)
    BY <1>1, <1>2, <1>4, <1>5 DEF InFlight, Holding
  <2>2. InFlight(k)' = InFlight(k) \ {r}
    BY <1>1, <1>4, <1>5 DEF InFlight, Holding
  <2>3. Cardinality(InFlight(k)') = Cardinality(InFlight(k)) - 1
    BY <1>2, <2>2, InFlightFinite, FS_RemoveElement
  <2> QED
    BY <1>2, <1>3, <2>1, <2>3 DEF IInv, KeySlotsConserved
<1>10. Counted'
  BY <1>1, HistoriesFrame
<1> QED
  BY <1>6, <1>7, <1>8, <1>9, <1>10 DEF IInv

-----------------------------------------------------------------------------
(* The admin calls and the restart.                                        *)

\* One key is written, with its row or without.
LEMMA Writing ==
  ASSUME TypeOK, NEW k \in Keys, NEW m \in KeyState, Put(k, m) \/ PutInMemory(k, m)
  PROVE  /\ mem' \in [Keys -> KeyState] /\ disk' \in [Keys -> RowState]
         /\ mem'[k] = m /\ \A j \in Keys \ {k} : mem'[j] = mem[j]
         /\ \A j \in Keys \ {k} : disk'[j] = disk[j]
         /\ Put(k, m) => /\ disk'[k] = Row(m) /\ disk'[k].secret = m.secret
                         /\ disk'[k].enabled = m.enabled
         /\ PutInMemory(k, m) => disk' = disk
<1>1. Row(m) \in RowState /\ Row(m).secret = m.secret /\ Row(m).enabled = m.enabled
  BY Rows
<1> QED
  BY <1>1 DEF Put, PutInMemory, TypeOK

\* An admin call that keeps the secrets: one key is written, its slots stay.
LEMMA SwitchingKeeps ==
  ASSUME IInv, NEW k \in known, NEW m \in KeyState, Put(k, m) \/ PutInMemory(k, m),
         m.secret = mem[k].secret, m.active = mem[k].active,
         revoked' \subseteq Keys,
         UNCHANGED <<now, known, byHash, pc, req, issued, tally, missed, crashes>>
  PROVE  IInv'
<1>1. k \in Keys
  BY DEF IInv, TypeOK
<1>2. /\ mem' \in [Keys -> KeyState] /\ disk' \in [Keys -> RowState]
      /\ mem'[k] = m /\ \A j \in Keys \ {k} : mem'[j] = mem[j]
      /\ \A j \in Keys \ {k} : disk'[j] = disk[j]
      /\ disk'[k].secret = m.secret \/ disk' = disk
  BY <1>1, Writing DEF IInv
<1>3. TypeOK'
  BY <1>2 DEF IInv, TypeOK
<1>4. Index'
  <2>1. \A j \in Keys : mem'[j].secret = mem[j].secret
    BY <1>2
  <2>2. \A j \in known : disk'[j].secret = mem[j].secret
    BY <1>2 DEF IInv, TypeOK, Index, OneSecretPerKey
  <2> QED
    BY <1>2, <2>1, <2>2, IndexFrame DEF IInv, TypeOK
<1>5. Placed'
  BY DEF IInv, Placed
<1>6. KeySlotsConserved'
  BY <1>2, SlotsFrame DEF IInv
<1>7. Counted'
  BY HistoriesFrame
<1> QED
  BY <1>3, <1>4, <1>5, <1>6, <1>7 DEF IInv

\* An update keeps the secret and the slots.
LEMMA UpdateKeeps ==
  ASSUME IInv, Update
  PROVE  IInv'
<1>1. PICK k \in known, q \in Quotas, e \in BOOLEAN :
        /\ Put(k, [mem[k] EXCEPT !.quota = q, !.enabled = e \/ k = Default])
        /\ revoked' = IF e THEN revoked \ {k} ELSE revoked
  BY DEF Update
<1> DEFINE b == e \/ k = Default
           m == [mem[k] EXCEPT !.quota = q, !.enabled = b]
<1>2. k \in Keys /\ q \in Quota /\ b \in BOOLEAN
  BY QuotaAssumption DEF QuotaAssumption, IInv, TypeOK
<1>3. Put(k, m)
  BY <1>1
<1> HIDE DEF b
<1>4. m \in KeyState /\ m.secret = mem[k].secret /\ m.active = mem[k].active
  BY <1>2 DEF IInv, TypeOK, KeyState
<1> HIDE DEF m
<1>5. revoked' \subseteq Keys
  BY <1>1 DEF IInv, TypeOK
<1> QED
  BY <1>3, <1>4, <1>5, SwitchingKeeps DEF Update, histories

\* A revocation, and one whose row could not be written.
LEMMA RevokeKeeps ==
  ASSUME IInv, Revoke
  PROVE  IInv'
<1>1. PICK k \in known \ {Default}, e \in BOOLEAN :
        /\ \/ Put(k, [mem[k] EXCEPT !.enabled = e])
           \/ PutInMemory(k, [mem[k] EXCEPT !.enabled = e])
        /\ revoked' \in {revoked, revoked \cup {k}}
  BY DEF Revoke
<1> DEFINE m == [mem[k] EXCEPT !.enabled = e]
<1>2. k \in Keys
  BY DEF IInv, TypeOK
<1>3. m \in KeyState /\ m.secret = mem[k].secret /\ m.active = mem[k].active
  BY <1>2 DEF IInv, TypeOK, KeyState
<1>4. Put(k, m) \/ PutInMemory(k, m)
  BY <1>1
<1> HIDE DEF m
<1>5. revoked' \subseteq Keys
  BY <1>1, <1>2 DEF IInv, TypeOK
<1> QED
  BY <1>3, <1>4, <1>5, SwitchingKeeps DEF Revoke, histories

\* A new key has a secret that none had before.
LEMMA CreateKeeps ==
  ASSUME IInv, CreateWithQuota
  PROVE  IInv'
<1>1. PICK k \in Keys \ known, s \in FreshSecrets, q \in Quotas :
        /\ Put(k, [Blank EXCEPT !.secret = s, !.quota = q])
        /\ known' = known \cup {k}
        /\ byHash' = [byHash EXCEPT ![s] = k]
        /\ issued' = issued \cup {s}
  BY DEF CreateWithQuota
<1>2. UNCHANGED <<now, pc, req, revoked, tally, missed, crashes>>
  BY DEF CreateWithQuota, histories
<1>3. s \in Secrets /\ s \notin issued /\ s \notin DefaultSecrets /\ q \in Quota
  BY QuotaAssumption DEF FreshSecrets, QuotaAssumption
<1> DEFINE m == [Blank EXCEPT !.secret = s, !.quota = q]
<1>4. m \in KeyState /\ m.secret = s /\ m.active = 0
  BY <1>3, Blanks DEF KeyState
<1>5. Put(k, m)
  BY <1>1
<1> HIDE DEF m
<1>6. /\ mem' \in [Keys -> KeyState] /\ disk' \in [Keys -> RowState]
      /\ mem'[k] = m /\ \A j \in Keys \ {k} : mem'[j] = mem[j]
      /\ \A j \in Keys \ {k} : disk'[j] = disk[j]
      /\ disk'[k].secret = s
  BY <1>4, <1>5, Writing DEF IInv
<1>7. byHash' \in [Secrets -> Keys \cup {NoKey}] /\ byHash'[s] = k
      /\ \A x \in Secrets \ {s} : byHash'[x] = byHash[x]
  BY <1>1, <1>3 DEF IInv, TypeOK
<1>8. TypeOK'
  BY <1>1, <1>2, <1>3, <1>6, <1>7 DEF IInv, TypeOK
<1>9. k # Default
  BY DEF IInv, TypeOK
<1>10. Index'
  <2>1. ASSUME NEW x \in Secrets, NEW j \in Keys
        PROVE  byHash'[x] = j <=> j \in known' /\ mem'[j].secret = x
    <3>1. CASE x = s
      <4>1. \A i \in known : mem[i].secret # s
        BY <1>3 DEF IInv, Index
      <4> QED
        BY <1>1, <1>4, <1>6, <1>7, <3>1, <4>1
    <3>2. CASE x # s
      BY <1>1, <1>4, <1>6, <1>7, <3>2 DEF IInv, Index, OneSecretPerKey
    <3> QED
      BY <3>1, <3>2
  <2>2. \A j \in known' : disk'[j].secret = mem'[j].secret
    BY <1>1, <1>4, <1>6 DEF IInv, TypeOK, Index, OneSecretPerKey
  <2>3. /\ \A j \in known' : mem'[j].secret \in issued'
        /\ \A j \in known' \ {Default} : mem'[j].secret \notin DefaultSecrets
    BY <1>1, <1>3, <1>4, <1>6 DEF IInv, TypeOK, Index
  <2>4. mem'[Default].secret \in DefaultSecrets
    BY <1>6, <1>9 DEF IInv, TypeOK, Index
  <2>5. \A j \in Keys \ known' : mem'[j] = Blank
    BY <1>1, <1>6 DEF IInv, Index
  <2> QED
    BY <2>1, <2>2, <2>3, <2>4, <2>5 DEF Index, OneSecretPerKey
<1>11. Placed'
  BY <1>1, <1>2 DEF IInv, Placed
<1>12. KeySlotsConserved'
  <2>1. mem[k].active = 0
    BY Blanks DEF IInv, Index
  <2>2. \A j \in Keys : mem'[j].active = mem[j].active
    BY <1>4, <1>6, <2>1
  <2> QED
    BY <1>2, <2>2, SlotsFrame DEF IInv
<1>13. Counted'
  BY <1>2, HistoriesFrame
<1> QED
  BY <1>8, <1>10, <1>11, <1>12, <1>13 DEF IInv

\* A rotated secret leaves the index, and the new one takes its place.
LEMMA RotateKeeps ==
  ASSUME IInv, Rotate
  PROVE  IInv'
<1>1. PICK k \in known \ {Default}, s \in FreshSecrets :
        /\ byHash' = [byHash EXCEPT ![mem[k].secret] = NoKey, ![s] = k]
        /\ Put(k, [mem[k] EXCEPT !.secret = s, !.enabled = TRUE])
        /\ issued' = issued \cup {s}
        /\ revoked' = revoked \ {k}
  BY DEF Rotate, SecretReplaced
<1>2. UNCHANGED <<now, known, pc, req, tally, missed, crashes>>
  BY DEF Rotate, histories
<1>3. s \in Secrets /\ s \notin issued /\ s \notin DefaultSecrets /\ k \in Keys
  BY DEF FreshSecrets, IInv, TypeOK
<1> DEFINE m == [mem[k] EXCEPT !.secret = s, !.enabled = TRUE]
<1>4. m \in KeyState /\ m.secret = s /\ m.active = mem[k].active
  BY <1>3 DEF IInv, TypeOK, KeyState
<1>5. Put(k, m)
  BY <1>1
<1> HIDE DEF m
<1>6. /\ mem' \in [Keys -> KeyState] /\ disk' \in [Keys -> RowState]
      /\ mem'[k] = m /\ \A j \in Keys \ {k} : mem'[j] = mem[j]
      /\ \A j \in Keys \ {k} : disk'[j] = disk[j]
      /\ disk'[k].secret = s
  BY <1>3, <1>4, <1>5, Writing DEF IInv
<1>7. PICK o : o = mem[k].secret
  OBVIOUS
<1>8. o \in issued /\ o \in Secrets /\ o # s
  BY <1>3, <1>7 DEF IInv, TypeOK, Index
<1>9. byHash' \in [Secrets -> Keys \cup {NoKey}] /\ byHash'[s] = k /\ byHash'[o] = NoKey
      /\ \A x \in Secrets \ {s, o} : byHash'[x] = byHash[x]
  BY <1>1, <1>3, <1>7, <1>8 DEF IInv, TypeOK
<1>10. TypeOK'
  BY <1>1, <1>2, <1>3, <1>6, <1>9 DEF IInv, TypeOK
<1>11. Index'
  <2>1. ASSUME NEW x \in Secrets, NEW j \in Keys
        PROVE  byHash'[x] = j <=> j \in known /\ mem'[j].secret = x
    <3>1. CASE x = s
      <4>1. \A i \in known : mem[i].secret # s
        BY <1>3 DEF IInv, Index
      <4> QED
        BY <1>1, <1>4, <1>6, <1>9, <3>1, <4>1
    <3>2. CASE x = o
      <4>1. byHash[o] = k
        BY <1>3, <1>7, <1>8 DEF IInv, Index, OneSecretPerKey
      <4>2. \A i \in known \ {k} : mem[i].secret # o
        BY <1>8, <4>1 DEF IInv, TypeOK, Index, OneSecretPerKey
      <4>3. NoKey \notin Keys
        BY QuotaAssumption DEF QuotaAssumption
      <4> QED
        BY <1>4, <1>6, <1>8, <1>9, <3>2, <4>2, <4>3
    <3>3. CASE x # s /\ x # o
      <4>1. byHash'[x] = byHash[x]
        BY <1>9, <3>3
      <4>2. j # k => mem'[j] = mem[j]
        BY <1>6
      <4>3. byHash[x] # k
        BY <1>3, <1>7, <3>3 DEF IInv, Index, OneSecretPerKey
      <4> QED
        BY <1>4, <1>6, <3>3, <4>1, <4>2, <4>3 DEF IInv, Index, OneSecretPerKey
    <3> QED
      BY <3>1, <3>2, <3>3
  <2>2. \A j \in known : disk'[j].secret = mem'[j].secret
    BY <1>4, <1>6 DEF IInv, TypeOK, Index, OneSecretPerKey
  <2>3. /\ \A j \in known : mem'[j].secret \in issued'
        /\ \A j \in known \ {Default} : mem'[j].secret \notin DefaultSecrets
    BY <1>1, <1>3, <1>4, <1>6 DEF IInv, TypeOK, Index
  <2>4. mem'[Default].secret \in DefaultSecrets
    BY <1>6 DEF IInv, TypeOK, Index
  <2>5. \A j \in Keys \ known : mem'[j] = Blank
    BY <1>6 DEF IInv, Index
  <2> QED
    BY <1>2, <2>1, <2>2, <2>3, <2>4, <2>5 DEF Index, OneSecretPerKey
<1>12. Placed'
  BY <1>2 DEF IInv, Placed
<1>13. KeySlotsConserved'
  BY <1>2, <1>4, <1>6, SlotsFrame DEF IInv
<1>14. Counted'
  BY <1>2, HistoriesFrame
<1> QED
  BY <1>10, <1>11, <1>12, <1>13, <1>14 DEF IInv

\* The console lists the keys.
LEMMA ListKeeps ==
  ASSUME IInv, List
  PROVE  IInv'
<1>1. /\ mem' = [k \in Keys |-> IF k \in known THEN RollUsageWindows(mem[k], now)
                                ELSE mem[k]]
      /\ UNCHANGED <<now, known, byHash, disk, pc, req, issued, revoked,
                     tally, missed, crashes>>
  BY DEF List, histories
<1>2. ASSUME NEW k \in Keys
      PROVE  /\ RollUsageWindows(mem[k], now) \in KeyState
             /\ RollUsageWindows(mem[k], now).secret = mem[k].secret
             /\ RollUsageWindows(mem[k], now).active = mem[k].active
  BY Rolled DEF IInv, TypeOK
<1>3. /\ mem' \in [Keys -> KeyState]
      /\ \A k \in Keys : /\ mem'[k].secret = mem[k].secret
                         /\ mem'[k].active = mem[k].active
                         /\ k \notin known => mem'[k] = mem[k]
  BY <1>1, <1>2 DEF IInv, TypeOK
<1>4. TypeOK'
  BY <1>1, <1>3 DEF IInv, TypeOK
<1>5. Index'
  <2>1. \A k \in known : disk'[k].secret = mem[k].secret
    BY <1>1 DEF IInv, Index, OneSecretPerKey
  <2> QED
    BY <1>1, <1>3, <2>1, IndexFrame DEF IInv, TypeOK
<1>6. Placed'
  BY <1>1 DEF IInv, Placed
<1>7. KeySlotsConserved'
  BY <1>1, <1>3, SlotsFrame DEF IInv
<1>8. Counted'
  BY <1>1, HistoriesFrame
<1> QED
  BY <1>4, <1>5, <1>6, <1>7, <1>8 DEF IInv

\* The keys after a restart: the rows, with the default key that is configured then.
LEMMA Restarted ==
  ASSUME IInv, Restart
  PROVE  \E s \in DefaultSecrets :
           /\ mem' \in [Keys -> KeyState] /\ disk' \in [Keys -> RowState]
           /\ mem'[Default].secret = s /\ mem'[Default].enabled
           /\ disk'[Default].secret = s /\ disk'[Default].enabled
           /\ mem'[Default].quota = disk[Default].quota
           /\ disk'[Default].quota = disk[Default].quota
           /\ \A k \in Keys : mem'[k].active = 0 /\ mem'[k].minute = 0
           /\ \A k \in known :
                /\ mem'[k].date = disk[k].date /\ mem'[k].month = disk[k].month
                /\ mem'[k].dailyTokens = disk[k].dailyTokens
                /\ mem'[k].dailyCost = disk[k].dailyCost
                /\ mem'[k].monthlyCost = disk[k].monthlyCost
                /\ disk'[k].date = disk[k].date /\ disk'[k].month = disk[k].month
                /\ disk'[k].dailyTokens = disk[k].dailyTokens
                /\ disk'[k].dailyCost = disk[k].dailyCost
                /\ disk'[k].monthlyCost = disk[k].monthlyCost
           /\ \A k \in known \ {Default} :
                /\ mem'[k].secret = disk[k].secret /\ mem'[k].enabled = disk[k].enabled
                /\ mem'[k].quota = disk[k].quota
           /\ \A k \in Keys \ {Default} : disk'[k] = disk[k]
           /\ \A k \in Keys \ known : mem'[k] = Blank
           /\ byHash' = [x \in Secrets |->
                IF x = s THEN Default
                ELSE IF \E k \in known \ {Default} : disk[k].secret = x
                     THEN CHOOSE k \in known \ {Default} : disk[k].secret = x
                     ELSE NoKey]
           /\ issued' = issued \cup {s}
<1> DEFINE loaded == [k \in Keys |-> IF k \in known THEN Loaded(disk[k]) ELSE Blank]
<1>1. PICK s \in DefaultSecrets :
        LET default == [loaded[Default] EXCEPT !.secret = s, !.enabled = TRUE]
        IN  /\ mem' = [loaded EXCEPT ![Default] = default]
            /\ disk' = [disk EXCEPT ![Default] = Row(default)]
            /\ byHash' = [x \in Secrets |->
                 IF x = s THEN Default
                 ELSE IF \E k \in known \ {Default} : disk[k].secret = x
                      THEN CHOOSE k \in known \ {Default} : disk[k].secret = x
                      ELSE NoKey]
            /\ issued' = issued \cup {s}
  BY DEF Restart
<1> DEFINE default == [loaded[Default] EXCEPT !.secret = s, !.enabled = TRUE]
<1>2. s \in Secrets /\ Default \in Keys /\ Default \in known
  BY QuotaAssumption DEF QuotaAssumption, IInv, TypeOK
<1>3. ASSUME NEW k \in Keys
      PROVE  /\ loaded[k] \in KeyState
             /\ k \in known =>
                  /\ loaded[k].quota = disk[k].quota
                  /\ loaded[k].enabled = disk[k].enabled
                  /\ loaded[k].secret = disk[k].secret
                  /\ loaded[k].date = disk[k].date /\ loaded[k].month = disk[k].month
                  /\ loaded[k].dailyTokens = disk[k].dailyTokens
                  /\ loaded[k].dailyCost = disk[k].dailyCost
                  /\ loaded[k].monthlyCost = disk[k].monthlyCost
             /\ loaded[k].active = 0 /\ loaded[k].minute = 0
             /\ k \notin known => loaded[k] = Blank
  <2>1. CASE k \in known
    <3>1. loaded[k] = Loaded(disk[k])
      BY <2>1
    <3>2. disk[k] \in RowState
      BY DEF IInv, TypeOK
    <3> QED
      BY <2>1, <3>1, <3>2, LoadedRows
  <2>2. CASE k \notin known
    BY <2>2, Blanks
  <2> QED
    BY <2>1, <2>2
<1>4. loaded \in [Keys -> KeyState]
  <2>1. loaded = [k \in Keys |-> loaded[k]]
    OBVIOUS
  <2> QED
    BY <1>3, <2>1
<1>5. /\ mem' = [loaded EXCEPT ![Default] = default]
      /\ disk' = [disk EXCEPT ![Default] = Row(default)]
  BY <1>1
<1> HIDE DEF loaded
<1>6. /\ default \in KeyState /\ default.secret = s /\ default.enabled
      /\ default.quota = disk[Default].quota
      /\ default.active = 0 /\ default.minute = 0
      /\ default.date = disk[Default].date /\ default.month = disk[Default].month
      /\ default.dailyTokens = disk[Default].dailyTokens
      /\ default.dailyCost = disk[Default].dailyCost
      /\ default.monthlyCost = disk[Default].monthlyCost
  <2>1. loaded[Default] \in KeyState
    BY <1>2, <1>3
  <2>2. /\ default \in KeyState /\ default.secret = s /\ default.enabled
        /\ default.quota = loaded[Default].quota
        /\ default.active = loaded[Default].active
        /\ default.minute = loaded[Default].minute
        /\ default.date = loaded[Default].date /\ default.month = loaded[Default].month
        /\ default.dailyTokens = loaded[Default].dailyTokens
        /\ default.dailyCost = loaded[Default].dailyCost
        /\ default.monthlyCost = loaded[Default].monthlyCost
    BY <1>2, <2>1 DEF KeyState
  <2> QED
    BY <1>2, <1>3, <2>2
<1> HIDE DEF default
<1>7. /\ mem' \in [Keys -> KeyState] /\ mem'[Default] = default
      /\ \A k \in Keys \ {Default} : mem'[k] = loaded[k]
  BY <1>2, <1>4, <1>5, <1>6
<1>8. /\ Row(default) \in RowState /\ Row(default).secret = s /\ Row(default).enabled
      /\ Row(default).quota = default.quota
      /\ Row(default).date = default.date /\ Row(default).month = default.month
      /\ Row(default).dailyTokens = default.dailyTokens
      /\ Row(default).dailyCost = default.dailyCost
      /\ Row(default).monthlyCost = default.monthlyCost
  BY <1>6, Rows
<1>9. /\ disk' \in [Keys -> RowState] /\ disk'[Default] = Row(default)
      /\ \A k \in Keys \ {Default} : disk'[k] = disk[k]
  BY <1>2, <1>5, <1>8 DEF IInv, TypeOK
<1>10. known \subseteq Keys
  BY DEF IInv, TypeOK
<1>11. \A k \in Keys : mem'[k].active = 0 /\ mem'[k].minute = 0
  BY <1>3, <1>6, <1>7
<1>12. ASSUME NEW k \in known
       PROVE  /\ mem'[k].date = disk[k].date /\ mem'[k].month = disk[k].month
              /\ mem'[k].dailyTokens = disk[k].dailyTokens
              /\ mem'[k].dailyCost = disk[k].dailyCost
              /\ mem'[k].monthlyCost = disk[k].monthlyCost
              /\ disk'[k].date = disk[k].date /\ disk'[k].month = disk[k].month
              /\ disk'[k].dailyTokens = disk[k].dailyTokens
              /\ disk'[k].dailyCost = disk[k].dailyCost
              /\ disk'[k].monthlyCost = disk[k].monthlyCost
  <2>1. CASE k = Default
    BY <1>6, <1>7, <1>8, <1>9, <2>1
  <2>2. CASE k # Default
    BY <1>3, <1>7, <1>9, <1>10, <2>2
  <2> QED
    BY <2>1, <2>2
<1>13. \A k \in known \ {Default} :
         /\ mem'[k].secret = disk[k].secret /\ mem'[k].enabled = disk[k].enabled
         /\ mem'[k].quota = disk[k].quota
  BY <1>3, <1>7, <1>10
<1>14. \A k \in Keys \ known : mem'[k] = Blank
  BY <1>2, <1>3, <1>7
<1>15. /\ mem'[Default].secret = s /\ mem'[Default].enabled
       /\ disk'[Default].secret = s /\ disk'[Default].enabled
       /\ mem'[Default].quota = disk[Default].quota
       /\ disk'[Default].quota = disk[Default].quota
  BY <1>6, <1>7, <1>8, <1>9
<1>16. /\ byHash' = [x \in Secrets |->
            IF x = s THEN Default
            ELSE IF \E k \in known \ {Default} : disk[k].secret = x
                 THEN CHOOSE k \in known \ {Default} : disk[k].secret = x
                 ELSE NoKey]
       /\ issued' = issued \cup {s}
  BY <1>1
<1> QED
  BY <1>7, <1>9, <1>11, <1>12, <1>13, <1>14, <1>15, <1>16

\* The index after a restart lists the secrets in the rows, and the one configured.
LEMMA Reindexed ==
  ASSUME IInv, Restart
  PROVE  /\ byHash' \in [Secrets -> Keys \cup {NoKey}]
         /\ \A x \in Secrets, k \in Keys :
              byHash'[x] = k <=> k \in known /\ mem'[k].secret = x
<1>1. PICK s \in DefaultSecrets :
        /\ mem'[Default].secret = s
        /\ \A k \in known \ {Default} : mem'[k].secret = disk[k].secret
        /\ byHash' = [x \in Secrets |->
             IF x = s THEN Default
             ELSE IF \E k \in known \ {Default} : disk[k].secret = x
                  THEN CHOOSE k \in known \ {Default} : disk[k].secret = x
                  ELSE NoKey]
  BY Restarted
<1>2. s \in Secrets /\ Default \in known /\ known \subseteq Keys /\ NoKey \notin Keys
  BY QuotaAssumption DEF QuotaAssumption, IInv, TypeOK
<1>3. \A k \in known : disk[k].secret = mem[k].secret
  BY DEF IInv, Index, OneSecretPerKey
<1>4. \A k \in known \ {Default} : disk[k].secret # s
  BY <1>3 DEF IInv, Index
<1>5. ASSUME NEW x \in Secrets, NEW j \in known \ {Default},
             NEW k \in known \ {Default}, disk[j].secret = x, disk[k].secret = x
      PROVE  j = k
  <2>1. byHash[x] = j /\ byHash[x] = k
    BY <1>2, <1>3, <1>5 DEF IInv, Index, OneSecretPerKey
  <2> QED
    BY <2>1
<1>6. ASSUME NEW x \in Secrets
      PROVE  /\ x = s => byHash'[x] = Default
             /\ x # s /\ (\E k \in known \ {Default} : disk[k].secret = x) =>
                  /\ byHash'[x] \in known \ {Default}
                  /\ disk[byHash'[x]].secret = x
             /\ x # s /\ ~(\E k \in known \ {Default} : disk[k].secret = x) =>
                  byHash'[x] = NoKey
  BY <1>1
<1>7. byHash' \in [Secrets -> Keys \cup {NoKey}]
  <2>1. \A x \in Secrets : byHash'[x] \in Keys \cup {NoKey}
    BY <1>2, <1>6
  <2>2. byHash' = [x \in Secrets |-> byHash'[x]]
    BY <1>1
  <2> QED
    BY <2>1, <2>2
<1>8. ASSUME NEW x \in Secrets, NEW k \in Keys
      PROVE  byHash'[x] = k <=> k \in known /\ mem'[k].secret = x
  <2>1. CASE x = s
    BY <1>1, <1>2, <1>4, <1>6, <2>1
  <2>2. CASE x # s /\ \E j \in known \ {Default} : disk[j].secret = x
    <3>1. /\ byHash'[x] \in known \ {Default} /\ disk[byHash'[x]].secret = x
      BY <1>6, <2>2
    <3>2. ASSUME k \in known \ {Default}, disk[k].secret = x
          PROVE  byHash'[x] = k
      BY <1>5, <3>1, <3>2
    <3> QED
      BY <1>1, <2>2, <3>1, <3>2
  <2>3. CASE x # s /\ ~(\E j \in known \ {Default} : disk[j].secret = x)
    <3>1. byHash'[x] = NoKey
      BY <1>6, <2>3
    <3>2. k \in known => mem'[k].secret # x
      BY <1>1, <2>3
    <3> QED
      BY <1>2, <3>1, <3>2
  <2> QED
    BY <2>1, <2>2, <2>3
<1> QED
  BY <1>7, <1>8

\* Of the minute nothing is due after a restart; of the day and the month, what was.
LEMMA Missed ==
  ASSUME IInv, Restart
  PROVE  /\ tally' \in [Keys -> TallyState] /\ missed' \in [Keys -> TallyState]
         /\ Counted'
         /\ \A k \in Keys :
              /\ Due(k)'.requests = 0 /\ Due(k)'.tokens = 0
              /\ Due(k)'.dailyTokens = Due(k).dailyTokens
              /\ Due(k)'.dailyCost = Due(k).dailyCost
              /\ Due(k)'.monthlyCost = Due(k).monthlyCost
<1>1. /\ missed' = [k \in Keys |-> [missed[k] EXCEPT !.requests = tally[k].requests,
                                                     !.tokens = tally[k].tokens]]
      /\ tally' = tally
  BY DEF Restart
<1>2. ASSUME NEW a \in TallyState, NEW b \in TallyState, Fewer(a, b)
      PROVE  LET c == [a EXCEPT !.requests = b.requests, !.tokens = b.tokens] IN
               /\ c \in TallyState /\ Fewer(c, b)
               /\ c.requests = b.requests /\ c.tokens = b.tokens
               /\ c.dailyTokens = a.dailyTokens /\ c.dailyCost = a.dailyCost
               /\ c.monthlyCost = a.monthlyCost
  <2> DEFINE d == [a EXCEPT !.requests = b.requests]
             c == [d EXCEPT !.tokens = b.tokens]
  <2>1. /\ d \in TallyState /\ d.requests = b.requests /\ d.tokens = a.tokens
        /\ d.dailyTokens = a.dailyTokens /\ d.dailyCost = a.dailyCost
        /\ d.monthlyCost = a.monthlyCost
    BY DEF TallyState
  <2> HIDE DEF d
  <2>2. /\ c \in TallyState /\ c.requests = b.requests /\ c.tokens = b.tokens
        /\ c.dailyTokens = a.dailyTokens /\ c.dailyCost = a.dailyCost
        /\ c.monthlyCost = a.monthlyCost
    BY <2>1 DEF TallyState
  <2>3. Fewer(c, b)
    BY <1>2, <2>2 DEF Fewer, TallyState
  <2> USE DEF d
  <2> QED
    BY <2>2, <2>3
<1>3. ASSUME NEW k \in Keys
      PROVE  /\ tally[k] \in TallyState /\ missed'[k] \in TallyState
             /\ Fewer(missed'[k], tally[k])
             /\ missed'[k].requests = tally[k].requests
             /\ missed'[k].tokens = tally[k].tokens
             /\ missed'[k].dailyTokens = missed[k].dailyTokens
             /\ missed'[k].dailyCost = missed[k].dailyCost
             /\ missed'[k].monthlyCost = missed[k].monthlyCost
  <2>1. /\ tally[k] \in TallyState /\ missed[k] \in TallyState
        /\ Fewer(missed[k], tally[k])
    BY DEF IInv, TypeOK, Counted
  <2>2. missed'[k] = [missed[k] EXCEPT !.requests = tally[k].requests,
                                       !.tokens = tally[k].tokens]
    BY <1>1
  <2> DEFINE c == [missed[k] EXCEPT !.requests = tally[k].requests,
                                    !.tokens = tally[k].tokens]
  <2>3. /\ c \in TallyState /\ Fewer(c, tally[k])
        /\ c.requests = tally[k].requests /\ c.tokens = tally[k].tokens
        /\ c.dailyTokens = missed[k].dailyTokens /\ c.dailyCost = missed[k].dailyCost
        /\ c.monthlyCost = missed[k].monthlyCost
    BY <1>2, <2>1
  <2>4. missed'[k] = c
    BY <2>2
  <2> HIDE DEF c
  <2> QED
    BY <2>1, <2>3, <2>4
<1>4. missed' \in [Keys -> TallyState]
  BY <1>1, <1>3
<1>5. Counted'
  BY <1>1, <1>3 DEF Counted
<1>6. ASSUME NEW k \in Keys
      PROVE  /\ Due(k)'.requests = 0 /\ Due(k)'.tokens = 0
             /\ Due(k)'.dailyTokens = Due(k).dailyTokens
             /\ Due(k)'.dailyCost = Due(k).dailyCost
             /\ Due(k)'.monthlyCost = Due(k).monthlyCost
  <2>1. /\ Due(k)'.requests = tally[k].requests - missed'[k].requests
        /\ Due(k)'.tokens = tally[k].tokens - missed'[k].tokens
        /\ Due(k)'.dailyTokens = tally[k].dailyTokens - missed'[k].dailyTokens
        /\ Due(k)'.dailyCost = tally[k].dailyCost - missed'[k].dailyCost
        /\ Due(k)'.monthlyCost = tally[k].monthlyCost - missed'[k].monthlyCost
    BY <1>1 DEF Due
  <2>2. /\ Due(k).dailyTokens = tally[k].dailyTokens - missed[k].dailyTokens
        /\ Due(k).dailyCost = tally[k].dailyCost - missed[k].dailyCost
        /\ Due(k).monthlyCost = tally[k].monthlyCost - missed[k].monthlyCost
    BY DEF Due
  <2>3. tally[k].requests \in Nat /\ tally[k].tokens \in Nat
    BY <1>3 DEF TallyState
  <2> QED
    BY <1>3, <2>1, <2>2, <2>3
<1> QED
  BY <1>1, <1>4, <1>5, <1>6 DEF IInv, TypeOK

\* A restart loses the requests, and keeps what the rows say.
LEMMA RestartKeeps ==
  ASSUME IInv, Restart
  PROVE  IInv'
<1>1. /\ pc' = [r \in Requests |-> IF pc[r] = "idle" THEN "idle" ELSE "ended"]
      /\ req' = [r \in Requests |-> NoRequest]
      /\ missed' = [k \in Keys |-> [missed[k] EXCEPT !.requests = tally[k].requests,
                                                     !.tokens = tally[k].tokens]]
      /\ crashes' = crashes + 1
      /\ UNCHANGED <<now, known, revoked, tally>>
  BY DEF Restart
<1>2. PICK s \in DefaultSecrets :
        /\ mem' \in [Keys -> KeyState] /\ disk' \in [Keys -> RowState]
        /\ mem'[Default].secret = s /\ disk'[Default].secret = s
        /\ \A k \in Keys : mem'[k].active = 0
        /\ \A k \in known \ {Default} : mem'[k].secret = disk[k].secret
        /\ \A k \in Keys \ {Default} : disk'[k] = disk[k]
        /\ \A k \in Keys \ known : mem'[k] = Blank
        /\ issued' = issued \cup {s}
  BY Restarted
<1>3. /\ byHash' \in [Secrets -> Keys \cup {NoKey}]
      /\ \A x \in Secrets, k \in Keys :
           byHash'[x] = k <=> k \in known /\ mem'[k].secret = x
  BY Reindexed
<1>4. s \in Secrets /\ Default \in known /\ known \subseteq Keys
  BY QuotaAssumption DEF QuotaAssumption, IInv, TypeOK
<1>5. TypeOK'
  <2>1. tally' \in [Keys -> TallyState] /\ missed' \in [Keys -> TallyState]
    BY Missed
  <2>2. req' \in [Requests -> RequestState]
    BY <1>1, Requesting DEF IInv, TypeOK
  <2>3. pc' \in [Requests -> Holding \cup {"idle", "arrived", "ended"}]
    BY <1>1
  <2>4. now' \in Nat /\ crashes' \in Nat /\ revoked' \subseteq Keys
    <3>1. now' = now /\ revoked' = revoked /\ crashes' = crashes + 1
      BY <1>1
    <3>2. now \in Nat /\ revoked \subseteq Keys /\ crashes \in Nat
      BY DEF IInv, TypeOK
    <3> QED
      BY <3>1, <3>2
  <2>5. known' \subseteq Keys /\ Default \in known'
    BY <1>1, <1>4
  <2>6. issued' \subseteq Secrets
    BY <1>2, <1>4 DEF IInv, TypeOK
  <2>7. mem' \in [Keys -> KeyState] /\ disk' \in [Keys -> RowState]
    BY <1>2
  <2> QED
    BY <1>3, <2>1, <2>2, <2>3, <2>4, <2>5, <2>6, <2>7 DEF TypeOK
<1>6. Index'
  <2>1. \A k \in known : disk'[k].secret = mem'[k].secret
    BY <1>2, <1>4
  <2>2. \A k \in known \ {Default} : mem'[k].secret = mem[k].secret
    BY <1>2, <1>4 DEF IInv, Index, OneSecretPerKey
  <2>3. \A k \in known : mem'[k].secret \in issued'
    BY <1>2, <2>2 DEF IInv, Index
  <2>4. \A k \in known \ {Default} : mem'[k].secret \notin DefaultSecrets
    BY <2>2 DEF IInv, Index
  <2> QED
    BY <1>1, <1>2, <1>3, <2>1, <2>3, <2>4 DEF Index, OneSecretPerKey
<1>7. \A r \in Requests : pc'[r] \in {"idle", "ended"}
  BY <1>1
<1>8. Placed'
  BY <1>7 DEF Placed, Holding
<1>9. KeySlotsConserved'
  <2>1. \A k \in Keys : InFlight(k)' = {}
    BY <1>7 DEF InFlight, Holding
  <2> QED
    BY <1>2, <2>1, FS_EmptySet DEF KeySlotsConserved
<1> QED
  BY <1>5, <1>6, <1>8, <1>9, Missed DEF IInv

-----------------------------------------------------------------------------
(* Theorems for every configuration.                                       *)

\* Every step keeps the invariant.
LEMMA NextKeeps ==
  ASSUME IInv, [Next]_vars
  PROVE  IInv'
<1>1. ASSUME NEW r \in Requests, Arrive(r) \/ Handle(r)
      PROVE  IInv'
  BY <1>1, ArriveKeeps, UnauthorizedKeeps, RejectKeeps, AcquireKeeps, TurnAwayKeeps,
     AnswerKeeps, RecordUsageKeeps, ViewKeeps, ReleaseKeeps DEF Handle
<1>2. CASE UNCHANGED vars
  BY <1>2 DEF vars, IInv, TypeOK, Index, OneSecretPerKey, Placed, KeySlotsConserved, Counted,
              InFlight
<1> QED
  BY <1>1, <1>2, TickKeeps, CreateKeeps, UpdateKeeps, RotateKeeps, RevokeKeeps,
     ListKeeps, RestartKeeps DEF Next

\* The invariant.
LEMMA Invariance == Spec => []IInv
<1>1. IInv /\ [Next]_vars => IInv'
  BY NextKeeps
<1> QED
  BY <1>1, InitInvariant, PTL DEF Spec

\* Every variable keeps its type; the counter of a key never goes below zero.
THEOREM TypeCorrect == Spec => []TypeOK
<1>1. IInv => TypeOK
  BY DEF IInv
<1> QED
  BY <1>1, Invariance, PTL

\* The concurrency counter of a key counts its requests in flight, through updates,
\* rotations, revocations and restarts (Acquire, Release).
THEOREM SlotsConserved == Spec => []KeySlotsConserved
<1>1. IInv => KeySlotsConserved
  BY DEF IInv
<1> QED
  BY <1>1, Invariance, PTL

\* The index, memory and the rows agree on which secret is whose, whenever the process
\* dies and whatever PLATFORM_API_KEY is at the next start (add, Rotate, loadSQLite).
THEOREM SecretsAgree == Spec => []OneSecretPerKey
<1>1. IInv => OneSecretPerKey
  BY DEF IInv, Index
<1> QED
  BY <1>1, Invariance, PTL

\* A secret of a tenant that was rotated out authenticates nobody, ever (Rotate).
THEOREM RotatedOutForever == Spec => RotatedStaysDead
<1>1. ASSUME IInv, [Next]_vars
      PROVE  [\A s \in issued \ DefaultSecrets :
                byHash[s] = NoKey => byHash'[s] = NoKey]_vars
  <2> SUFFICES ASSUME NEW s \in issued \ DefaultSecrets, byHash[s] = NoKey, Next
               PROVE  byHash'[s] = NoKey
    BY <1>1
  <2>0. s \in Secrets /\ NoKey \notin Keys
    BY <1>1, QuotaAssumption DEF QuotaAssumption, IInv, TypeOK
  <2>1. CASE byHash' = byHash
    BY <2>1
  <2>2. CASE CreateWithQuota
    <3>1. PICK x \in FreshSecrets : \E k : byHash' = [byHash EXCEPT ![x] = k]
      BY <2>2 DEF CreateWithQuota
    <3> QED
      BY <1>1, <2>0, <3>1 DEF FreshSecrets, IInv, TypeOK
  <2>3. CASE Rotate
    <3>1. PICK x \in FreshSecrets :
            \E o, k : byHash' = [byHash EXCEPT ![o] = NoKey, ![x] = k]
      BY <2>3 DEF Rotate, SecretReplaced
    <3>2. x # s
      BY <3>1 DEF FreshSecrets
    <3> QED
      BY <1>1, <2>0, <3>1, <3>2 DEF IInv, TypeOK
  <2>4. CASE Restart
    <3>1. /\ byHash' \in [Secrets -> Keys \cup {NoKey}]
          /\ \A k \in Keys : byHash'[s] = k <=> k \in known /\ mem'[k].secret = s
      BY <1>1, <2>0, <2>4, Reindexed
    <3>2. PICK d \in DefaultSecrets :
            /\ mem'[Default].secret = d
            /\ \A k \in known \ {Default} : mem'[k].secret = disk[k].secret
      BY <1>1, <2>4, Restarted
    <3>3. \A k \in known : mem[k].secret # s
      BY <1>1, <2>0 DEF IInv, TypeOK, Index, OneSecretPerKey
    <3>4. \A k \in known \ {Default} : disk[k].secret # s
      BY <1>1, <3>3 DEF IInv, Index, OneSecretPerKey
    <3>5. \A k \in known : mem'[k].secret # s
      BY <3>2, <3>4
    <3> QED
      BY <2>0, <3>1, <3>5
  <2>5. \/ byHash' = byHash \/ CreateWithQuota \/ Rotate \/ Restart
    BY DEF Next, Tick, Arrive, Handle, Unauthorized, Reject, Acquire, TurnAway, Answer,
           RecordUsage, View, Release, Update, Revoke, List, store
  <2> QED
    BY <2>1, <2>2, <2>3, <2>4, <2>5
<1> QED
  BY <1>1, Invariance, PTL DEF Spec, RotatedStaysDead

-----------------------------------------------------------------------------
(* Revocation.                                                             *)

\* Looking at keys moves their windows on, and nothing else.
LEMMA Looking ==
  ASSUME IInv, (\E r \in Requests : Reject(r) \/ View(r)) \/ List
  PROVE  \E t \in Nat :
           /\ \/ t = now
              \/ \E r \in Requests : pc[r] \in {"arrived", "recorded"} /\ t = req[r].at
           /\ \A k \in Keys : mem'[k] \in {mem[k], RollUsageWindows(mem[k], t)}
           /\ UNCHANGED <<now, known, disk, revoked, tally, missed>>
<1>1. ASSUME NEW r \in Requests, NEW k \in Keys,
             mem' = [mem EXCEPT ![k] = RollUsageWindows(mem[k], req[r].at)]
      PROVE  /\ req[r].at \in Nat
             /\ \A j \in Keys : mem'[j] \in {mem[j], RollUsageWindows(mem[j], req[r].at)}
  <2>1. req[r].at \in Nat
    BY DEF IInv, TypeOK, RequestState
  <2> QED
    BY <1>1, <2>1, Rolling DEF IInv, TypeOK
<1>2. ASSUME NEW r \in Requests, Reject(r) \/ View(r)
      PROVE  \E k \in Keys : mem' = [mem EXCEPT ![k] = RollUsageWindows(mem[k], req[r].at)]
  <2>1. CASE Reject(r)
    BY <2>1 DEF Reject
  <2>2. CASE View(r)
    <3>1. req[r].key \in Keys
      BY <2>2 DEF View, IInv, TypeOK, Placed, Holding
    <3> QED
      BY <2>2, <3>1 DEF View
  <2> QED
    BY <1>2, <2>1, <2>2
<1>3. CASE List
  <2>1. \A k \in Keys : mem'[k] \in {mem[k], RollUsageWindows(mem[k], now)}
    BY <1>3 DEF List
  <2> QED
    BY <1>3, <2>1 DEF List, histories, IInv, TypeOK
<1>4. CASE \E r \in Requests : Reject(r) \/ View(r)
  <2>1. PICK r \in Requests : Reject(r) \/ View(r)
    BY <1>4
  <2>2. /\ pc[r] \in {"arrived", "recorded"}
        /\ UNCHANGED <<now, known, disk, revoked, tally, missed>>
    BY <2>1 DEF Reject, View, AtKey, histories
  <2> QED
    BY <1>1, <1>2, <2>1, <2>2
<1> QED
  BY <1>3, <1>4

\* A key whose revocation was confirmed is one of a tenant, and off in memory and in
\* its row.
Barred ==
  \A k \in revoked : k \in known \ {Default} /\ ~mem[k].enabled /\ ~disk[k].enabled

\* Steps that switch no key.
LEMMA BarredFrame ==
  ASSUME Barred, known \subseteq known', revoked' = revoked,
         \A k \in known \ {Default} :
           /\ mem'[k].enabled = mem[k].enabled
           /\ disk'[k].enabled \in {disk[k].enabled, mem[k].enabled}
  PROVE  Barred'
BY DEF Barred

\* What a request does switches no key.
LEMMA RequestBars ==
  ASSUME IInv, Barred, NEW r \in Requests, Arrive(r) \/ Handle(r)
  PROVE  Barred'
<1>0. known \subseteq Keys /\ \A k \in known : mem[k] \in KeyState /\ k \in Keys
  BY DEF IInv, TypeOK
<1>1. CASE Arrive(r) \/ Unauthorized(r) \/ TurnAway(r) \/ Answer(r)
  BY <1>1, BarredFrame DEF Arrive, Unauthorized, TurnAway, Answer, store
<1>2. CASE Reject(r) \/ View(r)
  <2>1. PICK t \in Nat : /\ \A k \in Keys : mem'[k] \in {mem[k], RollUsageWindows(mem[k], t)}
                         /\ UNCHANGED <<known, disk, revoked>>
    BY <1>2, Looking
  <2>2. \A k \in known : mem'[k].enabled = mem[k].enabled
    BY <1>0, <2>1, Rolled
  <2> QED
    BY <2>1, <2>2, BarredFrame
<1>3. CASE Acquire(r)
  <2>1. PICK k \in known :
          /\ mem'[k].enabled = RollUsageWindows(mem[k], req[r].at).enabled
          /\ \A j \in Keys \ {k} : mem'[j] = mem[j]
    BY <1>3, Acquired
  <2>2. req[r].at \in Nat
    BY DEF IInv, TypeOK, RequestState
  <2>3. mem'[k].enabled = mem[k].enabled
    BY <1>0, <2>1, <2>2, Rolled
  <2>4. \A j \in known : mem'[j].enabled = mem[j].enabled
    BY <1>0, <2>1, <2>3
  <2> QED
    BY <1>3, <2>4, BarredFrame DEF Acquire
<1>4. CASE RecordUsage(r)
  <2>1. PICK k \in known :
          /\ Charged(mem[k], r) \in KeyState /\ mem'[k] = Charged(mem[k], r)
          /\ disk'[k] = Row(Charged(mem[k], r)) \/ disk' = disk
          /\ \A j \in Keys \ {k} : mem'[j] = mem[j] /\ disk'[j] = disk[j]
    BY <1>4, Recorded
  <2>2. Charged(mem[k], r).enabled = mem[k].enabled
    BY <1>0, Charging DEF IInv, TypeOK
  <2>3. Row(Charged(mem[k], r)).enabled = mem[k].enabled
    BY <2>1, <2>2, Rows
  <2>4. \A j \in known : /\ mem'[j].enabled = mem[j].enabled
                         /\ disk'[j].enabled \in {disk[j].enabled, mem[j].enabled}
    BY <1>0, <2>1, <2>2, <2>3
  <2> QED
    BY <1>4, <2>4, BarredFrame DEF RecordUsage
<1>5. CASE Release(r)
  <2>1. PICK k \in known : /\ mem'[k].enabled = mem[k].enabled
                           /\ \A j \in Keys \ {k} : mem'[j] = mem[j]
    BY <1>5, Released
  <2>2. \A j \in known : mem'[j].enabled = mem[j].enabled
    BY <1>0, <2>1
  <2> QED
    BY <1>5, <2>2, BarredFrame DEF Release
<1> QED
  BY <1>1, <1>2, <1>3, <1>4, <1>5 DEF Handle

\* One key is switched.
LEMMA SwitchBars ==
  ASSUME IInv, Barred, NEW k \in known, NEW m \in KeyState, Put(k, m), known' = known,
         revoked' \subseteq revoked \cup {k},
         k \in revoked' => k # Default /\ ~m.enabled
  PROVE  Barred'
<1>1. /\ mem'[k] = m /\ \A j \in Keys \ {k} : mem'[j] = mem[j]
      /\ disk'[k].enabled = m.enabled /\ \A j \in Keys \ {k} : disk'[j] = disk[j]
  BY Writing DEF IInv, TypeOK
<1>2. known \subseteq Keys
  BY DEF IInv, TypeOK
<1> QED
  BY <1>1, <1>2 DEF Barred

\* An admin call switches one key, and says which way; a revocation that fails enables
\* the key again, so the theorem supposes that none does.
LEMMA AdminBars ==
  ASSUME IInv, Barred, "revoke" \notin Failing,
         CreateWithQuota \/ Update \/ Rotate \/ Revoke
  PROVE  Barred'
<1>0. known \subseteq Keys /\ TypeOK
  BY DEF IInv, TypeOK
<1>1. CASE CreateWithQuota
  <2>1. PICK k \in Keys \ known : /\ \E m : Put(k, m)
                                  /\ known' = known \cup {k} /\ revoked' = revoked
    BY <1>1 DEF CreateWithQuota
  <2>2. \A j \in known : mem'[j] = mem[j] /\ disk'[j] = disk[j]
    BY <1>0, <2>1 DEF TypeOK, Put
  <2> QED
    BY <2>1, <2>2, BarredFrame
<1>2. CASE Update
  <2>1. PICK k \in known, q \in Quotas, e \in BOOLEAN :
          /\ Put(k, [mem[k] EXCEPT !.quota = q, !.enabled = e \/ k = Default])
          /\ revoked' = IF e THEN revoked \ {k} ELSE revoked
    BY <1>2 DEF Update
  <2> DEFINE b == e \/ k = Default
             m == [mem[k] EXCEPT !.quota = q, !.enabled = b]
  <2>2. k \in Keys /\ q \in Quota /\ b \in BOOLEAN /\ mem[k] \in KeyState
    BY <1>0, QuotaAssumption DEF QuotaAssumption, TypeOK
  <2>3. k \in revoked' => k # Default /\ ~b
    BY <2>1 DEF Barred
  <2>4. Put(k, m)
    BY <2>1
  <2> HIDE DEF b
  <2>5. m \in KeyState /\ m.enabled = b
    BY <2>2 DEF KeyState
  <2> HIDE DEF m
  <2> QED
    BY <1>2, <2>1, <2>3, <2>4, <2>5, SwitchBars DEF Update
<1>3. CASE Rotate
  <2>1. PICK k \in known \ {Default}, s \in FreshSecrets :
          /\ Put(k, [mem[k] EXCEPT !.secret = s, !.enabled = TRUE])
          /\ revoked' = revoked \ {k}
    BY <1>3 DEF Rotate
  <2> DEFINE m == [mem[k] EXCEPT !.secret = s, !.enabled = TRUE]
  <2>2. m \in KeyState
    <3>1. mem[k] \in KeyState /\ s \in Secrets
      BY <1>0 DEF TypeOK, FreshSecrets
    <3> QED
      BY <3>1 DEF KeyState
  <2>3. Put(k, m)
    BY <2>1
  <2> HIDE DEF m
  <2> QED
    BY <1>3, <2>1, <2>2, <2>3, SwitchBars DEF Rotate
<1>4. CASE Revoke
  <2>1. PICK k \in known \ {Default}, e \in BOOLEAN :
          /\ Put(k, [mem[k] EXCEPT !.enabled = e]) /\ ~e
          /\ revoked' = revoked \cup {k}
    BY <1>4 DEF Revoke
  <2> DEFINE m == [mem[k] EXCEPT !.enabled = e]
  <2>2. m \in KeyState /\ m.enabled = e
    BY <1>0 DEF TypeOK, KeyState
  <2>3. Put(k, m)
    BY <2>1
  <2> HIDE DEF m
  <2> QED
    BY <1>4, <2>1, <2>2, <2>3, SwitchBars DEF Revoke
<1> QED
  BY <1>1, <1>2, <1>3, <1>4

\* A key whose revocation was confirmed stays out, over updates of other keys, requests in
\* flight, lost usage writes and crashes, until it is enabled on purpose; supposing that
\* no write of a revocation fails: one that does enables the key (Revoke).
THEOREM RevokedForever ==
  "revoke" \notin Failing => (Spec => []RevokedStaysOut)
<1> SUFFICES ASSUME "revoke" \notin Failing
             PROVE  Spec => []RevokedStaysOut
  OBVIOUS
<1>1. Init => Barred
  BY DEF Init, Barred
<1>2. IInv /\ Barred /\ [Next]_vars => Barred'
  <2> SUFFICES ASSUME IInv, Barred, [Next]_vars PROVE Barred'
    OBVIOUS
  <2>1. ASSUME NEW r \in Requests, Arrive(r) \/ Handle(r)
        PROVE  Barred'
    BY <2>1, RequestBars
  <2>2. CASE List
    <3>1. PICK t \in Nat :
            /\ \A k \in Keys : mem'[k] \in {mem[k], RollUsageWindows(mem[k], t)}
            /\ UNCHANGED <<known, disk, revoked>>
      BY <2>2, Looking
    <3>2. ASSUME NEW k \in known
          PROVE  mem'[k].enabled = mem[k].enabled
      <4>1. mem[k] \in KeyState /\ k \in Keys
        BY DEF IInv, TypeOK
      <4> QED
        BY <3>1, <4>1, Rolled
    <3> QED
      BY <3>1, <3>2, BarredFrame
  <2>3. CASE Restart
    <3>1. /\ \A k \in known \ {Default} : mem'[k].enabled = disk[k].enabled
          /\ \A k \in Keys \ {Default} : disk'[k] = disk[k]
      BY <2>3, Restarted
    <3>2. known' = known /\ revoked' = revoked /\ known \subseteq Keys
      BY <2>3 DEF Restart, IInv, TypeOK
    <3> QED
      BY <3>1, <3>2 DEF Barred
  <2>4. CASE Tick \/ UNCHANGED vars
    BY <2>4 DEF Tick, store, vars, Barred
  <2> QED
    BY <2>1, <2>2, <2>3, <2>4, AdminBars DEF Next
<1>3. Barred => RevokedStaysOut
  BY DEF Barred, RevokedStaysOut
<1> QED
  BY <1>1, <1>2, <1>3, Invariance, PTL DEF Spec

-----------------------------------------------------------------------------
(* Usage.                                                                  *)

\* A request that waits for the mutex read the clock at most MaxLag ticks ago.
Recent(t) == t <= now /\ now <= t + MaxLag
Prompt ==
  \A r \in Requests :
    pc[r] \in {"arrived", "stamped", "recorded"} => Recent(req[r].at)

\* Until all requests have read the clock in a window, nothing is due in it.
Young(a) ==
  /\ Minute(Earliest) # Minute(now) => a.requests = 0 /\ a.tokens = 0
  /\ Day(Earliest) # Day(now) => a.dailyTokens = 0 /\ a.dailyCost = 0
  /\ Month(Earliest) # Month(now) => a.monthlyCost = 0

\* A key, or a row, that is not ahead of the clock and has counted all that is due.
RowBooks(d, a) ==
  /\ d.date <= Day(now) /\ d.month <= Month(now)
  /\ a.dailyTokens <= Current(d.date, Day(now), d.dailyTokens)
  /\ a.dailyCost <= Current(d.date, Day(now), d.dailyCost)
  /\ a.monthlyCost <= Current(d.month, Month(now), d.monthlyCost)
Books(m, a) ==
  /\ m.minute <= Minute(now)
  /\ a.requests <= Current(m.minute, Minute(now), m.minuteRequests)
  /\ a.tokens <= Current(m.minute, Minute(now), m.minuteTokens)
  /\ RowBooks(m, a)

\* Every key and every row does.
Honest ==
  \A k \in Keys : /\ Young(Due(k)) /\ Books(mem[k], Due(k))
                  /\ k \in known => RowBooks(disk[k], Due(k))

\* The windows turn with the clock, and never back.
LEMMA Later ==
  ASSUME NEW s \in Nat, NEW t \in Nat, s <= t
  PROVE  /\ Minute(s) \in Nat /\ Minute(t) \in Nat /\ Minute(s) <= Minute(t)
         /\ Day(s) \in Nat /\ Day(t) \in Nat /\ Day(s) <= Day(t)
         /\ Month(s) \in Nat /\ Month(t) \in Nat /\ Month(s) <= Month(t)
<1>1. ASSUME NEW L \in Nat \ {0}, NEW a \in Nat, NEW b \in Nat, a <= b
      PROVE  a \div L <= b \div L
  BY <1>1
<1>2. s \div MinuteLen <= t \div MinuteLen
  BY <1>1, QuotaAssumption DEF QuotaAssumption
<1>3. s \div DayLen <= t \div DayLen
  BY <1>1, QuotaAssumption DEF QuotaAssumption
<1>4. (s + MonthShift) \div MonthLen <= (t + MonthShift) \div MonthLen
  <2>1. s + MonthShift \in Nat /\ t + MonthShift \in Nat /\ s + MonthShift <= t + MonthShift
    BY QuotaAssumption DEF QuotaAssumption
  <2> QED
    BY <1>1, <2>1, QuotaAssumption DEF QuotaAssumption
<1>5. /\ s \div MinuteLen \in Nat /\ t \div MinuteLen \in Nat
      /\ s \div DayLen \in Nat /\ t \div DayLen \in Nat
      /\ (s + MonthShift) \div MonthLen \in Nat /\ (t + MonthShift) \div MonthLen \in Nat
  BY QuotaAssumption DEF QuotaAssumption
<1> QED
  BY <1>2, <1>3, <1>4, <1>5 DEF Minute, Day, Month

\* No clock reading is earlier than the earliest.
LEMMA Earlier ==
  ASSUME now \in Nat
  PROVE  /\ Earliest \in Nat /\ Earliest <= now
         /\ \A t \in Nat : Recent(t) => Earliest <= t
<1>1. MaxLag \in Nat
  BY QuotaAssumption DEF QuotaAssumption
<1> QED
  BY <1>1 DEF Earliest, Recent

\* When the clock ticks, of what is due only what was done in the new windows is due.
LEMMA TickDue ==
  ASSUME IInv, Tick, NEW k \in Keys
  PROVE  LET a == Due(k)  n == now + 1 IN
           /\ Due(k)'.requests = Current(Minute(n), Minute(now), a.requests)
           /\ Due(k)'.tokens = Current(Minute(n), Minute(now), a.tokens)
           /\ Due(k)'.dailyTokens = Current(Day(n), Day(now), a.dailyTokens)
           /\ Due(k)'.dailyCost = Current(Day(n), Day(now), a.dailyCost)
           /\ Due(k)'.monthlyCost = Current(Month(n), Month(now), a.monthlyCost)
<1>1. /\ tally'[k] = Turned(tally[k], now + 1) /\ missed'[k] = Turned(missed[k], now + 1)
  BY DEF Tick
<1>2. tally[k] \in TallyState /\ missed[k] \in TallyState
  BY DEF IInv, TypeOK
<1>3. ASSUME NEW a \in TallyState
      PROVE  LET b == Turned(a, now + 1) IN
               /\ b.requests = Current(Minute(now + 1), Minute(now), a.requests)
               /\ b.tokens = Current(Minute(now + 1), Minute(now), a.tokens)
               /\ b.dailyTokens = Current(Day(now + 1), Day(now), a.dailyTokens)
               /\ b.dailyCost = Current(Day(now + 1), Day(now), a.dailyCost)
               /\ b.monthlyCost = Current(Month(now + 1), Month(now), a.monthlyCost)
  BY DEF Turned, Current
<1>4. ASSUME NEW m, NEW n, NEW x \in Nat, NEW y \in Nat
      PROVE  Current(m, n, x) - Current(m, n, y) = Current(m, n, x - y)
  BY DEF Current
<1>5. /\ Due(k)'.requests = tally'[k].requests - missed'[k].requests
      /\ Due(k)'.tokens = tally'[k].tokens - missed'[k].tokens
      /\ Due(k)'.dailyTokens = tally'[k].dailyTokens - missed'[k].dailyTokens
      /\ Due(k)'.dailyCost = tally'[k].dailyCost - missed'[k].dailyCost
      /\ Due(k)'.monthlyCost = tally'[k].monthlyCost - missed'[k].monthlyCost
  BY DEF Due
<1>6. /\ Due(k).requests = tally[k].requests - missed[k].requests
      /\ Due(k).tokens = tally[k].tokens - missed[k].tokens
      /\ Due(k).dailyTokens = tally[k].dailyTokens - missed[k].dailyTokens
      /\ Due(k).dailyCost = tally[k].dailyCost - missed[k].dailyCost
      /\ Due(k).monthlyCost = tally[k].monthlyCost - missed[k].monthlyCost
  BY DEF Due
<1>7. /\ tally[k].requests \in Nat /\ tally[k].tokens \in Nat
      /\ tally[k].dailyTokens \in Nat /\ tally[k].dailyCost \in Nat
      /\ tally[k].monthlyCost \in Nat
      /\ missed[k].requests \in Nat /\ missed[k].tokens \in Nat
      /\ missed[k].dailyTokens \in Nat /\ missed[k].dailyCost \in Nat
      /\ missed[k].monthlyCost \in Nat
  BY <1>2 DEF TallyState
<1> QED
  BY <1>1, <1>2, <1>3, <1>4, <1>5, <1>6, <1>7

\* Keys and rows have counted what is due in the new windows too.
LEMMA TurnedBooks ==
  ASSUME IInv, Honest, Tick
  PROVE  Honest'
<1> SUFFICES ASSUME NEW k \in Keys
             PROVE  /\ Young(Due(k))' /\ Books(mem[k], Due(k))'
                    /\ k \in known' => RowBooks(disk[k], Due(k))'
  BY DEF Honest
<1>1. now \in Nat /\ now' = now + 1 /\ UNCHANGED <<known, mem, disk>>
  BY DEF Tick, store, IInv, TypeOK
<1>2. /\ Minute(now) \in Nat /\ Minute(now') \in Nat /\ Minute(now) <= Minute(now')
      /\ Day(now) \in Nat /\ Day(now') \in Nat /\ Day(now) <= Day(now')
      /\ Month(now) \in Nat /\ Month(now') \in Nat /\ Month(now) <= Month(now')
  BY <1>1, Later
<1>3. /\ Minute(Earliest) \in Nat /\ Minute(Earliest') \in Nat
      /\ Minute(Earliest) <= Minute(Earliest') /\ Minute(Earliest') <= Minute(now')
      /\ Day(Earliest) \in Nat /\ Day(Earliest') \in Nat
      /\ Day(Earliest) <= Day(Earliest') /\ Day(Earliest') <= Day(now')
      /\ Month(Earliest) \in Nat /\ Month(Earliest') \in Nat
      /\ Month(Earliest) <= Month(Earliest') /\ Month(Earliest') <= Month(now')
  <2>1. MaxLag \in Nat
    BY QuotaAssumption DEF QuotaAssumption
  <2>2. /\ Earliest \in Nat /\ Earliest' \in Nat /\ Earliest <= Earliest'
        /\ Earliest' <= now' /\ now' \in Nat
    BY <1>1, <2>1 DEF Earliest
  <2> QED
    BY <2>2, Later
<1> DEFINE a == Due(k)
           b == Due(k)'
<1>4. /\ b.requests = Current(Minute(now'), Minute(now), a.requests)
      /\ b.tokens = Current(Minute(now'), Minute(now), a.tokens)
      /\ b.dailyTokens = Current(Day(now'), Day(now), a.dailyTokens)
      /\ b.dailyCost = Current(Day(now'), Day(now), a.dailyCost)
      /\ b.monthlyCost = Current(Month(now'), Month(now), a.monthlyCost)
  BY <1>1, TickDue
<1>5. Young(a) /\ Books(mem[k], a) /\ (k \in known => RowBooks(disk[k], a))
  BY DEF Honest
<1>6. /\ mem[k].minute \in Nat /\ mem[k].minuteRequests \in Nat
      /\ mem[k].minuteTokens \in Nat
      /\ mem[k].date \in Nat /\ mem[k].dailyTokens \in Nat /\ mem[k].dailyCost \in Nat
      /\ mem[k].month \in Nat /\ mem[k].monthlyCost \in Nat
      /\ disk[k].date \in Nat /\ disk[k].dailyTokens \in Nat
      /\ disk[k].dailyCost \in Nat
      /\ disk[k].month \in Nat /\ disk[k].monthlyCost \in Nat
  BY DEF IInv, TypeOK, KeyState, RowState
<1> HIDE DEF a, b
<1>7. /\ Minute(Earliest') # Minute(now') => b.requests = 0 /\ b.tokens = 0
      /\ Day(Earliest') # Day(now') => b.dailyTokens = 0 /\ b.dailyCost = 0
      /\ Month(Earliest') # Month(now') => b.monthlyCost = 0
  BY <1>2, <1>3, <1>4, <1>5 DEF Young, Current
<1>8. ASSUME NEW d, d.date \in Nat, d.dailyTokens \in Nat, d.dailyCost \in Nat,
             d.month \in Nat, d.monthlyCost \in Nat, RowBooks(d, a)
      PROVE  /\ d.date <= Day(now') /\ d.month <= Month(now')
             /\ b.dailyTokens <= Current(d.date, Day(now'), d.dailyTokens)
             /\ b.dailyCost <= Current(d.date, Day(now'), d.dailyCost)
             /\ b.monthlyCost <= Current(d.month, Month(now'), d.monthlyCost)
  BY <1>2, <1>4, <1>8 DEF RowBooks, Current
<1>9. /\ mem[k].minute <= Minute(now')
      /\ b.requests <= Current(mem[k].minute, Minute(now'), mem[k].minuteRequests)
      /\ b.tokens <= Current(mem[k].minute, Minute(now'), mem[k].minuteTokens)
  BY <1>2, <1>4, <1>5, <1>6 DEF Books, Current
<1> USE DEF b
<1>10. Young(Due(k))'
  BY <1>7 DEF Young
<1>11. Books(mem[k], Due(k))'
  BY <1>1, <1>5, <1>6, <1>8, <1>9 DEF Books, RowBooks
<1>12. k \in known' => RowBooks(disk[k], Due(k))'
  BY <1>1, <1>5, <1>6, <1>8 DEF RowBooks
<1> QED
  BY <1>10, <1>11, <1>12

\* A key whose windows were moved on, by a clock that may be late, shows all that is
\* due of it: where the clock is late for a window, nothing is.
LEMMA RolledBooks ==
  ASSUME now \in Nat, NEW t \in Nat, Recent(t), NEW m \in KeyState,
         NEW a \in TallyState, Young(a), Books(m, a)
  PROVE  LET w == RollUsageWindows(m, t) IN
           /\ w \in KeyState
           /\ a.requests <= w.minuteRequests /\ a.tokens <= w.minuteTokens
           /\ a.dailyTokens <= w.dailyTokens /\ a.dailyCost <= w.dailyCost
           /\ a.monthlyCost <= w.monthlyCost
           /\ w.minute <= Minute(now) /\ w.date <= Day(now) /\ w.month <= Month(now)
           /\ Minute(Earliest) = Minute(now) => w.minute = Minute(now)
           /\ Day(Earliest) = Day(now) => w.date = Day(now)
           /\ Month(Earliest) = Month(now) => w.month = Month(now)
           /\ Books(w, a)
<1> DEFINE w == RollUsageWindows(m, t)
<1>1. /\ w \in KeyState
      /\ w.minute = Minute(t) /\ w.date = Day(t) /\ w.month = Month(t)
      /\ w.minuteRequests = IF m.minute = Minute(t) THEN m.minuteRequests ELSE 0
      /\ w.minuteTokens = IF m.minute = Minute(t) THEN m.minuteTokens ELSE 0
      /\ w.dailyTokens = IF m.date = Day(t) THEN m.dailyTokens ELSE 0
      /\ w.dailyCost = IF m.date = Day(t) THEN m.dailyCost ELSE 0
      /\ w.monthlyCost = IF m.month = Month(t) THEN m.monthlyCost ELSE 0
  BY Rolled
<1> HIDE DEF w
<1>2. /\ Minute(Earliest) \in Nat /\ Minute(t) \in Nat /\ Minute(now) \in Nat
      /\ Minute(Earliest) <= Minute(t) /\ Minute(t) <= Minute(now)
      /\ Day(Earliest) \in Nat /\ Day(t) \in Nat /\ Day(now) \in Nat
      /\ Day(Earliest) <= Day(t) /\ Day(t) <= Day(now)
      /\ Month(Earliest) \in Nat /\ Month(t) \in Nat /\ Month(now) \in Nat
      /\ Month(Earliest) <= Month(t) /\ Month(t) <= Month(now)
  BY Earlier, Later DEF Recent
<1>3. /\ m.minuteRequests \in Nat /\ m.minuteTokens \in Nat /\ m.dailyTokens \in Nat
      /\ m.dailyCost \in Nat /\ m.monthlyCost \in Nat
  BY DEF KeyState
<1>4. /\ a.requests <= Current(w.minute, Minute(now), w.minuteRequests)
      /\ a.tokens <= Current(w.minute, Minute(now), w.minuteTokens)
      /\ a.requests <= w.minuteRequests /\ a.tokens <= w.minuteTokens
  BY <1>1, <1>2, <1>3 DEF Books, Young, Current
<1>5. /\ a.dailyTokens <= Current(w.date, Day(now), w.dailyTokens)
      /\ a.dailyCost <= Current(w.date, Day(now), w.dailyCost)
      /\ a.dailyTokens <= w.dailyTokens /\ a.dailyCost <= w.dailyCost
  BY <1>1, <1>2, <1>3 DEF Books, RowBooks, Young, Current
<1>6. /\ a.monthlyCost <= Current(w.month, Month(now), w.monthlyCost)
      /\ a.monthlyCost <= w.monthlyCost
  BY <1>1, <1>2, <1>3 DEF Books, RowBooks, Young, Current
<1>7. /\ w.minute <= Minute(now) /\ w.date <= Day(now) /\ w.month <= Month(now)
      /\ Minute(Earliest) = Minute(now) => w.minute = Minute(now)
      /\ Day(Earliest) = Day(now) => w.date = Day(now)
      /\ Month(Earliest) = Month(now) => w.month = Month(now)
  BY <1>1, <1>2
<1>8. Books(w, a)
  BY <1>4, <1>5, <1>6, <1>7 DEF Books, RowBooks
<1> USE DEF w
<1> QED
  BY <1>1, <1>4, <1>5, <1>6, <1>7, <1>8

\* A request that is booked in a key is booked where the store has to know of it.
LEMMA HappenedBooks ==
  ASSUME IInv, Honest, now' = now, NEW k \in known, NEW a \in TallyState, Happened(k, a),
         NEW w \in KeyState, NEW n,
         Books(w, Due(k)),
         Minute(Earliest) = Minute(now) => w.minute = Minute(now),
         Day(Earliest) = Day(now) => w.date = Day(now),
         Month(Earliest) = Month(now) => w.month = Month(now),
         n.minute = w.minute, n.date = w.date, n.month = w.month,
         n.minuteRequests = w.minuteRequests + a.requests,
         n.minuteTokens = w.minuteTokens + a.tokens,
         n.dailyTokens = w.dailyTokens + a.dailyTokens,
         n.dailyCost = w.dailyCost + a.dailyCost,
         n.monthlyCost = w.monthlyCost + a.monthlyCost
  PROVE  /\ Young(Due(k))'
         /\ Books(n, Due(k)')
         /\ \A d : /\ a.dailyTokens = 0 /\ a.dailyCost = 0 /\ a.monthlyCost = 0
                   /\ RowBooks(d, Due(k))
                   => RowBooks(d, Due(k)')
<1> DEFINE d == Due(k)
           b == Due(k)'
<1>1. k \in Keys /\ now \in Nat
  BY DEF IInv, TypeOK
<1>2. /\ b.requests = d.requests + Current(Minute(Earliest), Minute(now), a.requests)
      /\ b.tokens = d.tokens + Current(Minute(Earliest), Minute(now), a.tokens)
      /\ b.dailyTokens = d.dailyTokens + Current(Day(Earliest), Day(now), a.dailyTokens)
      /\ b.dailyCost = d.dailyCost + Current(Day(Earliest), Day(now), a.dailyCost)
      /\ b.monthlyCost = d.monthlyCost
                          + Current(Month(Earliest), Month(now), a.monthlyCost)
  BY <1>1, Happening
<1>3. Young(d) /\ d \in TallyState
  BY <1>1, DueCounts DEF Honest
<1>4. /\ d.requests \in Nat /\ d.tokens \in Nat /\ d.dailyTokens \in Nat
      /\ d.dailyCost \in Nat /\ d.monthlyCost \in Nat
      /\ a.requests \in Nat /\ a.tokens \in Nat /\ a.dailyTokens \in Nat
      /\ a.dailyCost \in Nat /\ a.monthlyCost \in Nat
      /\ w.minuteRequests \in Nat /\ w.minuteTokens \in Nat /\ w.dailyTokens \in Nat
      /\ w.dailyCost \in Nat /\ w.monthlyCost \in Nat
  BY <1>3 DEF TallyState, KeyState
<1> HIDE DEF d, b
<1>5. /\ Minute(Earliest) # Minute(now) => b.requests = 0 /\ b.tokens = 0
      /\ Day(Earliest) # Day(now) => b.dailyTokens = 0 /\ b.dailyCost = 0
      /\ Month(Earliest) # Month(now) => b.monthlyCost = 0
  BY <1>2, <1>3 DEF Young, Current
<1>6. Books(w, d)
  BY DEF d
<1>7. /\ n.minute <= Minute(now)
      /\ b.requests <= Current(n.minute, Minute(now), n.minuteRequests)
      /\ b.tokens <= Current(n.minute, Minute(now), n.minuteTokens)
  BY <1>2, <1>4, <1>5, <1>6 DEF Books, Current
<1>8. /\ n.date <= Day(now)
      /\ b.dailyTokens <= Current(n.date, Day(now), n.dailyTokens)
      /\ b.dailyCost <= Current(n.date, Day(now), n.dailyCost)
  BY <1>2, <1>4, <1>5, <1>6 DEF Books, RowBooks, Current
<1>9. /\ n.month <= Month(now)
      /\ b.monthlyCost <= Current(n.month, Month(now), n.monthlyCost)
  BY <1>2, <1>4, <1>5, <1>6 DEF Books, RowBooks, Current
<1>10. Books(n, b)
  BY <1>7, <1>8, <1>9 DEF Books, RowBooks
<1>11. ASSUME NEW e, a.dailyTokens = 0, a.dailyCost = 0, a.monthlyCost = 0,
              RowBooks(e, d)
       PROVE  RowBooks(e, b)
  <2>1. /\ b.dailyTokens = d.dailyTokens /\ b.dailyCost = d.dailyCost
        /\ b.monthlyCost = d.monthlyCost
    BY <1>2, <1>4, <1>11 DEF Current
  <2> QED
    BY <1>11, <2>1 DEF RowBooks
<1>12. Earliest' = Earliest
  BY DEF Earliest
<1> USE DEF d, b
<1>13. Young(Due(k))'
  BY <1>5, <1>12 DEF Young
<1> QED
  BY <1>10, <1>11, <1>13

\* Keys with the same windows and counters, and the row of a key, tell the same.
LEMMA SameBooks ==
  ASSUME NEW m, NEW n, NEW a, Books(m, a), SameCounters(m, n)
  PROVE  Books(n, a)
BY DEF Books, RowBooks, SameCounters

\* A row that is written tells what its key tells.
LEMMA RowsBook ==
  ASSUME NEW m \in KeyState, NEW a, Books(m, a)
  PROVE  RowBooks(Row(m), a)
<1> DEFINE d == Row(m)
<1>1. /\ d.date = m.date /\ d.month = m.month /\ d.dailyTokens = m.dailyTokens
      /\ d.dailyCost = m.dailyCost /\ d.monthlyCost = m.monthlyCost
  BY Rows
<1> HIDE DEF d
<1>2. RowBooks(d, a)
  BY <1>1 DEF Books, RowBooks
<1> QED
  BY <1>2 DEF d

\* Steps of one tick that do nothing the histories tell of.
LEMMA HonestFrame ==
  ASSUME Honest, UNCHANGED <<now, tally, missed>>,
         \A k \in Keys : Books(mem'[k], Due(k)),
         \A k \in known' : RowBooks(disk'[k], Due(k))
  PROVE  Honest'
<1>1. \A k : Due(k)' = Due(k)
  BY HistoriesFrame
<1>2. Earliest' = Earliest
  BY DEF Earliest
<1> QED
  BY <1>1, <1>2 DEF Honest, Young, Books, RowBooks

\* Steps that book something for one key.
LEMMA HonestStep ==
  ASSUME IInv, Honest, UNCHANGED <<now, known>>, NEW k \in known,
         Young(Due(k))', Books(mem'[k], Due(k)'), RowBooks(disk'[k], Due(k)'),
         \A j \in Keys \ {k} : /\ mem'[j] = mem[j] /\ disk'[j] = disk[j]
                              /\ Due(j)' = Due(j)
  PROVE  Honest'
<1>1. Earliest' = Earliest
  BY DEF Earliest
<1> QED
  BY <1>1 DEF Honest, Young, Books, RowBooks

\* What a request does keeps the books.
LEMMA RequestBooks ==
  ASSUME IInv, Prompt, Honest, "usage" \notin Failing,
         NEW r \in Requests, Arrive(r) \/ Handle(r)
  PROVE  Honest'
<1>0. /\ known \subseteq Keys /\ now \in Nat /\ req \in [Requests -> RequestState]
      /\ \A k \in Keys : /\ mem[k] \in KeyState /\ Due(k) \in TallyState
                         /\ Young(Due(k)) /\ Books(mem[k], Due(k))
      /\ \A k \in known : RowBooks(disk[k], Due(k))
      /\ \A x \in Requests : req[x].at \in Nat
  BY DueCounts DEF IInv, TypeOK, RequestState, Honest
<1>1. CASE Arrive(r) \/ Unauthorized(r) \/ TurnAway(r) \/ Answer(r)
  <2>1. UNCHANGED <<now, known, mem, disk, tally, missed>>
    BY <1>1 DEF Arrive, Unauthorized, TurnAway, Answer, store, histories
  <2> QED
    BY <1>0, <2>1, HonestFrame
<1>2. CASE Reject(r) \/ View(r)
  <2>1. PICK t \in Nat :
          /\ \/ t = now
             \/ \E x \in Requests : pc[x] \in {"arrived", "recorded"} /\ t = req[x].at
          /\ \A k \in Keys : mem'[k] \in {mem[k], RollUsageWindows(mem[k], t)}
          /\ UNCHANGED <<now, known, disk, tally, missed>>
    BY <1>2, Looking
  <2>2. Recent(t)
    <3>1. Recent(now)
      BY <1>0, QuotaAssumption DEF Recent, QuotaAssumption
    <3> QED
      BY <2>1, <3>1 DEF Prompt
  <2>3. \A k \in Keys : Books(mem'[k], Due(k))
    BY <1>0, <2>1, <2>2, RolledBooks
  <2> QED
    BY <1>0, <2>1, <2>3, HonestFrame
<1>3. CASE Acquire(r)
  <2> DEFINE a == Did(1, NoUsage)
             w(k) == RollUsageWindows(mem[k], req[r].at)
  <2>1. PICK k \in known :
          /\ \A j \in Keys \ {k} : mem'[j] = mem[j]
          /\ mem'[k].minute = w(k).minute /\ mem'[k].minuteTokens = w(k).minuteTokens
          /\ mem'[k].minuteRequests = w(k).minuteRequests + 1
          /\ mem'[k].date = w(k).date /\ mem'[k].dailyTokens = w(k).dailyTokens
          /\ mem'[k].dailyCost = w(k).dailyCost
          /\ mem'[k].month = w(k).month /\ mem'[k].monthlyCost = w(k).monthlyCost
          /\ a \in TallyState /\ Happened(k, a)
    BY <1>3, Acquired
  <2>2. Recent(req[r].at) /\ UNCHANGED <<now, known, disk>>
    BY <1>3 DEF Acquire, AtKey, Prompt
  <2>3. /\ w(k) \in KeyState /\ Books(w(k), Due(k))
        /\ Minute(Earliest) = Minute(now) => w(k).minute = Minute(now)
        /\ Day(Earliest) = Day(now) => w(k).date = Day(now)
        /\ Month(Earliest) = Month(now) => w(k).month = Month(now)
    BY <1>0, <2>2, RolledBooks
  <2>4. /\ a.requests = 1 /\ a.tokens = 0 /\ a.dailyTokens = 0 /\ a.dailyCost = 0
        /\ a.monthlyCost = 0
    BY Doing DEF NoUsage
  <2> HIDE DEF a, w
  <2>5. /\ mem'[k].minuteRequests = w(k).minuteRequests + a.requests
        /\ mem'[k].minuteTokens = w(k).minuteTokens + a.tokens
        /\ mem'[k].dailyTokens = w(k).dailyTokens + a.dailyTokens
        /\ mem'[k].dailyCost = w(k).dailyCost + a.dailyCost
        /\ mem'[k].monthlyCost = w(k).monthlyCost + a.monthlyCost
    <3>1. /\ w(k).minuteTokens \in Nat /\ w(k).dailyTokens \in Nat
          /\ w(k).dailyCost \in Nat /\ w(k).monthlyCost \in Nat
      BY <2>3 DEF KeyState
    <3> QED
      BY <2>1, <2>4, <3>1
  <2>6. /\ Young(Due(k))' /\ Books(mem'[k], Due(k)')
        /\ RowBooks(disk[k], Due(k)) => RowBooks(disk[k], Due(k)')
    BY <2>1, <2>2, <2>3, <2>4, <2>5, HappenedBooks
  <2>7. \A j \in Keys \ {k} : Due(j)' = Due(j)
    BY <1>0, <2>1, Happening
  <2> QED
    BY <1>0, <2>1, <2>2, <2>6, <2>7, HonestStep
<1>4. CASE RecordUsage(r)
  <2> DEFINE a == Did(0, req[r].usage)
             w(k) == RollUsageWindows(mem[k], req[r].at)
             n(k) == Charged(mem[k], r)
  <2>1. PICK k \in known :
          /\ n(k) \in KeyState /\ mem'[k] = n(k) /\ disk'[k] = Row(n(k))
          /\ a \in TallyState /\ Happened(k, a)
          /\ \A j \in Keys \ {k} : mem'[j] = mem[j] /\ disk'[j] = disk[j]
    BY <1>4, Recorded
  <2>2. Recent(req[r].at) /\ UNCHANGED <<now, known>>
    BY <1>4 DEF RecordUsage, Prompt
  <2>3. /\ w(k) \in KeyState /\ Books(w(k), Due(k))
        /\ Minute(Earliest) = Minute(now) => w(k).minute = Minute(now)
        /\ Day(Earliest) = Day(now) => w(k).date = Day(now)
        /\ Month(Earliest) = Month(now) => w(k).month = Month(now)
    BY <1>0, <2>2, RolledBooks
  <2>4. /\ a.requests = 0 /\ a.tokens = req[r].usage.tokens
        /\ a.dailyTokens = req[r].usage.tokens /\ a.dailyCost = req[r].usage.cost
        /\ a.monthlyCost = req[r].usage.cost
    BY <1>0, Doing DEF RequestState
  <2>5. /\ n(k).minute = w(k).minute /\ n(k).date = w(k).date /\ n(k).month = w(k).month
        /\ n(k).minuteRequests = w(k).minuteRequests
        /\ n(k).minuteTokens = w(k).minuteTokens + req[r].usage.tokens
        /\ n(k).dailyTokens = w(k).dailyTokens + req[r].usage.tokens
        /\ n(k).dailyCost = w(k).dailyCost + req[r].usage.cost
        /\ n(k).monthlyCost = w(k).monthlyCost + req[r].usage.cost
    BY <1>0, Charging
  <2> HIDE DEF a, w, n
  <2>6. n(k).minuteRequests = w(k).minuteRequests + a.requests
    <3>1. w(k).minuteRequests \in Nat
      BY <2>3 DEF KeyState
    <3> QED
      BY <2>4, <2>5, <3>1
  <2>7. Young(Due(k))' /\ Books(n(k), Due(k)')
    BY <2>1, <2>2, <2>3, <2>4, <2>5, <2>6, HappenedBooks
  <2>8. RowBooks(disk'[k], Due(k)')
    BY <2>1, <2>7, RowsBook
  <2>9. \A j \in Keys \ {k} : Due(j)' = Due(j)
    BY <1>0, <2>1, Happening
  <2> QED
    BY <1>0, <2>1, <2>2, <2>7, <2>8, <2>9, HonestStep
<1>5. CASE Release(r)
  <2>1. PICK k \in known : /\ SameCounters(mem[k], mem'[k])
                           /\ \A j \in Keys \ {k} : mem'[j] = mem[j]
    BY <1>5, Released
  <2>2. \A j \in Keys : Books(mem'[j], Due(j))
    BY <1>0, <2>1, SameBooks
  <2>3. UNCHANGED <<now, known, disk, tally, missed>>
    BY <1>5 DEF Release, histories
  <2> QED
    BY <1>0, <2>2, <2>3, HonestFrame
<1> QED
  BY <1>1, <1>2, <1>3, <1>4, <1>5 DEF Handle

\* One key is written and keeps its counters.
LEMMA SwitchBooks ==
  ASSUME IInv, Honest, NEW k \in known, NEW m \in KeyState, Put(k, m) \/ PutInMemory(k, m),
         SameCounters(mem[k], m), UNCHANGED <<now, known, tally, missed>>
  PROVE  Honest'
<1>1. k \in Keys /\ known \subseteq Keys
  BY DEF IInv, TypeOK
<1>2. /\ mem'[k] = m /\ \A j \in Keys \ {k} : mem'[j] = mem[j]
      /\ disk'[k] = Row(m) \/ disk' = disk
      /\ \A j \in Keys \ {k} : disk'[j] = disk[j]
  BY <1>1, Writing DEF IInv
<1>3. Books(m, Due(k))
  BY <1>1, SameBooks DEF Honest
<1>4. RowBooks(Row(m), Due(k))
  BY <1>3, RowsBook
<1> QED
  BY <1>1, <1>2, <1>3, <1>4, HonestFrame DEF Honest

\* The admin calls keep the books.
LEMMA AdminBooks ==
  ASSUME IInv, Honest, CreateWithQuota \/ Update \/ Rotate \/ Revoke
  PROVE  Honest'
<1>0. /\ known \subseteq Keys /\ TypeOK
      /\ \A k \in known : mem[k] \in KeyState
  BY DEF IInv, TypeOK
<1>1. CASE CreateWithQuota
  <2>1. PICK k \in Keys \ known, s \in FreshSecrets, q \in Quotas :
          /\ Put(k, [Blank EXCEPT !.secret = s, !.quota = q])
          /\ known' = known \cup {k} /\ UNCHANGED <<now, tally, missed>>
    BY <1>1 DEF CreateWithQuota, histories
  <2> DEFINE m == [Blank EXCEPT !.secret = s, !.quota = q]
  <2>2. q \in Quota /\ s \in Secrets
    BY QuotaAssumption DEF QuotaAssumption, FreshSecrets
  <2>3. m \in KeyState /\ SameCounters(Blank, m)
    BY <2>2, Blanks DEF KeyState, SameCounters
  <2>4. Put(k, m)
    BY <2>1
  <2> HIDE DEF m
  <2>5. /\ mem'[k] = m /\ \A j \in Keys \ {k} : mem'[j] = mem[j]
        /\ disk'[k] = Row(m) /\ \A j \in Keys \ {k} : disk'[j] = disk[j]
    BY <1>0, <2>3, <2>4, Writing
  <2>6. mem[k] = Blank
    BY DEF IInv, Index
  <2>7. Books(m, Due(k))
    BY <2>3, <2>6, SameBooks DEF Honest
  <2>8. RowBooks(Row(m), Due(k))
    BY <2>3, <2>7, RowsBook
  <2> QED
    BY <1>0, <2>1, <2>5, <2>7, <2>8, HonestFrame DEF Honest
<1>2. CASE Update
  <2>1. PICK k \in known, q \in Quotas, b \in BOOLEAN :
          Put(k, [mem[k] EXCEPT !.quota = q, !.enabled = b])
    BY <1>2 DEF Update
  <2> DEFINE m == [mem[k] EXCEPT !.quota = q, !.enabled = b]
  <2>2. q \in Quota
    BY QuotaAssumption DEF QuotaAssumption
  <2>3. m \in KeyState /\ SameCounters(mem[k], m)
    BY <1>0, <2>2 DEF KeyState, SameCounters
  <2>4. Put(k, m)
    BY <2>1
  <2> HIDE DEF m
  <2> QED
    BY <1>2, <2>3, <2>4, SwitchBooks DEF Update, histories
<1>3. CASE Rotate
  <2>1. PICK k \in known, s \in FreshSecrets :
          Put(k, [mem[k] EXCEPT !.secret = s, !.enabled = TRUE])
    BY <1>3 DEF Rotate
  <2> DEFINE m == [mem[k] EXCEPT !.secret = s, !.enabled = TRUE]
  <2>2. s \in Secrets
    BY DEF FreshSecrets
  <2>3. m \in KeyState /\ SameCounters(mem[k], m)
    BY <1>0, <2>2 DEF KeyState, SameCounters
  <2>4. Put(k, m)
    BY <2>1
  <2> HIDE DEF m
  <2> QED
    BY <1>3, <2>3, <2>4, SwitchBooks DEF Rotate, histories
<1>4. CASE Revoke
  <2>1. PICK k \in known, e \in BOOLEAN :
          \/ Put(k, [mem[k] EXCEPT !.enabled = e])
          \/ PutInMemory(k, [mem[k] EXCEPT !.enabled = e])
    BY <1>4 DEF Revoke
  <2> DEFINE m == [mem[k] EXCEPT !.enabled = e]
  <2>2. m \in KeyState /\ SameCounters(mem[k], m)
    BY <1>0 DEF KeyState, SameCounters
  <2>3. Put(k, m) \/ PutInMemory(k, m)
    BY <2>1
  <2> HIDE DEF m
  <2> QED
    BY <1>4, <2>2, <2>3, SwitchBooks DEF Revoke, histories
<1> QED
  BY <1>1, <1>2, <1>3, <1>4

\* After a crash the rows tell the day and the month; of the minute nothing is left in
\* memory, and nothing is due.
LEMMA RestartBooks ==
  ASSUME IInv, Honest, Restart
  PROVE  Honest'
<1>0. /\ known \subseteq Keys /\ now \in Nat
      /\ \A k \in Keys : Young(Due(k)) /\ Books(mem[k], Due(k))
      /\ \A k \in known : RowBooks(disk[k], Due(k))
      /\ \A k \in Keys \ known : mem[k] = Blank
  BY DEF IInv, TypeOK, Honest, Index
<1>1. /\ \A k \in Keys : mem'[k].minute = 0
      /\ \A k \in known :
           /\ mem'[k].date = disk[k].date /\ mem'[k].month = disk[k].month
           /\ mem'[k].dailyTokens = disk[k].dailyTokens
           /\ mem'[k].dailyCost = disk[k].dailyCost
           /\ mem'[k].monthlyCost = disk[k].monthlyCost
           /\ disk'[k].date = disk[k].date /\ disk'[k].month = disk[k].month
           /\ disk'[k].dailyTokens = disk[k].dailyTokens
           /\ disk'[k].dailyCost = disk[k].dailyCost
           /\ disk'[k].monthlyCost = disk[k].monthlyCost
      /\ \A k \in Keys \ known : mem'[k] = Blank
  BY Restarted
<1>2. \A k \in Keys :
        /\ Due(k)'.requests = 0 /\ Due(k)'.tokens = 0
        /\ Due(k)'.dailyTokens = Due(k).dailyTokens
        /\ Due(k)'.dailyCost = Due(k).dailyCost
        /\ Due(k)'.monthlyCost = Due(k).monthlyCost
  BY Missed
<1>3. now' = now /\ known' = known /\ Earliest' = Earliest
  BY DEF Restart, Earliest
<1>4. Minute(now) \in Nat /\ Minute(now) # 0
  BY <1>0, Numbers
<1>5. ASSUME NEW k \in Keys
      PROVE  Young(Due(k))'
  BY <1>0, <1>2, <1>3 DEF Young
<1>6. ASSUME NEW k \in Keys, NEW d, NEW e, RowBooks(d, Due(k)),
             e.date = d.date, e.month = d.month, e.dailyTokens = d.dailyTokens,
             e.dailyCost = d.dailyCost, e.monthlyCost = d.monthlyCost
      PROVE  RowBooks(e, Due(k)')
  BY <1>2, <1>6 DEF RowBooks
<1>7. ASSUME NEW k \in Keys, NEW m, RowBooks(m, Due(k)'), m.minute = 0
      PROVE  Books(m, Due(k)')
  BY <1>2, <1>4, <1>7 DEF Books, Current
<1>8. ASSUME NEW k \in known
      PROVE  Books(mem'[k], Due(k)') /\ RowBooks(disk'[k], Due(k)')
  <2>1. k \in Keys /\ RowBooks(disk[k], Due(k))
    BY <1>0
  <2>2. RowBooks(mem'[k], Due(k)') /\ RowBooks(disk'[k], Due(k)')
    BY <1>1, <1>6, <2>1
  <2> QED
    BY <1>1, <1>7, <2>1, <2>2
<1>9. ASSUME NEW k \in Keys \ known
      PROVE  Books(mem'[k], Due(k)')
  <2>1. mem'[k] = mem[k] /\ RowBooks(mem[k], Due(k))
    BY <1>0, <1>1 DEF Books
  <2>2. RowBooks(mem'[k], Due(k)')
    BY <1>6, <2>1
  <2> QED
    BY <1>1, <1>7, <2>2
<1> QED
  BY <1>0, <1>3, <1>5, <1>8, <1>9 DEF Honest, Books, RowBooks

\* Every step keeps the books, when requests are prompt and usage is written.
LEMMA NextBooks ==
  ASSUME IInv, Prompt, Honest, "usage" \notin Failing, [Next]_vars
  PROVE  Honest'
<1>1. ASSUME NEW r \in Requests, Arrive(r) \/ Handle(r)
      PROVE  Honest'
  BY <1>1, RequestBooks
<1>2. CASE List
  <2>1. mem' = [k \in Keys |-> IF k \in known THEN RollUsageWindows(mem[k], now)
                               ELSE mem[k]]
        /\ UNCHANGED <<now, known, disk, tally, missed>>
    BY <1>2 DEF List, histories
  <2>2. Recent(now) /\ now \in Nat
    BY QuotaAssumption DEF QuotaAssumption, Recent, IInv, TypeOK
  <2>3. ASSUME NEW k \in Keys
        PROVE  Books(mem'[k], Due(k))
    <3>1. /\ mem[k] \in KeyState /\ Due(k) \in TallyState
          /\ Young(Due(k)) /\ Books(mem[k], Due(k))
      BY DueCounts DEF IInv, TypeOK, Honest
    <3>2. Books(RollUsageWindows(mem[k], now), Due(k))
      BY <2>2, <3>1, RolledBooks
    <3> QED
      BY <2>1, <3>1, <3>2
  <2>4. \A k \in known : k \in Keys /\ RowBooks(disk[k], Due(k))
    BY DEF IInv, TypeOK, Honest
  <2> QED
    BY <2>1, <2>3, <2>4, HonestFrame
<1>3. CASE Tick
  BY <1>3, TurnedBooks
<1>4. CASE UNCHANGED vars
  <2>1. UNCHANGED <<now, known, mem, disk, tally, missed>>
    BY <1>4 DEF vars
  <2>2. /\ \A k \in Keys : Books(mem[k], Due(k))
        /\ \A k \in known : k \in Keys /\ RowBooks(disk[k], Due(k))
    BY DEF IInv, TypeOK, Honest
  <2> QED
    BY <2>1, <2>2, HonestFrame
<1> QED
  BY <1>1, <1>2, <1>3, <1>4, AdminBooks, RestartBooks DEF Next

\* A request gets the mutex within MaxLag ticks of its reading of the clock.
LEMMA NextPrompt ==
  ASSUME IInv, Prompt, [Next]_vars
  PROVE  Prompt'
<1>0. /\ now \in Nat /\ pc \in [Requests -> Holding \cup {"idle", "arrived", "ended"}]
      /\ req \in [Requests -> RequestState] /\ Recent(now)
      /\ \A r \in Requests : req[r].at \in Nat
  BY QuotaAssumption DEF QuotaAssumption, IInv, TypeOK, RequestState, Recent
<1>1. CASE Tick
  <2>1. UNCHANGED <<pc, req>> /\ now' = now + 1
    BY <1>1 DEF Tick
  <2>2. ASSUME NEW r \in Requests, pc[r] \in {"arrived", "stamped", "recorded"}
        PROVE  Recent(req[r].at)'
    <3>1. now < req[r].at + MaxLag /\ Recent(req[r].at) /\ MaxLag \in Nat
      BY <1>1, <2>2, QuotaAssumption DEF Tick, Prompt, QuotaAssumption
    <3> QED
      BY <1>0, <2>1, <3>1 DEF Recent
  <2> QED
    BY <2>1, <2>2 DEF Prompt
<1>2. ASSUME NEW r \in Requests, Arrive(r) \/ Answer(r)
      PROVE  Prompt'
  <2>1. /\ now' = now
        /\ \A x \in Requests \ {r} : pc'[x] = pc[x] /\ req'[x] = req[x]
    BY <1>0, <1>2 DEF Arrive, Answer, Stage
  <2>2. CASE Arrive(r)
    <3>1. PICK s \in issued :
            req' = [req EXCEPT ![r] = [NoRequest EXCEPT !.secret = s, !.at = now]]
      BY <2>2 DEF Arrive
    <3>2. req'[r].at = now
      BY <1>0, <3>1 DEF NoRequest
    <3> QED
      BY <1>0, <2>1, <3>2 DEF Prompt, Recent
  <2>3. CASE Answer(r)
    <3>1. PICK u \in Usages : req' = [req EXCEPT ![r].usage = u, ![r].at = now]
      BY <2>3 DEF Answer
    <3>2. req'[r].at = now
      BY <1>0, <3>1 DEF RequestState
    <3> QED
      BY <1>0, <2>1, <3>2 DEF Prompt, Recent
  <2> QED
    BY <1>2, <2>2, <2>3
<1>3. ASSUME NEW r \in Requests,
             NEW loc \in {"admitted", "done", "ended"}, Stage(r, loc), now' = now,
             \A x \in Requests \ {r} : req'[x] = req[x]
      PROVE  Prompt'
  BY <1>0, <1>3 DEF Stage, Prompt, Recent
<1>4. ASSUME NEW r \in Requests, Handle(r), ~Answer(r)
      PROVE  Prompt'
  <2>1. CASE RecordUsage(r)
    BY <1>0, <2>1 DEF RecordUsage, Stage, Prompt, Recent
  <2>2. CASE ~RecordUsage(r)
    <3>1. now' = now
      BY <1>4, <2>2 DEF Handle, Unauthorized, Reject, Acquire, TurnAway, View, Release
    <3>2. Stage(r, "admitted") \/ Stage(r, "done") \/ Stage(r, "ended")
      BY <1>4, <2>2 DEF Handle, Unauthorized, Reject, Acquire, TurnAway, View, Release,
                        Ends
    <3>3. \A x \in Requests \ {r} : req'[x] = req[x]
      BY <1>0, <1>4, <2>2 DEF Handle, Unauthorized, Reject, Acquire, TurnAway, View,
                              Release, Ends
    <3> QED
      BY <1>3, <3>1, <3>2, <3>3
  <2> QED
    BY <2>1, <2>2
<1>5. CASE CreateWithQuota \/ Update \/ Rotate \/ Revoke \/ List \/ UNCHANGED vars
  BY <1>5 DEF CreateWithQuota, Update, Rotate, Revoke, List, vars, Prompt, Recent
<1>6. CASE Restart
  BY <1>6 DEF Restart, Prompt
<1> QED
  BY <1>1, <1>2, <1>4, <1>5, <1>6 DEF Next

\* At the start nothing was used.
LEMMA InitBooks == Init => Prompt /\ Honest
<1> SUFFICES ASSUME Init PROVE Prompt /\ Honest
  OBVIOUS
<1>1. Prompt
  BY DEF Init, Prompt
<1>2. now = 0 /\ Minute(0) # 0 /\ Day(0) # 0 /\ Month(0) # 0
      /\ Minute(0) \in Nat /\ Day(0) \in Nat /\ Month(0) \in Nat
  BY Numbers DEF Init
<1>3. ASSUME NEW k \in Keys
      PROVE  LET a == Due(k) IN
               /\ a.requests = 0 /\ a.tokens = 0 /\ a.dailyTokens = 0
               /\ a.dailyCost = 0 /\ a.monthlyCost = 0
  BY DEF Init, Due, NoTally, Did, NoUsage
<1>4. ASSUME NEW k \in Keys
      PROVE  mem[k] \in KeyState /\ SameCounters(Blank, mem[k]) /\ disk[k] = Row(mem[k])
  <2>1. \/ mem[k] = Blank
        \/ \E s \in DefaultSecrets : mem[k] = [Blank EXCEPT !.secret = s]
    BY DEF Init
  <2>2. SameCounters(Blank, Blank)
    BY DEF SameCounters
  <2>3. \A s \in DefaultSecrets : SameCounters(Blank, [Blank EXCEPT !.secret = s])
    BY Blanks DEF KeyState, SameCounters
  <2>4. mem[k] \in KeyState /\ disk[k] = Row(mem[k])
    BY InitInvariant DEF Init, IInv, TypeOK
  <2> QED
    BY <2>1, <2>2, <2>3, <2>4
<1>5. ASSUME NEW k \in Keys
      PROVE  Young(Due(k)) /\ Books(Blank, Due(k))
  BY <1>2, <1>3, Blanks DEF Books, RowBooks, Current, Young
<1>6. \A k \in Keys : Books(mem[k], Due(k))
  BY <1>4, <1>5, SameBooks
<1>7. \A k \in Keys : RowBooks(disk[k], Due(k))
  BY <1>4, <1>6, RowsBook
<1> QED
  BY <1>1, <1>5, <1>6, <1>7 DEF Honest

\* A request is admitted only by Acquire.
LEMMA Admitting ==
  ASSUME IInv, Next, NEW r \in Requests, pc[r] = "arrived", pc'[r] = "admitted"
  PROVE  Acquire(r)
<1>0. pc \in [Requests -> Holding \cup {"idle", "arrived", "ended"}]
  BY DEF IInv, TypeOK
<1>1. ASSUME NEW x \in Requests, Arrive(x) \/ Handle(x)
      PROVE  \E loc : Stage(x, loc) /\ (x = r => loc = "ended" \/ Acquire(r))
  BY <1>1 DEF Arrive, Handle, Unauthorized, Reject, Acquire, TurnAway, Answer,
              RecordUsage, View, Release, Ends
<1>2. CASE \E x \in Requests : Arrive(x) \/ Handle(x)
  <2>1. PICK x \in Requests : \E loc : Stage(x, loc) /\ (x = r => loc = "ended" \/ Acquire(r))
    BY <1>1, <1>2
  <2> QED
    BY <1>0, <2>1 DEF Stage
<1>3. CASE Tick \/ CreateWithQuota \/ Update \/ Rotate \/ Revoke \/ List
  BY <1>3 DEF Tick, CreateWithQuota, Update, Rotate, Revoke, List
<1>4. CASE Restart
  BY <1>4 DEF Restart
<1> QED
  BY <1>2, <1>3, <1>4 DEF Next

\* No request is admitted past what is due of its key this minute, this day and this
\* month, nor past its requests in flight, whatever the windows, the quotas, the crashes
\* and the time a request may wait for the mutex after it read the clock; supposing that
\* usage is written: a lost write is forgotten in a crash.
THEOREM UsageWithinQuota ==
  "usage" \notin Failing => (Spec => QuotaHonoured)
<1> SUFFICES ASSUME "usage" \notin Failing
             PROVE  Spec => QuotaHonoured
  OBVIOUS
<1>1. IInv /\ Prompt /\ Honest /\ [Next]_vars => Prompt' /\ Honest'
  BY NextBooks, NextPrompt
<1>2. IInv /\ Prompt /\ Honest /\ [Next]_vars =>
        [\A r \in Requests, k \in Keys :
           pc[r] = "arrived" /\ pc'[r] = "admitted" /\ req'[r].key = k =>
             LET q == mem[k].quota
                 a == Due(k)
             IN  /\ ~Reached(q.rpm, a.requests)
                 /\ ~Reached(q.tpm, a.tokens)
                 /\ ~Reached(q.concurrent, Cardinality(InFlight(k)))
                 /\ ~Reached(q.dailyTokens, a.dailyTokens)
                 /\ ~Reached(q.dailyCost, a.dailyCost)
                 /\ ~Reached(q.monthlyCost, a.monthlyCost)]_vars
  <2> SUFFICES ASSUME IInv, Prompt, Honest, Next, NEW r \in Requests, NEW k \in Keys,
                      pc[r] = "arrived", pc'[r] = "admitted", req'[r].key = k
               PROVE  /\ ~Reached(mem[k].quota.rpm, Due(k).requests)
                      /\ ~Reached(mem[k].quota.tpm, Due(k).tokens)
                      /\ ~Reached(mem[k].quota.concurrent, Cardinality(InFlight(k)))
                      /\ ~Reached(mem[k].quota.dailyTokens, Due(k).dailyTokens)
                      /\ ~Reached(mem[k].quota.dailyCost, Due(k).dailyCost)
                      /\ ~Reached(mem[k].quota.monthlyCost, Due(k).monthlyCost)
    OBVIOUS
  <2>1. Acquire(r)
    BY Admitting
  <2>2. PICK j \in known : /\ ~Refused(RollUsageWindows(mem[j], req[r].at))
                           /\ req' = [req EXCEPT ![r] = [NoRequest EXCEPT !.key = j]]
    BY <2>1, Acquired
  <2>3. j = k
    BY <2>2, Requesting DEF IInv, TypeOK
  <2>4. Recent(req[r].at) /\ req[r].at \in Nat /\ now \in Nat
    BY DEF Prompt, IInv, TypeOK, RequestState
  <2>5. /\ mem[k] \in KeyState /\ Due(k) \in TallyState
        /\ Young(Due(k)) /\ Books(mem[k], Due(k))
    BY DueCounts DEF IInv, TypeOK, Honest
  <2> DEFINE w == RollUsageWindows(mem[k], req[r].at)
  <2>6. /\ w \in KeyState
        /\ Due(k).requests <= w.minuteRequests /\ Due(k).tokens <= w.minuteTokens
        /\ Due(k).dailyTokens <= w.dailyTokens /\ Due(k).dailyCost <= w.dailyCost
        /\ Due(k).monthlyCost <= w.monthlyCost
    BY <2>4, <2>5, RolledBooks
  <2>7. w.quota = mem[k].quota /\ w.active = Cardinality(InFlight(k))
    BY <2>4, <2>5, Rolled DEF IInv, KeySlotsConserved
  <2>8. ~Refused(w)
    BY <2>2, <2>3
  <2> HIDE DEF w
  <2> DEFINE q == w.quota
             a == Due(k)
  <2>9. /\ ~Reached(q.rpm, w.minuteRequests) /\ ~Reached(q.tpm, w.minuteTokens)
        /\ ~Reached(q.concurrent, w.active) /\ ~Reached(q.dailyTokens, w.dailyTokens)
        /\ ~Reached(q.dailyCost, w.dailyCost) /\ ~Reached(q.monthlyCost, w.monthlyCost)
    BY <2>8 DEF Refused, ConcurrencyReached
  <2>10. ASSUME NEW limit \in Nat, NEW x \in Nat, NEW y \in Nat, x <= y,
                ~Reached(limit, y)
         PROVE  ~Reached(limit, x)
    BY <2>10 DEF Reached
  <2>11. /\ q.rpm \in Nat /\ q.tpm \in Nat /\ q.dailyTokens \in Nat
         /\ q.dailyCost \in Nat /\ q.monthlyCost \in Nat
         /\ w.minuteRequests \in Nat /\ w.minuteTokens \in Nat
         /\ w.dailyTokens \in Nat /\ w.dailyCost \in Nat /\ w.monthlyCost \in Nat
         /\ a.requests \in Nat /\ a.tokens \in Nat /\ a.dailyTokens \in Nat
         /\ a.dailyCost \in Nat /\ a.monthlyCost \in Nat
    BY <2>5, <2>6 DEF KeyState, Quota, TallyState
  <2>12. /\ ~Reached(q.rpm, a.requests) /\ ~Reached(q.tpm, a.tokens)
         /\ ~Reached(q.dailyTokens, a.dailyTokens)
         /\ ~Reached(q.dailyCost, a.dailyCost)
         /\ ~Reached(q.monthlyCost, a.monthlyCost)
    BY <2>6, <2>9, <2>10, <2>11
  <2> QED
    BY <2>7, <2>9, <2>12
<1> QED
  BY <1>1, <1>2, InitBooks, Invariance, PTL DEF Spec, QuotaHonoured

-----------------------------------------------------------------------------
(* How far a day's tokens pass their limit.                                *)

\* The most a request may cost, if there is a most.
Priced == \E n \in {u.tokens : u \in Usages} : \A u \in Usages : u.tokens <= n

\* The tokens that are due of a key's day.
Spent(k) == Due(k).dailyTokens

\* The requests whose tokens are still to be booked.
Pending(k) == {r \in Requests : pc[r] \in {"admitted", "stamped"} /\ req[r].key = k}

\* A key whose slots and day are limited: each request in flight may still cost the most.
Bound(q, active, spent, pending) ==
  q.dailyTokens > 0 /\ q.concurrent > 0 =>
    /\ active <= q.concurrent
    /\ spent + pending * MaxTokens < q.dailyTokens + q.concurrent * MaxTokens

Stamped == \A r \in Requests : pc[r] = "stamped" => req[r].usage \in Usages
Within ==
  \A k \in known :
    /\ disk[k].quota = mem[k].quota
    /\ Bound(mem[k].quota, mem[k].active, Spent(k), Cardinality(Pending(k)))

\* The most is a most.
LEMMA Most ==
  ASSUME Priced
  PROVE  MaxTokens \in Nat /\ \A u \in Usages : u.tokens \in Nat /\ u.tokens <= MaxTokens
<1>1. \A u \in Usages : u.tokens \in Nat
  BY QuotaAssumption DEF QuotaAssumption
<1>2. /\ MaxTokens \in {u.tokens : u \in Usages}
      /\ \A u \in Usages : u.tokens <= MaxTokens
  BY DEF Priced, MaxTokens
<1> QED
  BY <1>1, <1>2

\* They are a number, and stay what they are while the clock and the histories do.
LEMMA SpentCounts ==
  ASSUME IInv
  PROVE  /\ \A k \in Keys : Spent(k) \in Nat
         /\ UNCHANGED <<tally, missed>> => \A k : Spent(k)' = Spent(k)
BY DueCounts, HistoriesFrame DEF Spent, TallyState

\* The requests still to be booked are in flight.
LEMMA PendingFinite ==
  ASSUME NEW k
  PROVE  /\ Pending(k) \subseteq InFlight(k) /\ IsFiniteSet(Pending(k))
         /\ Cardinality(Pending(k)) \in Nat
         /\ Cardinality(Pending(k)) <= Cardinality(InFlight(k))
<1>1. Pending(k) \subseteq InFlight(k)
  BY DEF Pending, InFlight, Holding
<1> QED
  BY <1>1, InFlightFinite, FS_Subset, FS_CardinalityType

\* The bound stays when slots, tokens and requests become fewer.
LEMMA BoundFalls ==
  ASSUME MaxTokens \in Nat, NEW q \in Quota, NEW a \in Nat, NEW b \in Nat, NEW s \in Nat,
         NEW t \in Nat, NEW m \in Nat, NEW n \in Nat,
         Bound(q, a, s, m), b <= a, t <= s, n <= m
  PROVE  Bound(q, b, t, n)
<1>1. n * MaxTokens <= m * MaxTokens /\ n * MaxTokens \in Nat /\ m * MaxTokens \in Nat
  OBVIOUS
<1>2. q.dailyTokens \in Nat /\ q.concurrent \in Nat /\ q.concurrent * MaxTokens \in Nat
  BY DEF Quota
<1> QED
  BY <1>1, <1>2 DEF Bound

\* Steps that admit nothing and book nothing.
LEMMA WithinFrame ==
  ASSUME IInv, Within, MaxTokens \in Nat, known' = known,
         \A k \in known :
           /\ mem'[k].quota = mem[k].quota
           /\ disk'[k].quota \in {disk[k].quota, mem[k].quota}
           /\ mem'[k].active \in Nat /\ mem'[k].active <= mem[k].active
           /\ Spent(k)' \in Nat
           /\ Spent(k)' <= Spent(k)
           /\ Pending(k)' \subseteq Pending(k)
  PROVE  Within'
<1> SUFFICES ASSUME NEW k \in known
             PROVE  /\ disk'[k].quota = mem'[k].quota
                    /\ Bound(mem'[k].quota, mem'[k].active, Spent(k)',
                             Cardinality(Pending(k)'))
  BY DEF Within, Bound
<1>1. disk'[k].quota = mem'[k].quota
  BY DEF Within
<1>2. /\ mem[k].quota \in Quota /\ mem[k].active \in Nat /\ Spent(k) \in Nat
  BY SpentCounts DEF IInv, TypeOK, KeyState
<1>3. /\ Cardinality(Pending(k)') \in Nat /\ Cardinality(Pending(k)) \in Nat
      /\ Cardinality(Pending(k)') <= Cardinality(Pending(k))
  BY PendingFinite, FS_Subset, FS_CardinalityType
<1>4. Bound(mem[k].quota, mem[k].active, Spent(k), Cardinality(Pending(k)))
  BY DEF Within
<1>5. Bound(mem[k].quota, mem'[k].active, Spent(k)', Cardinality(Pending(k)'))
  BY <1>2, <1>3, <1>4, BoundFalls
<1> QED
  BY <1>1, <1>5

\* An admission takes one of the slots that are left, and leaves room for what the
\* requests in flight may cost.
LEMMA AcquireWithin ==
  ASSUME IInv, Prompt, Honest, Within, MaxTokens \in Nat, NEW r \in Requests, Acquire(r)
  PROVE  Within'
<1>1. PICK k \in known :
        LET w == RollUsageWindows(mem[k], req[r].at) IN
          /\ ~Refused(w)
          /\ \A j \in Keys \ {k} : mem'[j] = mem[j]
          /\ mem'[k].quota = w.quota /\ mem'[k].active = w.active + 1
          /\ Did(1, NoUsage) \in TallyState /\ Happened(k, Did(1, NoUsage))
          /\ req' = [req EXCEPT ![r] = [NoRequest EXCEPT !.key = k]]
  BY Acquired
<1>2. /\ pc[r] = "arrived" /\ pc' = [pc EXCEPT ![r] = "admitted"]
      /\ known' = known /\ disk' = disk
  BY DEF Acquire, AtKey, Stage
<1>3. /\ k \in Keys /\ known \subseteq Keys /\ mem[k] \in KeyState /\ now \in Nat
      /\ Due(k) \in TallyState /\ Young(Due(k)) /\ Books(mem[k], Due(k))
      /\ Recent(req[r].at) /\ req[r].at \in Nat
      /\ pc \in [Requests -> Holding \cup {"idle", "arrived", "ended"}]
  BY <1>2, DueCounts DEF IInv, TypeOK, RequestState, Honest, Prompt
<1>4. /\ req'[r].key = k /\ \A x \in Requests \ {r} : req'[x] = req[x]
  BY <1>1, <1>3, Requesting DEF IInv, TypeOK
<1> DEFINE w == RollUsageWindows(mem[k], req[r].at)
<1>5. /\ w \in KeyState /\ w.quota = mem[k].quota /\ w.active = mem[k].active
      /\ Spent(k) <= w.dailyTokens
  BY <1>3, Rolled, RolledBooks DEF Spent
<1>6. ~Refused(w) /\ mem'[k].quota = mem[k].quota /\ mem'[k].active = mem[k].active + 1
  BY <1>1, <1>5
<1> HIDE DEF w
<1>14. Spent(k)' = Spent(k) /\ \A j \in Keys \ {k} : Spent(j)' = Spent(j)
  <2>1. Did(1, NoUsage).dailyTokens = 0
    BY Doing DEF NoUsage
  <2>2. \A x, y : Current(x, y, 0) = 0
    BY DEF Current
  <2> QED
    BY <1>1, <1>3, <2>1, <2>2, Happening DEF Spent, TallyState
<1> DEFINE q == mem[k].quota
           n == Cardinality(Pending(k)')
<1>7. /\ q.dailyTokens \in Nat /\ q.concurrent \in Nat /\ mem[k].active \in Nat
      /\ Spent(k) \in Nat /\ w.dailyTokens \in Nat
  BY <1>3, <1>5, SpentCounts DEF KeyState, Quota
<1>8. n \in Nat /\ n <= mem'[k].active
  <2>1. IInv'
    BY AcquireKeeps
  <2>2. mem'[k].active = Cardinality(InFlight(k)')
    BY <1>3, <2>1 DEF IInv, KeySlotsConserved
  <2>3. Pending(k)' \subseteq InFlight(k)'
    BY DEF Pending, InFlight, Holding
  <2>4. IsFiniteSet(InFlight(k)')
    <3>1. InFlight(k)' \subseteq Requests
      BY DEF InFlight
    <3> QED
      BY <3>1, QuotaAssumption, FS_Subset DEF QuotaAssumption
  <2> QED
    BY <2>2, <2>3, <2>4, FS_Subset, FS_CardinalityType
<1>9. Bound(q, mem'[k].active, Spent(k)', n)
  <2> SUFFICES ASSUME q.dailyTokens > 0, q.concurrent > 0
               PROVE  /\ mem'[k].active <= q.concurrent
                      /\ Spent(k) + n * MaxTokens
                           < q.dailyTokens + q.concurrent * MaxTokens
    BY <1>14 DEF Bound
  <2>1. /\ mem[k].active < q.concurrent /\ Spent(k) < q.dailyTokens
    BY <1>5, <1>6, <1>7 DEF Refused, Reached, ConcurrencyReached
  <2>2. mem'[k].active <= q.concurrent
    BY <1>6, <1>7, <2>1
  <2>3. n <= q.concurrent
    BY <1>6, <1>7, <1>8, <2>2
  <2> HIDE DEF n, q
  <2>4. /\ n * MaxTokens <= q.concurrent * MaxTokens
        /\ n * MaxTokens \in Nat /\ q.concurrent * MaxTokens \in Nat
    BY <1>7, <1>8, <2>3
  <2> QED
    BY <1>7, <2>1, <2>2, <2>4
<1>10. ASSUME NEW j \in known \ {k}
       PROVE  /\ disk'[j].quota = mem'[j].quota
              /\ Bound(mem'[j].quota, mem'[j].active, Spent(j)',
                       Cardinality(Pending(j)'))
  <2>1. Pending(j)' = Pending(j)
    BY <1>2, <1>3, <1>4 DEF Pending
  <2> QED
    BY <1>1, <1>2, <1>3, <1>14, <2>1 DEF Within
<1>11. disk'[k].quota = mem'[k].quota
  BY <1>2, <1>6 DEF Within
<1> QED
  BY <1>2, <1>6, <1>9, <1>10, <1>11 DEF Within, Bound

\* Booked tokens are what was reserved for their request, at most.
LEMMA RecordWithin ==
  ASSUME IInv, Stamped, Within, Priced, NEW r \in Requests, RecordUsage(r)
  PROVE  Within'
<1>1. PICK k \in known :
        /\ k = req[r].key
        /\ Charged(mem[k], r) \in KeyState /\ mem'[k] = Charged(mem[k], r)
        /\ disk'[k] = Row(Charged(mem[k], r)) \/ disk' = disk
        /\ Did(0, req[r].usage) \in TallyState /\ Happened(k, Did(0, req[r].usage))
        /\ \A j \in Keys \ {k} : mem'[j] = mem[j] /\ disk'[j] = disk[j]
  BY Recorded
<1>2. /\ pc[r] = "stamped" /\ pc' = [pc EXCEPT ![r] = "recorded"]
      /\ known' = known /\ req' = req
  BY DEF RecordUsage, Stage
<1>3. /\ k \in Keys /\ known \subseteq Keys /\ mem[k] \in KeyState
      /\ req \in [Requests -> RequestState]
      /\ pc \in [Requests -> Holding \cup {"idle", "arrived", "ended"}]
  BY DEF IInv, TypeOK
<1>4. /\ mem'[k].quota = mem[k].quota /\ mem'[k].active = mem[k].active
      /\ disk'[k].quota = mem[k].quota
  BY <1>1, <1>3, Charging, Rows DEF Within
<1>5. /\ MaxTokens \in Nat /\ req[r].usage.tokens \in Nat
      /\ req[r].usage.tokens <= MaxTokens
  BY <1>2, Most DEF Stamped
<1>6. r \in Pending(k) /\ Pending(k)' = Pending(k) \ {r}
  BY <1>1, <1>2, <1>3 DEF Pending
<1> DEFINE n == Cardinality(Pending(k))
           q == mem[k].quota
           s == Spent(k)
           u == req[r].usage.tokens
<1>7. n \in Nat /\ n # 0 /\ Cardinality(Pending(k)') = n - 1
  BY <1>6, PendingFinite, FS_RemoveElement, FS_EmptySet
<1>8. /\ q.dailyTokens \in Nat /\ q.concurrent \in Nat /\ s \in Nat
      /\ q \in Quota /\ mem[k].active \in Nat
  BY <1>3, SpentCounts DEF KeyState, Quota
<1>13. /\ Spent(k)' \in Nat /\ Spent(k)' <= s + u
       /\ \A j \in Keys \ {k} : Spent(j)' = Spent(j)
  <2>1. Did(0, req[r].usage).dailyTokens = u
    BY <1>3, Doing DEF RequestState
  <2>2. \A x, y : Current(x, y, u) \in {0, u}
    BY DEF Current
  <2>3. \E x, y : Spent(k)' = s + Current(x, y, u)
    BY <1>1, <1>3, <2>1, Happening DEF Spent
  <2>4. \A j \in Keys \ {k} : Spent(j)' = Spent(j)
    BY <1>1, <1>3, Happening DEF Spent
  <2> QED
    BY <1>5, <1>8, <2>2, <2>3, <2>4
<1>9. Bound(q, mem[k].active, s, n)
  BY DEF Within
<1>10. Bound(q, mem[k].active, s + u, n - 1)
  <2> HIDE DEF n, q, s, u
  <2>1. u \in Nat /\ u <= MaxTokens
    BY <1>5 DEF u
  <2>2. (n - 1) * MaxTokens + MaxTokens = n * MaxTokens
    BY <1>5, <1>7
  <2>3. (n - 1) * MaxTokens \in Nat /\ n * MaxTokens \in Nat
        /\ q.concurrent * MaxTokens \in Nat
    BY <1>5, <1>7, <1>8
  <2> QED
    BY <1>5, <1>8, <1>9, <2>1, <2>2, <2>3 DEF Bound
<1>11. Bound(mem'[k].quota, mem'[k].active, Spent(k)',
             Cardinality(Pending(k)'))
  <2>1. Bound(q, mem[k].active, Spent(k)', n - 1)
    <3> HIDE DEF n, q, s, u
    <3>1. /\ (n - 1) * MaxTokens \in Nat /\ q.concurrent * MaxTokens \in Nat
          /\ s + u \in Nat
      BY <1>5, <1>7, <1>8 DEF u
    <3> QED
      BY <1>8, <1>10, <1>13, <3>1 DEF Bound
  <2> QED
    BY <1>4, <1>7, <2>1
<1>12. ASSUME NEW j \in known \ {k}
       PROVE  /\ disk'[j].quota = mem'[j].quota
              /\ Bound(mem'[j].quota, mem'[j].active, Spent(j)',
                       Cardinality(Pending(j)'))
  <2>1. Pending(j)' = Pending(j)
    BY <1>1, <1>2, <1>3 DEF Pending
  <2> QED
    BY <1>1, <1>3, <1>13, <2>1 DEF Within
<1> QED
  BY <1>2, <1>4, <1>11, <1>12 DEF Within, Bound

\* Steps of the other kinds admit nothing and book nothing.
LEMMA RequestWithin ==
  ASSUME IInv, Within, MaxTokens \in Nat, NEW r \in Requests, Arrive(r) \/ Handle(r),
         ~Acquire(r), ~RecordUsage(r)
  PROVE  Within'
<1>0. /\ pc \in [Requests -> Holding \cup {"idle", "arrived", "ended"}]
      /\ req \in [Requests -> RequestState] /\ known \subseteq Keys
      /\ \A k \in known : /\ mem[k] \in KeyState /\ mem[k].active \in Nat
                          /\ Spent(k) \in Nat /\ Spent(k)' = Spent(k)
  <2>1. UNCHANGED <<tally, missed>>
    BY DEF Arrive, Handle, Unauthorized, Reject, TurnAway, Answer, View, Release,
           histories
  <2> QED
    BY <2>1, SpentCounts DEF IInv, TypeOK, KeyState
<1>1. UNCHANGED <<known, disk>>
  BY DEF Arrive, Handle, Unauthorized, Reject, TurnAway, Answer, View, Release, store
<1>2. \A k \in known : Pending(k)' \subseteq Pending(k)
  <2>1. CASE Answer(r)
    <3>1. PICK u \in Usages : req' = [req EXCEPT ![r].usage = u, ![r].at = now]
      BY <2>1 DEF Answer
    <3>2. /\ req'[r].key = req[r].key /\ \A x \in Requests \ {r} : req'[x] = req[x]
      BY <1>0, <3>1 DEF RequestState
    <3> QED
      BY <1>0, <2>1, <3>2 DEF Answer, Stage, Pending
  <2>2. CASE ~Answer(r)
    <3>1. /\ pc'[r] \in {"arrived", "done", "ended"}
          /\ \A x \in Requests \ {r} : pc'[x] = pc[x] /\ req'[x] = req[x]
      BY <1>0, <2>2 DEF Arrive, Handle, Unauthorized, Reject, TurnAway, View, Release,
                        Stage, Ends
    <3> QED
      BY <3>1 DEF Pending
  <2> QED
    BY <2>1, <2>2
<1>3. \A k \in known : /\ mem'[k].quota = mem[k].quota
                       /\ mem'[k].active \in Nat /\ mem'[k].active <= mem[k].active
  <2>1. CASE Reject(r) \/ View(r)
    <3>1. PICK t \in Nat :
            \A k \in Keys : mem'[k] \in {mem[k], RollUsageWindows(mem[k], t)}
      BY <2>1, Looking
    <3>2. ASSUME NEW k \in known
          PROVE  mem'[k].quota = mem[k].quota /\ mem'[k].active = mem[k].active
      <4>1. k \in Keys /\ mem[k] \in KeyState
        BY <1>0
      <4> QED
        BY <3>1, <4>1, Rolled
    <3> QED
      BY <1>0, <3>2
  <2>2. CASE Release(r)
    <3>1. PICK k \in known :
            /\ mem' \in [Keys -> KeyState] /\ \A j \in Keys \ {k} : mem'[j] = mem[j]
            /\ mem'[k].quota = mem[k].quota /\ mem'[k].active = mem[k].active - 1
      BY <2>2, Released
    <3>2. mem'[k].active \in Nat
      BY <1>0, <3>1 DEF KeyState
    <3> QED
      BY <1>0, <3>1, <3>2
  <2>3. CASE ~(Reject(r) \/ View(r) \/ Release(r))
    <3>1. mem' = mem
      BY <2>3 DEF Arrive, Handle, Unauthorized, TurnAway, Answer, store
    <3> QED
      BY <1>0, <3>1
  <2> QED
    BY <2>1, <2>2, <2>3
<1> QED
  BY <1>0, <1>1, <1>2, <1>3, WithinFrame

\* An admin call that changes no quota keeps the bound, and a new key starts below it.
LEMMA AdminWithin ==
  ASSUME IInv, Honest, Within, MaxTokens \in Nat, CreateWithQuota \/ Rotate \/ Revoke
  PROVE  Within'
<1>0. /\ known \subseteq Keys /\ TypeOK
      /\ \A k \in known : /\ mem[k] \in KeyState /\ mem[k].active \in Nat
                          /\ Spent(k) \in Nat
      /\ \A k : Spent(k)' = Spent(k)
  <2>1. UNCHANGED <<tally, missed>>
    BY DEF CreateWithQuota, Rotate, Revoke, histories
  <2> QED
    BY <2>1, SpentCounts DEF IInv, TypeOK, KeyState
<1>1. ASSUME NEW k \in known, NEW m \in KeyState, Put(k, m) \/ PutInMemory(k, m),
             m.quota = mem[k].quota, m.active = mem[k].active,
             UNCHANGED <<known, pc, req>>
      PROVE  Within'
  <2>1. /\ mem'[k] = m /\ \A j \in Keys \ {k} : mem'[j] = mem[j]
        /\ disk'[k] = Row(m) \/ disk' = disk
        /\ \A j \in Keys \ {k} : disk'[j] = disk[j]
    BY <1>0, <1>1, Writing
  <2>2. Row(m).quota = m.quota
    BY Rows
  <2>3. \A j \in known : Pending(j)' = Pending(j)
    BY <1>1 DEF Pending
  <2>4. ASSUME NEW j \in known
        PROVE  /\ mem'[j].quota = mem[j].quota /\ mem'[j].active = mem[j].active
               /\ disk'[j].quota \in {disk[j].quota, mem[j].quota}
    BY <1>0, <1>1, <2>1, <2>2
  <2> QED
    BY <1>0, <1>1, <2>3, <2>4, WithinFrame
<1>2. CASE Rotate
  <2>1. PICK k \in known, s \in FreshSecrets :
          Put(k, [mem[k] EXCEPT !.secret = s, !.enabled = TRUE])
    BY <1>2 DEF Rotate
  <2> DEFINE m == [mem[k] EXCEPT !.secret = s, !.enabled = TRUE]
  <2>2. s \in Secrets
    BY DEF FreshSecrets
  <2>3. m \in KeyState /\ m.quota = mem[k].quota /\ m.active = mem[k].active
    BY <1>0, <2>2 DEF KeyState
  <2>4. Put(k, m)
    BY <2>1
  <2> HIDE DEF m
  <2> QED
    BY <1>1, <1>2, <2>3, <2>4 DEF Rotate
<1>3. CASE Revoke
  <2>1. PICK k \in known, e \in BOOLEAN :
          \/ Put(k, [mem[k] EXCEPT !.enabled = e])
          \/ PutInMemory(k, [mem[k] EXCEPT !.enabled = e])
    BY <1>3 DEF Revoke
  <2> DEFINE m == [mem[k] EXCEPT !.enabled = e]
  <2>2. m \in KeyState /\ m.quota = mem[k].quota /\ m.active = mem[k].active
    BY <1>0 DEF KeyState
  <2>3. Put(k, m) \/ PutInMemory(k, m)
    BY <2>1
  <2> HIDE DEF m
  <2> QED
    BY <1>1, <1>3, <2>2, <2>3 DEF Revoke
<1>4. CASE CreateWithQuota
  <2>1. PICK k \in Keys \ known, s \in FreshSecrets, q \in Quotas :
          /\ Put(k, [Blank EXCEPT !.secret = s, !.quota = q])
          /\ known' = known \cup {k} /\ UNCHANGED <<pc, req>>
    BY <1>4 DEF CreateWithQuota
  <2> DEFINE m == [Blank EXCEPT !.secret = s, !.quota = q]
  <2>2. q \in Quota /\ s \in Secrets
    BY QuotaAssumption DEF QuotaAssumption, FreshSecrets
  <2>3. m \in KeyState /\ m.quota = q /\ m.active = 0
    BY <2>2, Blanks DEF KeyState
  <2>4. Put(k, m)
    BY <2>1
  <2> HIDE DEF m
  <2>5. /\ mem'[k] = m /\ \A j \in Keys \ {k} : mem'[j] = mem[j]
        /\ disk'[k] = Row(m) /\ \A j \in Keys \ {k} : disk'[j] = disk[j]
    BY <1>0, <2>3, <2>4, Writing
  <2>6. Row(m).quota = q
    BY <2>3, Rows
  <2>7. Spent(k) = 0
    <3>1. Books(Blank, Due(k)) /\ Due(k) \in TallyState
      BY DueCounts DEF IInv, Index, Honest
    <3> QED
      BY <3>1, Blanks DEF Books, RowBooks, Current, Spent, TallyState
  <2>8. Pending(k)' = {}
    BY <2>1 DEF Pending, IInv, Placed, Holding
  <2>9. Bound(q, 0, 0, 0)
    <3>1. /\ q.dailyTokens \in Nat /\ q.concurrent \in Nat
          /\ q.concurrent * MaxTokens \in Nat /\ 0 * MaxTokens = 0
      BY <2>2 DEF Quota
    <3> QED
      BY <3>1 DEF Bound
  <2>10. /\ disk'[k].quota = mem'[k].quota
         /\ Bound(mem'[k].quota, mem'[k].active, Spent(k)',
                  Cardinality(Pending(k)'))
    BY <1>0, <2>3, <2>5, <2>6, <2>7, <2>8, <2>9, FS_EmptySet
  <2>11. ASSUME NEW j \in known
         PROVE  /\ disk'[j].quota = mem'[j].quota
                /\ Bound(mem'[j].quota, mem'[j].active, Spent(j)',
                         Cardinality(Pending(j)'))
    <3>1. Pending(j)' = Pending(j)
      BY <2>1 DEF Pending
    <3> QED
      BY <1>0, <2>1, <2>5, <3>1 DEF Within
  <2> QED
    BY <2>1, <2>10, <2>11 DEF Within, Bound
<1> QED
  BY <1>2, <1>3, <1>4

\* A crash loses the requests and keeps the quota and the day of the row.
LEMMA RestartWithin ==
  ASSUME IInv, Within, MaxTokens \in Nat, Restart
  PROVE  Within'
<1>1. /\ known \subseteq Keys /\ Default \in known
      /\ \A k \in known : mem[k].active \in Nat /\ Spent(k) \in Nat
  BY SpentCounts DEF IInv, TypeOK, KeyState
<1>2. /\ mem'[Default].quota = disk[Default].quota
      /\ disk'[Default].quota = disk[Default].quota
      /\ \A k \in known \ {Default} : mem'[k].quota = disk[k].quota
      /\ \A k \in Keys \ {Default} : disk'[k] = disk[k]
      /\ \A k \in Keys : mem'[k].active = 0
  BY Restarted
<1>3. /\ pc' = [r \in Requests |-> IF pc[r] = "idle" THEN "idle" ELSE "ended"]
      /\ known' = known
  BY DEF Restart
<1>4. \A k \in known : Pending(k)' = {}
  BY <1>3 DEF Pending
<1>5. ASSUME NEW k \in known
      PROVE  Spent(k)' = Spent(k) /\ Spent(k) \in Nat
  BY <1>1, Missed DEF Spent
<1>6. ASSUME NEW k \in known
      PROVE  /\ mem'[k].quota = mem[k].quota /\ disk'[k].quota = disk[k].quota
             /\ mem'[k].active = 0
  BY <1>1, <1>2 DEF Within
<1>7. ASSUME NEW k \in known
      PROVE  /\ mem'[k].active \in Nat /\ mem'[k].active <= mem[k].active
             /\ Spent(k)' \in Nat
             /\ Spent(k)' <= Spent(k)
             /\ Pending(k)' \subseteq Pending(k)
  BY <1>1, <1>4, <1>5, <1>6
<1> QED
  BY <1>3, <1>6, <1>7, WithinFrame

\* The usage of a request is one that requests may have.
LEMMA NextStamped ==
  ASSUME IInv, Stamped, [Next]_vars
  PROVE  Stamped'
<1>0. /\ pc \in [Requests -> Holding \cup {"idle", "arrived", "ended"}]
      /\ req \in [Requests -> RequestState]
  BY DEF IInv, TypeOK
<1>1. ASSUME NEW r \in Requests, Answer(r)
      PROVE  Stamped'
  <2>1. PICK u \in Usages : req' = [req EXCEPT ![r].usage = u, ![r].at = now]
    BY <1>1 DEF Answer
  <2>2. req'[r].usage = u /\ \A x \in Requests \ {r} : req'[x] = req[x]
    BY <1>0, <2>1 DEF RequestState
  <2> QED
    BY <1>0, <1>1, <2>2 DEF Answer, Stage, Stamped
<1>2. ASSUME NEW r \in Requests, Arrive(r) \/ Handle(r), ~Answer(r)
      PROVE  Stamped'
  <2>1. /\ pc'[r] # "stamped"
        /\ \A x \in Requests \ {r} : pc'[x] = pc[x] /\ req'[x] = req[x]
    BY <1>0, <1>2 DEF Arrive, Handle, Unauthorized, Reject, Acquire, TurnAway,
                      RecordUsage, View, Release, Stage, Ends
  <2> QED
    BY <2>1 DEF Stamped
<1>3. CASE \/ Tick \/ CreateWithQuota \/ Update \/ Rotate \/ Revoke \/ List
           \/ UNCHANGED vars
  BY <1>3 DEF Tick, CreateWithQuota, Update, Rotate, Revoke, List, vars, Stamped
<1>4. CASE Restart
  BY <1>4 DEF Restart, Stamped
<1> QED
  BY <1>1, <1>2, <1>3, <1>4 DEF Next

\* Every step keeps the bound, when no update changes a quota.
LEMMA NextWithin ==
  ASSUME IInv, Prompt, Honest, Stamped, Within, Priced, "update" \notin Admin, [Next]_vars
  PROVE  Within'
<1>0. /\ MaxTokens \in Nat /\ known \subseteq Keys /\ now \in Nat
      /\ \A k \in known : /\ k \in Keys /\ mem[k] \in KeyState /\ mem[k].active \in Nat
                          /\ Spent(k) \in Nat
  BY Most, SpentCounts DEF IInv, TypeOK, KeyState
<1>1. ASSUME NEW r \in Requests, Arrive(r) \/ Handle(r)
      PROVE  Within'
  BY <1>0, <1>1, AcquireWithin, RecordWithin, RequestWithin
<1>2. CASE Tick
  <2>1. UNCHANGED <<known, mem, disk, pc, req>>
    BY <1>2 DEF Tick, store
  <2>2. ASSUME NEW k \in known
        PROVE  /\ Spent(k)' \in Nat
               /\ Spent(k)' <= Spent(k)
               /\ Pending(k)' = Pending(k)
    BY <1>0, <1>2, <2>1, TickDue DEF Current, Pending, Spent
  <2> QED
    BY <1>0, <2>1, <2>2, WithinFrame
<1>3. CASE List
  <2>1. /\ mem' = [k \in Keys |-> IF k \in known THEN RollUsageWindows(mem[k], now)
                                  ELSE mem[k]]
        /\ UNCHANGED <<known, disk, pc, req, tally, missed>>
    BY <1>3 DEF List, histories
  <2>2. ASSUME NEW k \in known
        PROVE  /\ mem'[k].quota = mem[k].quota /\ mem'[k].active = mem[k].active
               /\ Pending(k)' = Pending(k) /\ Spent(k)' = Spent(k)
    <3>1. mem'[k] = RollUsageWindows(mem[k], now)
      BY <1>0, <2>1
    <3> QED
      BY <1>0, <2>1, <3>1, Rolled, SpentCounts DEF Pending
  <2> QED
    BY <1>0, <2>1, <2>2, WithinFrame
<1>4. CASE UNCHANGED vars
  BY <1>4 DEF vars, Within, Bound, Pending, Spent, Due
<1> QED
  BY <1>0, <1>1, <1>2, <1>3, <1>4, AdminWithin, RestartWithin DEF Next, Update

\* No day's tokens pass their limit by more than one request's worth for each slot of
\* the key; supposing, besides what UsageWithinQuota supposes, that a request has a
\* largest price and that no update raises the slots while requests are in flight.
THEOREM OvershootOfSlots ==
  "usage" \notin Failing /\ "update" \notin Admin /\ Priced =>
    (Spec => []OvershootBounded)
<1> SUFFICES ASSUME "usage" \notin Failing, "update" \notin Admin, Priced
             PROVE  Spec => []OvershootBounded
  OBVIOUS
<1> DEFINE Inv == Prompt /\ Honest /\ Stamped /\ Within
<1>1. Init => Inv
  <2> SUFFICES ASSUME Init PROVE Inv
    OBVIOUS
  <2>1. Stamped
    BY DEF Init, Stamped
  <2>2. Within
    <3> SUFFICES ASSUME NEW k \in known
                 PROVE  /\ disk[k].quota = mem[k].quota /\ mem[k].quota = Unlimited
      BY DEF Within, Bound, Unlimited
    <3>1. k = Default /\ Default \in Keys
      BY QuotaAssumption DEF QuotaAssumption, Init
    <3>2. mem[k] \in KeyState /\ disk[k] = Row(mem[k])
      BY <3>1, InitInvariant DEF Init, IInv, TypeOK
    <3>3. mem[k].quota = Unlimited
      BY <3>1, Blanks DEF Init, KeyState
    <3> QED
      BY <3>2, <3>3, Rows
  <2> QED
    BY <2>1, <2>2, InitBooks
<1>2. IInv /\ Inv /\ [Next]_vars => Inv'
  BY NextBooks, NextPrompt, NextStamped, NextWithin
<1>3. IInv /\ Inv => OvershootBounded
  <2> SUFFICES ASSUME IInv, Inv, NEW k \in known,
                      mem[k].quota.dailyTokens > 0, mem[k].quota.concurrent > 0
               PROVE  Spent(k)
                        < mem[k].quota.dailyTokens + mem[k].quota.concurrent * MaxTokens
    BY DEF OvershootBounded, Spent
  <2>1. Bound(mem[k].quota, mem[k].active, Spent(k), Cardinality(Pending(k)))
    BY DEF Within
  <2>2. MaxTokens \in Nat /\ Cardinality(Pending(k)) \in Nat
    BY Most, PendingFinite
  <2>3. Cardinality(Pending(k)) * MaxTokens \in Nat
    BY <2>2
  <2>4. /\ mem[k].quota.dailyTokens \in Nat /\ mem[k].quota.concurrent \in Nat
        /\ Spent(k) \in Nat
    BY SpentCounts DEF IInv, TypeOK, KeyState, Quota
  <2>5. mem[k].quota.concurrent * MaxTokens \in Nat
    BY <2>2, <2>4
  <2> QED
    BY <2>1, <2>3, <2>4, <2>5 DEF Bound
<1> QED
  BY <1>1, <1>2, <1>3, Invariance, PTL DEF Spec
=============================================================================
