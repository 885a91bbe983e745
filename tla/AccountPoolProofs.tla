-------------------------- MODULE AccountPoolProofs --------------------------
(***************************************************************************)
(* Machine-checked proofs about AccountPool, for every set of requests,    *)
(* accounts, operators and sessions, and for every clock and cooldown:     *)
(* slots are conserved, no account object is ever over its limit, and what *)
(* is charged, booked and bound is what really happened to a request.      *)
(*                                                                         *)
(* The type of the slot counters needs the slots to be conserved (a count  *)
(* stays natural because a slot given back is a slot held), which needs    *)
(* the locals of a request to agree with its location (Placement), the two *)
(* slots of a failover to be of different objects (Elsewhere), and the     *)
(* objects requests refer to to be allocated already (Allocated).  The     *)
(* conjunction of the five is inductive.                                   *)
(*                                                                         *)
(* On top of it, Story says what the history of a request is at each of    *)
(* its locations: nothing, a first attempt, one that is being left, or a   *)
(* second attempt elsewhere.  Charges, ledger and retries follow from it.  *)
(***************************************************************************)
EXTENDS AccountPool, FiniteSetTheorems, SequenceTheorems, TLAPS

Unrouted == {"idle", "sticky", "reserve", "census", "counting", "busy",
             "unavailable"}
InFlight == {"bind", "upstream", "mark", "switch", "deliver", "body", "release"}

\* The first call has come back and its outcome is not yet charged, or the
\* answer is being delivered.
Answered(r) ==
  \/ pc[r] \in {"mark", "deliver", "body"}
  \/ pc[r] \in {"select", "scan"} /\ Retrying(r)

\* Which slots a request holds, and what it remembers, follows from its location.
Placed(r) ==
  /\ next[r] # NoObject <=> pc[r] \in {"mark", "switch"}
  /\ pc[r] \in InFlight => acct[r] # NoObject
  /\ pc[r] \in Unrouted => acct[r] = NoObject
  /\ pc[r] = "reserve" => scan[r].best # NoObject
  /\ Answered(r) => meta[r].outcome # "none"
Placement == \A r \in Requests : Placed(r)

\* The objects a request refers to.
Refs(r) == scan[r].todo \cup ({scan[r].best, acct[r], next[r]} \ {NoObject})

\* Requests and the pool refer to allocated objects only.
Allocated ==
  /\ \A o \in pool : ~Fresh(o)
  /\ \A r \in Requests : \A o \in Refs(r) : ~Fresh(o)

\* The account a failover moves to is never the one it leaves.
ElsewhereFor(r) ==
  /\ next[r] # NoObject => ident[next[r]] # ident[acct[r]]
  /\ pc[r] = "scan" /\ Retrying(r) /\ scan[r].best # NoObject =>
       ident[scan[r].best] # ident[acct[r]]
Elsewhere == \A r \in Requests : ElsewhereFor(r)

IInv == TypeOK /\ Placement /\ Allocated /\ Elsewhere /\ SlotConservation

-----------------------------------------------------------------------------
(* Values.                                                                 *)

\* The clock truncates to a whole number of seconds.
LEMMA SecondsNat ==
  ASSUME NEW t \in Nat
  PROVE  Seconds(t) \in Nat
BY PoolAssumption DEF Seconds

\* Marking an account stores a second of the clock, or zero.
LEMMA BlockedUntilNat ==
  ASSUME now \in Nat, NEW k \in StatusClasses, NEW h \in Nat
  PROVE  BlockedUntil(k, h) \in Nat
<1>1. RateLimitCool(h) \in Nat
  BY PoolAssumption DEF RateLimitCool
<1>2. Cooldown(k, h) \in Nat
  BY <1>1, PoolAssumption DEF Cooldown
<1>3. now + Cooldown(k, h) \in Nat
  BY <1>2
<1>4. QED
  BY <1>3, SecondsNat DEF BlockedUntil

\* The values the routing actions give to the locals of a scan are typed.
LEMMA ScanTyped ==
  ASSUME NEW s \in ScanState
  PROVE  /\ NoScan \in ScanState
         /\ \A w \in AccountIds \cup {NoId}, n \in Nat :
              [s EXCEPT !.want = w, !.at = n] \in ScanState
         /\ \A o \in Objects : [s EXCEPT !.best = o] \in ScanState
         /\ \A t \in SUBSET Objects : [s EXCEPT !.todo = t] \in ScanState
         /\ \A t \in SUBSET Objects :
              [s EXCEPT !.todo = t, !.full = TRUE] \in ScanState
         /\ \A t \in SUBSET Objects, n \in Nat :
              [s EXCEPT !.todo = t, !.at = n] \in ScanState
         /\ \A t \in SUBSET Objects, o \in Objects, m \in Nat :
              [s EXCEPT !.todo = t, !.best = o, !.load = m] \in ScanState
         /\ \A t \in SUBSET Objects, n \in Nat :
              [s EXCEPT !.todo = t, !.best = NoObject, !.load = 0, !.at = n]
                \in ScanState
         /\ s.tries < 2 => [s EXCEPT !.tries = @ + 1] \in ScanState
<1>1. NoScan \in ScanState
  BY DEF NoScan, ScanState
<1>2. s.tries < 2 => [s EXCEPT !.tries = @ + 1] \in ScanState
  BY DEF ScanState
<1>3. ASSUME NEW t \in SUBSET Objects, NEW n \in Nat
      PROVE  /\ [s EXCEPT !.todo = t] \in ScanState
             /\ [s EXCEPT !.todo = t, !.full = TRUE] \in ScanState
             /\ [s EXCEPT !.todo = t, !.at = n] \in ScanState
  BY DEF ScanState
<1>4. ASSUME NEW t \in SUBSET Objects, NEW o \in Objects, NEW m \in Nat
      PROVE  [s EXCEPT !.todo = t, !.best = o, !.load = m] \in ScanState
  BY DEF ScanState
<1>5. ASSUME NEW t \in SUBSET Objects, NEW n \in Nat
      PROVE  [s EXCEPT !.todo = t, !.best = NoObject, !.load = 0, !.at = n]
               \in ScanState
  BY DEF ScanState
<1>6. \A o \in Objects : [s EXCEPT !.best = o] \in ScanState
  BY DEF ScanState
<1>7. \A w \in AccountIds \cup {NoId}, n \in Nat :
        [s EXCEPT !.want = w, !.at = n] \in ScanState
  BY DEF ScanState
<1>8. \A t \in SUBSET Objects : /\ [s EXCEPT !.todo = t] \in ScanState
                                /\ [s EXCEPT !.todo = t, !.full = TRUE] \in ScanState
  BY <1>3
<1>9. QED
  BY <1>1, <1>2, <1>3, <1>4, <1>5, <1>6, <1>7, <1>8

\* And each says what becomes of the accounts to examine and of the best one.
LEMMA ScanFields ==
  ASSUME NEW s \in ScanState
  PROVE  /\ NoScan.todo = {} /\ NoScan.best = NoObject
         /\ \A w, n : /\ [s EXCEPT !.want = w, !.at = n].todo = s.todo
                      /\ [s EXCEPT !.want = w, !.at = n].best = s.best
         /\ \A o : /\ [s EXCEPT !.best = o].todo = s.todo
                   /\ [s EXCEPT !.best = o].best = o
         /\ \A t : /\ [s EXCEPT !.todo = t].todo = t
                   /\ [s EXCEPT !.todo = t].best = s.best
         /\ \A t : /\ [s EXCEPT !.todo = t, !.full = TRUE].todo = t
                   /\ [s EXCEPT !.todo = t, !.full = TRUE].best = s.best
         /\ \A t, n : /\ [s EXCEPT !.todo = t, !.at = n].todo = t
                      /\ [s EXCEPT !.todo = t, !.at = n].best = s.best
         /\ \A t, o, m : /\ [s EXCEPT !.todo = t, !.best = o, !.load = m].todo = t
                         /\ [s EXCEPT !.todo = t, !.best = o, !.load = m].best = o
         /\ \A n : /\ [s EXCEPT !.tries = n].todo = s.todo
                   /\ [s EXCEPT !.tries = n].best = s.best
BY DEF NoScan, ScanState

\* And so are those given to requestMeta.
LEMMA MetaTyped ==
  ASSUME NEW m \in MetaState
  PROVE  /\ NoMeta \in MetaState
         /\ [m EXCEPT !.fallback = TRUE] \in MetaState
         /\ [m EXCEPT !.attempts = 1, !.reused = TRUE] \in MetaState
         /\ [m EXCEPT !.attempts = 1] \in MetaState
         /\ [m EXCEPT !.cancelled = TRUE] \in MetaState
         /\ \A k \in Outcomes : [m EXCEPT !.outcome = k] \in MetaState
         /\ \A f \in BOOLEAN :
              [m EXCEPT !.attempts = @ + 1, !.outcome = "none", !.fallback = f]
                \in MetaState
<1>1. NoMeta \in MetaState
  BY DEF NoMeta, MetaState
<1>2. /\ [m EXCEPT !.fallback = TRUE] \in MetaState
      /\ [m EXCEPT !.attempts = 1] \in MetaState
      /\ [m EXCEPT !.cancelled = TRUE] \in MetaState
      /\ \A k \in Outcomes : [m EXCEPT !.outcome = k] \in MetaState
  BY DEF MetaState
<1>3. [m EXCEPT !.attempts = 1, !.reused = TRUE] \in MetaState
  BY DEF MetaState
<1>4. ASSUME NEW f \in BOOLEAN
      PROVE  [m EXCEPT !.attempts = @ + 1, !.outcome = "none", !.fallback = f]
               \in MetaState
  <2> DEFINE m1 == [m EXCEPT !.attempts = @ + 1]
             m2 == [m1 EXCEPT !.outcome = "none"]
  <2>1. m.attempts \in Nat /\ m.attempts + 1 \in Nat
    BY DEF MetaState
  <2>2. m1 \in MetaState
    BY <2>1 DEF MetaState
  <2>3. m2 \in MetaState
    <3> HIDE DEF m1
    <3> QED
      BY <2>2 DEF MetaState
  <2>4. [m2 EXCEPT !.fallback = f] \in MetaState
    <3> HIDE DEF m2
    <3> QED
      BY <2>3 DEF MetaState
  <2>5. [m EXCEPT !.attempts = @ + 1, !.outcome = "none", !.fallback = f]
          = [m2 EXCEPT !.fallback = f]
    BY DEF MetaState
  <2>6. QED
    BY <2>4, <2>5
<1>5. QED
  BY <1>1, <1>2, <1>3, <1>4

\* Every variable starts with its type.
LEMMA InitType == Init => TypeOK
<1> SUFFICES ASSUME Init PROVE TypeOK
  OBVIOUS
<1>1. config \in [Objects -> Config]
  <2>1. (CHOOSE c \in Configs : TRUE) \in Config
    BY PoolAssumption
  <2>2. QED
    BY <2>1, PoolAssumption DEF Init
<1>2. ident \in [Objects -> AccountIds \cup {NoId}]
  BY PoolAssumption DEF Init
<1>3. NoScan \in ScanState /\ NoMeta \in MetaState
  BY DEF NoScan, NoMeta, ScanState, MetaState
<1>4. managed \subseteq Objects /\ pool \subseteq Objects
  BY PoolAssumption DEF Init
<1>5. QED
  BY <1>1, <1>2, <1>3, <1>4 DEF Init, TypeOK, Locations, NoProbe

-----------------------------------------------------------------------------
(* Types.                                                                  *)

ScanOK == scan \in [Requests -> ScanState]
MetaOK == meta \in [Requests -> MetaState]
PcOK   == pc \in [Requests -> Locations]
SlotsOK == /\ active \in [Objects -> Nat]
           /\ acct \in [Requests -> Objects \cup {NoObject}]
           /\ next \in [Requests -> Objects \cup {NoObject}]

\* The locals of a request stay typed when they are replaced by typed ones.
LEMMA LocalsTyped ==
  ASSUME TypeOK, NEW r \in Requests
  PROVE  /\ scan[r] \in ScanState /\ meta[r] \in MetaState
         /\ \A s \in ScanState : SetScan(r, s) => ScanOK'
         /\ \A m \in MetaState : SetMeta(r, m) => MetaOK'
         /\ \A l \in Locations : Goto(r, l) => PcOK'
<1>1. scan[r] \in ScanState /\ meta[r] \in MetaState
  BY DEF TypeOK
<1>2. \A s \in ScanState : SetScan(r, s) => ScanOK'
  BY DEF TypeOK, SetScan, ScanOK
<1>3. \A m \in MetaState : SetMeta(r, m) => MetaOK'
  BY DEF TypeOK, SetMeta, MetaOK
<1>4. \A l \in Locations : Goto(r, l) => PcOK'
  BY DEF TypeOK, Goto, PcOK
<1>5. QED
  BY <1>1, <1>2, <1>3, <1>4

\* A request that holds a slot of o is counted in active[o].
LEMMA HeldIsCounted ==
  ASSUME TypeOK, SlotConservation, NEW o \in Objects, NEW r \in Holders(o)
  PROVE  active[o] \in Nat \ {0}
<1>1. IsFiniteSet(Holders(o))
  BY PoolAssumption, FS_Subset DEF Holders
<1>2. Cardinality(Holders(o)) # 0
  BY <1>1, FS_EmptySet
<1>3. QED
  BY <1>2 DEF SlotConservation, TypeOK

\* The steps that look for an account keep the type of every variable.
LEMMA RouteType ==
  ASSUME TypeOK, Placement, NEW r \in Requests,
         \/ RouteAccount(r) \/ EligibleAccount(r) \/ ReserveSticky(r)
         \/ PickAccount(r) \/ ScanAccount(r) \/ TryAcquire(r) \/ LoseSlot(r)
         \/ NoAccount(r) \/ BindSession(r)
  PROVE  TypeOK'
<1> USE DEF Locations, poolVars, history
<1>0. /\ scan[r] \in ScanState /\ meta[r] \in MetaState
      /\ NoScan \in ScanState
      /\ \A s \in ScanState : SetScan(r, s) => ScanOK'
      /\ \A m \in MetaState : SetMeta(r, m) => MetaOK'
      /\ \A l \in Locations : Goto(r, l) => PcOK'
  BY LocalsTyped, ScanTyped
<1>1. CASE RouteAccount(r)
  <2>1. PcOK'
    BY <1>0, <1>1 DEF RouteAccount
  <2>2. ScanOK'
    <3>1. CASE UsesAffinity(r)
      <4>1. bound[SessionOf[r]] \in AccountIds \cup {NoId}
        BY <3>1, PoolAssumption DEF UsesAffinity, TypeOK
      <4>2. [scan[r] EXCEPT !.want = bound[SessionOf[r]], !.at = now] \in ScanState
        BY <1>0, <4>1, ScanTyped DEF TypeOK
      <4>3. QED
        BY <1>0, <1>1, <4>2 DEF RouteAccount, TypeOK, ScanOK
    <3>2. CASE ~UsesAffinity(r)
      BY <1>1, <3>2 DEF RouteAccount, TypeOK, ScanOK
    <3>3. QED
      BY <3>1, <3>2
  <2>3. QED
    BY <1>1, <2>1, <2>2 DEF RouteAccount, TypeOK, PcOK, ScanOK
<1>2. CASE EligibleAccount(r)
  <2>1. PcOK'
    BY <1>0, <1>2 DEF EligibleAccount
  <2>2. ScanOK'
    <3>1. \A o \in Sticky(r) : [scan[r] EXCEPT !.best = o] \in ScanState
      BY <1>0, ScanTyped DEF Sticky, TypeOK
    <3>2. QED
      BY <1>0, <1>2, <3>1 DEF EligibleAccount
  <2>3. MetaOK'
    <3>1. [meta[r] EXCEPT !.fallback = TRUE] \in MetaState
      BY <1>0, MetaTyped
    <3>2. QED
      BY <1>0, <1>2, <3>1 DEF EligibleAccount, TypeOK, MetaOK
  <2>4. QED
    BY <1>2, <2>1, <2>2, <2>3 DEF EligibleAccount, TypeOK, PcOK, ScanOK, MetaOK
<1>3. CASE ReserveSticky(r)
  <2>1. PcOK'
    BY <1>0, <1>3 DEF ReserveSticky
  <2>2. ScanOK'
    BY <1>0, <1>3 DEF ReserveSticky
  <2>3. MetaOK'
    <3>1. /\ [meta[r] EXCEPT !.attempts = 1, !.reused = TRUE] \in MetaState
          /\ [meta[r] EXCEPT !.fallback = TRUE] \in MetaState
      BY <1>0, MetaTyped
    <3>2. QED
      BY <1>0, <1>3, <3>1 DEF ReserveSticky
  <2>4. SlotsOK'
    <3>1. scan[r].best \in Objects
      BY <1>0, <1>3 DEF ReserveSticky, Placement, Placed, ScanState
    <3>2. active[scan[r].best] + 1 \in Nat
      BY <3>1 DEF TypeOK
    <3>3. active' \in [Objects -> Nat]
      BY <1>3, <3>2 DEF ReserveSticky, TypeOK
    <3>4. acct' \in [Requests -> Objects \cup {NoObject}]
      BY <1>3, <3>1 DEF ReserveSticky, TypeOK
    <3>5. next' \in [Requests -> Objects \cup {NoObject}]
      BY <1>3, <3>1 DEF ReserveSticky, TypeOK
    <3>6. QED
      BY <3>3, <3>4, <3>5 DEF SlotsOK
  <2>5. QED
    BY <1>3, <2>1, <2>2, <2>3, <2>4
       DEF ReserveSticky, TypeOK, PcOK, ScanOK, MetaOK, SlotsOK
<1>4. CASE PickAccount(r)
  <2>1. PcOK'
    BY <1>0, <1>4 DEF PickAccount
  <2>2. [scan[r] EXCEPT !.todo = pool, !.best = NoObject, !.load = 0, !.at = now]
          \in ScanState
    BY <1>0, ScanTyped DEF TypeOK
  <2>3. ScanOK'
    BY <1>0, <1>4, <2>2 DEF PickAccount
  <2>4. QED
    BY <1>4, <2>1, <2>3 DEF PickAccount, TypeOK, PcOK, ScanOK
<1>5. CASE ScanAccount(r)
  <2>1. PICK o \in scan[r].todo :
          \/ SetScan(r, [scan[r] EXCEPT !.todo = @ \ {o}, !.best = o,
                                         !.load = active[o] + 1])
          \/ SetScan(r, [scan[r] EXCEPT !.todo = @ \ {o}])
    BY <1>5 DEF ScanAccount
  <2>2. /\ o \in Objects /\ scan[r].todo \ {o} \in SUBSET Objects
        /\ active[o] + 1 \in Nat
    BY <1>0 DEF ScanState, TypeOK
  <2>3. /\ [scan[r] EXCEPT !.todo = @ \ {o}, !.best = o, !.load = active[o] + 1]
             \in ScanState
        /\ [scan[r] EXCEPT !.todo = @ \ {o}] \in ScanState
    BY <1>0, <2>2, ScanTyped
  <2>4. ScanOK'
    BY <1>0, <2>1, <2>3
  <2>5. QED
    BY <1>5, <2>4 DEF ScanAccount, TypeOK, ScanOK
<1>6. CASE TryAcquire(r)
  <2>1. PcOK'
    BY <1>0, <1>6 DEF TryAcquire
  <2>2. ScanOK'
    BY <1>0, <1>6 DEF TryAcquire
  <2>3. MetaOK'
    <3>1. [meta[r] EXCEPT !.attempts = 1] \in MetaState
      BY <1>0, MetaTyped
    <3>2. QED
      BY <1>0, <1>6, <3>1 DEF TryAcquire, TypeOK, MetaOK
  <2>4. SlotsOK'
    <3>1. scan[r].best \in Objects
      BY <1>0, <1>6 DEF TryAcquire, Picked, ScanState
    <3>2. active[scan[r].best] + 1 \in Nat
      BY <3>1 DEF TypeOK
    <3>3. active' \in [Objects -> Nat]
      BY <1>6, <3>2 DEF TryAcquire, TypeOK
    <3>4. acct' \in [Requests -> Objects \cup {NoObject}]
      BY <1>6, <3>1 DEF TryAcquire, TypeOK
    <3>5. next' \in [Requests -> Objects \cup {NoObject}]
      BY <1>6, <3>1 DEF TryAcquire, TypeOK
    <3>6. QED
      BY <3>3, <3>4, <3>5 DEF SlotsOK
  <2>5. QED
    BY <1>6, <2>1, <2>2, <2>3, <2>4
       DEF TryAcquire, TypeOK, PcOK, ScanOK, MetaOK, SlotsOK
<1>7. CASE LoseSlot(r)
  <2>1. PcOK'
    BY <1>0, <1>7 DEF LoseSlot, GiveUpOrRescan
  <2>2. ScanOK'
    BY <1>0, <1>7, ScanTyped DEF LoseSlot, GiveUpOrRescan
  <2>3. QED
    BY <1>7, <2>1, <2>2 DEF LoseSlot, TypeOK, PcOK, ScanOK
<1>8. CASE NoAccount(r)
  <2>1. PcOK' /\ ScanOK'
    BY <1>0, <1>8 DEF NoAccount
  <2>2. QED
    BY <1>8, <2>1 DEF NoAccount, TypeOK, PcOK, ScanOK
<1>9. CASE BindSession(r)
  <2>1. PcOK'
    BY <1>0, <1>9 DEF BindSession
  <2>2. acct[r] \in Objects
    BY <1>9 DEF BindSession, Placement, Placed, InFlight, TypeOK
  <2>3. bound' \in [Sessions -> AccountIds \cup {NoId}]
    BY <1>9, <2>2 DEF BindSession, BoundTo, TypeOK
  <2>4. QED
    BY <1>9, <2>1, <2>3 DEF BindSession, TypeOK, PcOK
<1>10. QED
  BY <1>1, <1>2, <1>3, <1>4, <1>5, <1>6, <1>7, <1>8, <1>9

\* So do the steps that refuse a request, and the end of its context.
LEMMA RefuseType ==
  ASSUME TypeOK, NEW r \in Requests,
         \/ StartCensus(r) \/ CountAccount(r) \/ EndCensus(r) \/ Refuse(r)
         \/ Cancel(r)
  PROVE  TypeOK'
<1> USE DEF Locations, poolVars, history
<1>0. /\ scan[r] \in ScanState /\ meta[r] \in MetaState
      /\ NoScan \in ScanState /\ NoMeta \in MetaState
      /\ \A s \in ScanState : SetScan(r, s) => ScanOK'
      /\ \A m \in MetaState : SetMeta(r, m) => MetaOK'
      /\ \A l \in Locations : Goto(r, l) => PcOK'
  BY LocalsTyped, ScanTyped, MetaTyped
<1>1. CASE StartCensus(r)
  <2>1. PcOK'
    BY <1>0, <1>1 DEF StartCensus
  <2>2. [scan[r] EXCEPT !.todo = pool, !.at = now] \in ScanState
    BY <1>0, ScanTyped DEF TypeOK
  <2>3. ScanOK'
    BY <1>0, <1>1, <2>2 DEF StartCensus
  <2>4. QED
    BY <1>1, <2>1, <2>3 DEF StartCensus, TypeOK, PcOK, ScanOK
<1>2. CASE CountAccount(r)
  <2>1. PcOK'
    BY <1>0, <1>2 DEF CountAccount, TypeOK, PcOK
  <2>2. \A o \in scan[r].todo :
          /\ [scan[r] EXCEPT !.todo = @ \ {o}] \in ScanState
          /\ [scan[r] EXCEPT !.todo = @ \ {o}, !.full = TRUE] \in ScanState
    <3>1. \A o \in scan[r].todo : scan[r].todo \ {o} \in SUBSET Objects
      BY <1>0 DEF ScanState
    <3>2. QED
      BY <1>0, <3>1, ScanTyped
  <2>3. ScanOK'
    BY <1>0, <1>2, <2>2 DEF CountAccount
  <2>4. QED
    BY <1>2, <2>1, <2>3 DEF CountAccount, TypeOK, PcOK, ScanOK
<1>3. CASE EndCensus(r)
  <2>1. PcOK' /\ ScanOK'
    BY <1>0, <1>3 DEF EndCensus
  <2>2. QED
    BY <1>3, <2>1 DEF EndCensus, TypeOK, PcOK, ScanOK
<1>4. CASE Refuse(r)
  <2>1. PcOK' /\ MetaOK'
    BY <1>0, <1>4 DEF Refuse
  <2>2. QED
    BY <1>4, <2>1 DEF Refuse, TypeOK, PcOK, MetaOK
<1>5. CASE Cancel(r)
  <2>1. MetaOK'
    BY <1>0, <1>5, MetaTyped DEF Cancel
  <2>2. QED
    BY <1>5, <2>1 DEF Cancel, TypeOK, MetaOK
<1>6. QED
  BY <1>1, <1>2, <1>3, <1>4, <1>5

ChargedOK == /\ blocked \in [Objects -> Nat]
             /\ charged \in [Requests -> Seq(CallState)]
LedgerOK == ledger \in [Requests -> Seq(EntryState)]

\* Charging a received outcome to the account of the request.
LEMMA ChargeType ==
  ASSUME TypeOK, Placement, NEW r \in Requests,
         pc[r] \in {"mark", "deliver"}, ChargeOutcome(r)
  PROVE  ChargedOK'
<1>1. acct[r] \in Objects /\ meta[r].outcome \in Outcomes
  BY DEF Placement, Placed, InFlight, Answered, TypeOK, MetaState
<1>2. Call(acct[r], meta[r].outcome) \in CallState
  BY <1>1 DEF Call, CallState
<1>3. charged[r] \in Seq(CallState)
  BY DEF TypeOK
<1>4. Append(charged[r], Call(acct[r], meta[r].outcome)) \in Seq(CallState)
  BY <1>2, <1>3
<1>5. charged' \in [Requests -> Seq(CallState)]
  BY <1>4 DEF ChargeOutcome, Blamed, TypeOK
<1>6. PICK h \in Nat : Mark(acct[r], meta[r].outcome, h)
  BY PoolAssumption DEF ChargeOutcome, Blamed
<1>7. BlockedUntil(meta[r].outcome, h) \in Nat
  BY <1>1, PoolAssumption, BlockedUntilNat DEF TypeOK
<1>8. blocked' \in [Objects -> Nat]
  BY <1>6, <1>7 DEF Mark, TypeOK
<1>9. QED
  BY <1>5, <1>8 DEF ChargedOK

\* Booking a request that holds an account.
LEMMA RecordType ==
  ASSUME TypeOK, Placement, NEW r \in Requests,
         pc[r] \in {"deliver", "body"}, RecordMeta(r)
  PROVE  LedgerOK'
<1>1. acct[r] \in Objects /\ meta[r].outcome \in Outcomes
      /\ meta[r].attempts \in Nat
  BY DEF Placement, Placed, InFlight, Answered, TypeOK, MetaState
<1>2. ident[acct[r]] \in AccountIds \cup {NoId}
  BY <1>1 DEF TypeOK
<1> DEFINE e == [account |-> ident[acct[r]], attempts |-> meta[r].attempts,
                 status |-> meta[r].outcome]
<1>3. e \in EntryState
  BY <1>1, <1>2 DEF EntryState
<1>4. <<e>> \in Seq(EntryState)
  BY <1>3
<1>5. ledger[r] \in Seq(EntryState)
  BY DEF TypeOK
<1>6. QED
  BY <1>4, <1>5 DEF RecordMeta, Booked, LedgerOK, TypeOK

\* The forwarding steps keep the type of every variable: a slot given back was
\* held, so its count was positive.
LEMMA ForwardType ==
  ASSUME TypeOK, Placement, SlotConservation, NEW r \in Requests,
         \/ RoundTrip(r) \/ MarkPrevious(r) \/ SwitchAccount(r)
         \/ ModifyResponse(r) \/ CloseBody(r) \/ ErrorHandler(r) \/ Release(r)
  PROVE  TypeOK'
<1> USE DEF Locations, poolVars, history
<1>0. /\ meta[r] \in MetaState /\ NoMeta \in MetaState
      /\ \A m \in MetaState : SetMeta(r, m) => MetaOK'
      /\ \A l \in Locations : Goto(r, l) => PcOK'
  BY LocalsTyped, MetaTyped
<1>1. CASE RoundTrip(r)
  <2>1. PICK k \in Outcomes :
          /\ SetMeta(r, [meta[r] EXCEPT !.outcome = k])
          /\ calls' = [calls EXCEPT ![r] = Append(@, Call(acct[r], k))]
          /\ \E l \in {"select", "deliver"} : Goto(r, l)
    BY <1>1, PoolAssumption DEF RoundTrip, NoResponse
  <2>2. PcOK' /\ MetaOK'
    BY <1>0, <2>1, MetaTyped
  <2>3. acct[r] \in Objects
    BY <1>1 DEF RoundTrip, Placement, Placed, InFlight, TypeOK
  <2>4. Call(acct[r], k) \in CallState
    BY <2>3 DEF Call, CallState
  <2>5. calls[r] \in Seq(CallState)
    BY DEF TypeOK
  <2>6. Append(calls[r], Call(acct[r], k)) \in Seq(CallState)
    BY <2>4, <2>5
  <2>7. calls' \in [Requests -> Seq(CallState)]
    BY <2>1, <2>6 DEF TypeOK
  <2>8. QED
    BY <1>1, <2>2, <2>7 DEF RoundTrip, TypeOK, PcOK, MetaOK
<1>2. CASE MarkPrevious(r)
  <2>1. PcOK' /\ ChargedOK'
    BY <1>0, <1>2, ChargeType DEF MarkPrevious
  <2>2. QED
    BY <1>2, <2>1 DEF MarkPrevious, TypeOK, PcOK, ChargedOK
<1>3. CASE SwitchAccount(r)
  <2>1. acct[r] \in Objects /\ r \in Holders(acct[r])
    BY <1>3 DEF SwitchAccount, Placement, Placed, InFlight, TypeOK, Holders
  <2>2. active[acct[r]] - 1 \in Nat
    BY <2>1, HeldIsCounted
  <2>3. active' \in [Objects -> Nat]
    BY <1>3, <2>2 DEF SwitchAccount, ReleaseSlot, TypeOK
  <2>4. /\ acct' \in [Requests -> Objects \cup {NoObject}]
        /\ next' \in [Requests -> Objects \cup {NoObject}]
    BY <1>3 DEF SwitchAccount, TypeOK
  <2>5. (meta[r].fallback \/ UsesAffinity(r)) \in BOOLEAN
    OBVIOUS
  <2>6. PcOK'
    BY <1>0, <1>3 DEF SwitchAccount
  <2>7. MetaOK'
    BY <1>0, <1>3, <2>5, MetaTyped DEF SwitchAccount
  <2>8. QED
    BY <1>3, <2>3, <2>4, <2>6, <2>7 DEF SwitchAccount, TypeOK, PcOK, MetaOK
<1>4. CASE ModifyResponse(r)
  <2>1. PcOK' /\ ChargedOK'
    BY <1>0, <1>4, ChargeType DEF ModifyResponse
  <2>2. QED
    BY <1>4, <2>1 DEF ModifyResponse, TypeOK, PcOK, ChargedOK
<1>5. CASE CloseBody(r)
  <2>1. PcOK' /\ LedgerOK'
    BY <1>0, <1>5, RecordType DEF CloseBody
  <2>2. QED
    BY <1>5, <2>1 DEF CloseBody, TypeOK, PcOK, LedgerOK
<1>6. CASE ErrorHandler(r)
  <2>1. PcOK' /\ ChargedOK' /\ LedgerOK'
    BY <1>0, <1>6, ChargeType, RecordType DEF ErrorHandler
  <2>2. QED
    BY <1>6, <2>1 DEF ErrorHandler, TypeOK, PcOK, ChargedOK, LedgerOK
<1>7. CASE Release(r)
  <2>1. acct[r] \in Objects /\ r \in Holders(acct[r])
    BY <1>7 DEF Release, Placement, Placed, InFlight, TypeOK, Holders
  <2>2. active[acct[r]] - 1 \in Nat
    BY <2>1, HeldIsCounted
  <2>3. active' \in [Objects -> Nat]
    BY <1>7, <2>2 DEF Release, ReleaseSlot, HeldAtReturn, TypeOK
  <2>4. acct' \in [Requests -> Objects \cup {NoObject}]
    BY <1>7 DEF Release, TypeOK
  <2>5. /\ calls' \in [Requests -> Seq(CallState)]
        /\ charged' \in [Requests -> Seq(CallState)]
        /\ ledger' \in [Requests -> Seq(EntryState)]
    BY <1>7 DEF Release, TypeOK
  <2>6. PcOK' /\ MetaOK'
    BY <1>0, <1>7 DEF Release
  <2>7. QED
    BY <1>7, <2>3, <2>4, <2>5, <2>6 DEF Release, TypeOK, PcOK, MetaOK
<1>8. QED
  BY <1>1, <1>2, <1>3, <1>4, <1>5, <1>6, <1>7

\* And so do the admin calls, the poller, the clock and the affinity table.
LEMMA OutsideType ==
  ASSUME TypeOK,
         \/ Tick
         \/ \E s \in Sessions : ForgetSession(s)
         \/ \E p \in Operators : Operate(p)
  PROVE  TypeOK'
<1> USE DEF poolVars, history
<1>1. CASE Tick
  BY <1>1 DEF Tick, TypeOK
<1>2. CASE \E s \in Sessions : ForgetSession(s)
  BY <1>2 DEF ForgetSession, TypeOK
<1>3. ASSUME NEW p \in Operators, Operate(p) PROVE TypeOK'
  <2> DEFINE ProbeState == [obj : Objects \cup {NoObject},
                            kind : {"none", "poll", "test"}]
  <2>0. /\ NoProbe \in ProbeState
        /\ \A o \in Objects, k \in {"poll", "test"} : Probe(o, k) \in ProbeState
    BY DEF NoProbe, Probe
  <2>1. CASE CreateManagedAccount(p)
    <3>1. PICK o \in Objects, id \in AccountIds, c \in Configs :
            /\ Allocate(o, id, c)
            /\ pool' = pool \cup {o}
            /\ PollAfter(p, o, c)
      BY <2>1 DEF CreateManagedAccount
    <3>2. /\ ident' \in [Objects -> AccountIds \cup {NoId}]
          /\ config' \in [Objects -> Config]
          /\ managed' \subseteq Objects
      BY <3>1, PoolAssumption DEF Allocate, TypeOK
    <3>3. probe' \in [Operators -> ProbeState]
      BY <2>0, <3>1 DEF PollAfter, TypeOK
    <3>4. QED
      BY <2>1, <3>1, <3>2, <3>3 DEF CreateManagedAccount, TypeOK
  <2>2. CASE UpdateManagedAccount(p)
    <3>1. PICK old \in pool, o \in Objects, c \in Configs :
            /\ Allocate(o, ident[old], c)
            /\ pool' = (pool \ {old}) \cup {o}
            /\ PollAfter(p, o, c)
      BY <2>2 DEF UpdateManagedAccount
    <3>2. ident[old] \in AccountIds \cup {NoId}
      BY DEF TypeOK
    <3>3. /\ ident' \in [Objects -> AccountIds \cup {NoId}]
          /\ config' \in [Objects -> Config]
          /\ managed' \subseteq Objects
      BY <3>1, <3>2, PoolAssumption DEF Allocate, TypeOK
    <3>4. probe' \in [Operators -> ProbeState]
      BY <2>0, <3>1 DEF PollAfter, TypeOK
    <3>5. QED
      BY <2>2, <3>1, <3>3, <3>4 DEF UpdateManagedAccount, TypeOK
  <2>3. CASE RemoveManagedAccount(p)
    BY <2>3 DEF RemoveManagedAccount, TypeOK
  <2>4. CASE StartProbe(p)
    <3>1. probe' \in [Operators -> ProbeState]
      BY <2>0, <2>4 DEF StartProbe, TypeOK
    <3>2. QED
      BY <2>4, <3>1 DEF StartProbe, TypeOK
  <2>5. CASE FinishProbe(p)
    <3>1. \A k \in Outcomes : BlockedUntil(k, 0) \in Nat
      BY BlockedUntilNat, PoolAssumption DEF TypeOK
    <3>2. blocked' \in [Objects -> Nat]
      BY <2>5, <3>1 DEF FinishProbe, Mark, TypeOK
    <3>3. probe' \in [Operators -> ProbeState]
      BY <2>0, <2>5 DEF FinishProbe, TypeOK
    <3>4. QED
      BY <2>5, <3>2, <3>3 DEF FinishProbe, TypeOK
  <2>6. QED
    BY <1>3, <2>1, <2>2, <2>3, <2>4, <2>5 DEF Operate
<1>4. QED
  BY <1>1, <1>2, <1>3

\* Every step of the system keeps the types, given where each request stands and
\* whose slots are counted.
LEMMA TypeStep ==
  ASSUME TypeOK, Placement, SlotConservation, [Next]_vars
  PROVE  TypeOK'
<1>1. CASE UNCHANGED vars
  BY <1>1 DEF vars, TypeOK
<1>2. CASE Next
  BY <1>2, RouteType, RefuseType, ForwardType, OutsideType DEF Next, Serve
<1>3. QED
  BY <1>1, <1>2

-----------------------------------------------------------------------------
(* What a step leaves alone.                                               *)

Handles(r) == RouteAccount(r) \/ Cancel(r) \/ Serve(r)
Outside == \/ Tick
           \/ \E s \in Sessions : ForgetSession(s)
           \/ \E p \in Operators : Operate(p)

SameLocals(q) ==
  /\ pc'[q] = pc[q] /\ acct'[q] = acct[q] /\ next'[q] = next[q]
  /\ scan'[q] = scan[q] /\ meta'[q] = meta[q]

SameControl(q) ==
  /\ pc'[q] = pc[q] /\ acct'[q] = acct[q] /\ next'[q] = next[q]
  /\ meta'[q] = meta[q]

\* The handler of one request touches neither the accounts nor the locals of
\* another request.
LEMMA HandlesFrame ==
  ASSUME TypeOK, NEW r \in Requests, Handles(r)
  PROVE  /\ UNCHANGED poolVars
         /\ \A q \in Requests \ {r} : SameLocals(q)
<1> USE DEF poolVars, history, SameLocals, TypeOK, Goto, SetScan, SetMeta
<1>1. CASE RouteAccount(r) \/ EligibleAccount(r) \/ PickAccount(r)
  BY <1>1 DEF RouteAccount, EligibleAccount, PickAccount
<1>2. CASE ReserveSticky(r) \/ ScanAccount(r)
  BY <1>2 DEF ReserveSticky, ScanAccount
<1>3. CASE TryAcquire(r)
  BY <1>3 DEF TryAcquire
<1>4. CASE LoseSlot(r) \/ NoAccount(r) \/ BindSession(r)
  BY <1>4 DEF LoseSlot, GiveUpOrRescan, NoAccount, BindSession
<1>5. CASE StartCensus(r) \/ CountAccount(r) \/ EndCensus(r)
  BY <1>5 DEF StartCensus, CountAccount, EndCensus
<1>6. CASE Refuse(r) \/ Cancel(r) \/ RoundTrip(r)
  BY <1>6 DEF Refuse, Cancel, RoundTrip
<1>7. CASE MarkPrevious(r) \/ SwitchAccount(r) \/ ModifyResponse(r)
  BY <1>7 DEF MarkPrevious, SwitchAccount, ModifyResponse
<1>8. CASE CloseBody(r) \/ ErrorHandler(r) \/ Release(r)
  BY <1>8 DEF CloseBody, ErrorHandler, Release
<1>9. QED
  BY <1>1, <1>2, <1>3, <1>4, <1>5, <1>6, <1>7, <1>8 DEF Handles, Serve

\* The others touch no request; they allocate at most one fresh object, and put
\* no object in the pool that is not allocated.
LEMMA OutsideFrame ==
  ASSUME Outside
  PROVE  /\ UNCHANGED <<active, pc, acct, next, scan, meta>>
         /\ \/ ident' = ident /\ config' = config /\ pool' \subseteq pool
            \/ \E o \in Objects, id \in AccountIds \cup {ident[q] : q \in pool},
                  c \in Configs :
                 /\ Allocate(o, id, c)
                 /\ pool' \subseteq pool \cup {o}
<1> USE DEF poolVars, history
<1>1. CASE Tick \/ \E s \in Sessions : ForgetSession(s)
  BY <1>1 DEF Tick, ForgetSession
<1>2. ASSUME NEW p \in Operators, Operate(p)
      PROVE  /\ UNCHANGED <<active, pc, acct, next, scan, meta>>
             /\ \/ ident' = ident /\ config' = config /\ pool' \subseteq pool
                \/ \E o \in Objects,
                      id \in AccountIds \cup {ident[q] : q \in pool}, c \in Configs :
                     /\ Allocate(o, id, c)
                     /\ pool' \subseteq pool \cup {o}
  <2>1. CASE CreateManagedAccount(p)
    BY <2>1 DEF CreateManagedAccount
  <2>2. CASE UpdateManagedAccount(p)
    BY <2>2 DEF UpdateManagedAccount
  <2>3. CASE RemoveManagedAccount(p) \/ StartProbe(p) \/ FinishProbe(p)
    BY <2>3 DEF RemoveManagedAccount, StartProbe, FinishProbe
  <2>4. QED
    BY <1>2, <2>1, <2>2, <2>3 DEF Operate
<1>3. QED
  BY <1>1, <1>2 DEF Outside

-----------------------------------------------------------------------------
(* Placement.                                                              *)

\* A handler's own step keeps its locals in agreement with its location.
LEMMA PlacedStep ==
  ASSUME TypeOK, Placement, NEW r \in Requests, Handles(r)
  PROVE  Placed(r)'
<1> USE DEF Placed, Answered, Retrying, InFlight, Unrouted, TypeOK, Goto,
           SetScan, SetMeta
<1>0. Placed(r) /\ NoObject \notin Objects
  BY PoolAssumption DEF Placement
<1>1. CASE RouteAccount(r)
  BY <1>0, <1>1 DEF RouteAccount
<1>2. CASE EligibleAccount(r)
  <2>1. /\ pc[r] = "sticky" /\ acct'[r] = acct[r] /\ next'[r] = next[r]
        /\ pc'[r] = "reserve" \/ pc'[r] = "select"
    BY <1>2 DEF EligibleAccount
  <2>2. CASE pc'[r] = "reserve"
    <3>1. PICK o \in pool : SetScan(r, [scan[r] EXCEPT !.best = o])
      BY <1>2, <2>2 DEF EligibleAccount, Sticky
    <3>2. scan'[r].best = o /\ o \in Objects
      BY <3>1 DEF ScanState
    <3>3. QED
      BY <1>0, <2>1, <2>2, <3>2
  <2>3. CASE pc'[r] = "select"
    BY <1>0, <2>1, <2>3
  <2>4. QED
    BY <2>1, <2>2, <2>3
<1>3. CASE ReserveSticky(r)
  BY <1>0, <1>3 DEF ReserveSticky
<1>4. CASE PickAccount(r)
  BY <1>0, <1>4 DEF PickAccount
<1>5. CASE ScanAccount(r)
  <2>1. SameControl(r) /\ pc[r] = "scan"
    BY <1>5 DEF ScanAccount, SameControl
  <2>2. QED
    BY <1>0, <2>1 DEF SameControl
<1>6. CASE TryAcquire(r)
  BY <1>0, <1>6 DEF TryAcquire, Picked
<1>7. CASE LoseSlot(r)
  BY <1>0, <1>7 DEF LoseSlot, Picked, GiveUpOrRescan
<1>8. CASE NoAccount(r)
  BY <1>0, <1>8 DEF NoAccount
<1>9. CASE BindSession(r)
  BY <1>0, <1>9 DEF BindSession
<1>10. CASE StartCensus(r) \/ CountAccount(r) \/ EndCensus(r) \/ Refuse(r)
  BY <1>0, <1>10 DEF StartCensus, CountAccount, EndCensus, Refuse
<1>11. CASE Cancel(r)
  BY <1>0, <1>11 DEF Cancel
<1>12. CASE RoundTrip(r)
  <2>1. PICK k \in Outcomes :
          /\ SetMeta(r, [meta[r] EXCEPT !.outcome = k])
          /\ \E l \in {"select", "deliver"} : Goto(r, l)
    BY <1>12, PoolAssumption DEF RoundTrip, NoResponse
  <2>2. k # "none"
    BY PoolAssumption DEF StatusClasses, NoResponse
  <2>3. /\ pc[r] = "upstream" /\ pc'[r] \in {"select", "deliver"}
        /\ meta'[r].outcome = k
        /\ acct' = acct /\ next' = next /\ scan' = scan
    BY <1>12, <2>1 DEF RoundTrip, MetaState
  <2>4. QED
    BY <1>0, <2>2, <2>3
<1>13. CASE MarkPrevious(r) \/ SwitchAccount(r)
  BY <1>0, <1>13 DEF MarkPrevious, SwitchAccount
<1>14. CASE ModifyResponse(r) \/ CloseBody(r) \/ ErrorHandler(r)
  BY <1>0, <1>14 DEF ModifyResponse, CloseBody, ErrorHandler
<1>15. CASE Release(r)
  BY <1>0, <1>15 DEF Release
<1>16. QED
  BY <1>1, <1>2, <1>3, <1>4, <1>5, <1>6, <1>7, <1>8, <1>9, <1>10, <1>11, <1>12,
     <1>13, <1>14, <1>15 DEF Handles, Serve

\* Every step keeps the locals of all requests in agreement with their locations.
LEMMA PlacementStep ==
  ASSUME TypeOK, Placement, [Next]_vars
  PROVE  Placement'
<1> USE DEF Placed, Answered, Retrying
<1>1. ASSUME NEW r \in Requests, Handles(r) PROVE Placement'
  <2>1. \A q \in Requests \ {r} : Placed(q)'
    BY <1>1, HandlesFrame DEF Placement, SameLocals
  <2>2. Placed(r)'
    BY <1>1, PlacedStep
  <2>3. QED
    BY <2>1, <2>2 DEF Placement
<1>2. CASE Outside
  BY <1>2, OutsideFrame DEF Placement
<1>3. CASE UNCHANGED vars
  BY <1>3 DEF vars, Placement
<1>4. QED
  BY <1>1, <1>2, <1>3 DEF Next, Handles, Outside

-----------------------------------------------------------------------------
(* Allocation, and the account a failover moves to.                        *)

\* A handler learns of objects from the pool only.
LEMMA RefsStep ==
  ASSUME TypeOK, NEW r \in Requests, Handles(r)
  PROVE  Refs(r)' \subseteq Refs(r) \cup pool
<1> DEFINE s == scan[r]
           Narrows == /\ scan'[r].todo \subseteq s.todo
                      /\ scan'[r].best \in {s.best, NoObject} \cup s.todo \cup pool
<1>0. s \in ScanState
  BY DEF TypeOK
<1>1. ASSUME Narrows, acct' = acct, next' = next
      PROVE  Refs(r)' \subseteq Refs(r) \cup pool
  BY <1>1 DEF Refs
<1>2. CASE RouteAccount(r)
  <2>1. \/ scan'[r] = [s EXCEPT !.want = bound[SessionOf[r]], !.at = now]
        \/ scan'[r] = s
    BY <1>2 DEF RouteAccount, SetScan, TypeOK
  <2>2. Narrows
    <3> HIDE DEF s
    <3> QED
      BY <1>0, <2>1 DEF ScanState
  <2>3. QED
    BY <1>1, <1>2, <2>2 DEF RouteAccount
<1>3. CASE EligibleAccount(r)
  <2>1. \/ \E o \in pool : scan'[r] = [s EXCEPT !.best = o]
        \/ scan'[r] = NoScan
    BY <1>3 DEF EligibleAccount, Sticky, SetScan, TypeOK
  <2>2. Narrows
    <3> HIDE DEF s
    <3>1. ASSUME NEW o \in pool, scan'[r] = [s EXCEPT !.best = o]
          PROVE  scan'[r].todo = s.todo /\ scan'[r].best = o
      BY <1>0, <3>1 DEF ScanState
    <3>2. CASE scan'[r] = NoScan
      BY <3>2 DEF NoScan
    <3>3. QED
      BY <2>1, <3>1, <3>2
  <2>3. QED
    BY <1>1, <1>3, <2>2 DEF EligibleAccount
<1>4. CASE ReserveSticky(r)
  BY <1>4 DEF ReserveSticky, Refs, SetScan, NoScan, TypeOK
<1>5. CASE PickAccount(r)
  <2>1. scan'[r] = [s EXCEPT !.todo = pool, !.best = NoObject, !.load = 0,
                             !.at = now]
    BY <1>5 DEF PickAccount, SetScan, TypeOK
  <2>2. scan'[r].todo = pool /\ scan'[r].best = NoObject
    <3> HIDE DEF s
    <3> QED
      BY <1>0, <2>1 DEF ScanState
  <2>3. QED
    BY <1>5, <2>2 DEF PickAccount, Refs
<1>6. CASE ScanAccount(r)
  <2>1. \E o \in s.todo :
          \/ scan'[r] = [s EXCEPT !.todo = @ \ {o}, !.best = o,
                                  !.load = active[o] + 1]
          \/ scan'[r] = [s EXCEPT !.todo = @ \ {o}]
    BY <1>6 DEF ScanAccount, SetScan, TypeOK
  <2>2. Narrows
    <3> HIDE DEF s
    <3> QED
      BY <1>0, <2>1 DEF ScanState
  <2>3. QED
    BY <1>1, <1>6, <2>2 DEF ScanAccount
<1>7. CASE TryAcquire(r)
  BY <1>7 DEF TryAcquire, Picked, Refs, SetScan, NoScan, TypeOK
<1>8. CASE LoseSlot(r)
  <2>1. scan'[r] = [s EXCEPT !.tries = @ + 1] \/ scan'[r] = NoScan
    BY <1>8 DEF LoseSlot, GiveUpOrRescan, SetScan, TypeOK
  <2>2. Narrows
    <3> HIDE DEF s
    <3> QED
      BY <1>0, <2>1 DEF ScanState, NoScan
  <2>3. QED
    BY <1>1, <1>8, <2>2 DEF LoseSlot
<1>9. CASE NoAccount(r)
  BY <1>9 DEF NoAccount, Refs, SetScan, NoScan, TypeOK
<1>10. CASE StartCensus(r)
  <2>1. scan'[r] = [s EXCEPT !.todo = pool, !.at = now]
    BY <1>10 DEF StartCensus, SetScan, TypeOK
  <2>2. scan'[r].todo = pool /\ scan'[r].best = s.best
    <3> HIDE DEF s
    <3> QED
      BY <1>0, <2>1 DEF ScanState
  <2>3. QED
    BY <1>10, <2>2 DEF StartCensus, Refs
<1>11. CASE CountAccount(r)
  <2>1. \/ \E o \in s.todo :
             \/ scan'[r] = [s EXCEPT !.todo = @ \ {o}]
             \/ scan'[r] = [s EXCEPT !.todo = @ \ {o}, !.full = TRUE]
        \/ scan'[r] = NoScan
    BY <1>11 DEF CountAccount, SetScan, TypeOK
  <2>2. Narrows
    <3> HIDE DEF s
    <3>1. ASSUME NEW o \in s.todo,
                 \/ scan'[r] = [s EXCEPT !.todo = @ \ {o}]
                 \/ scan'[r] = [s EXCEPT !.todo = @ \ {o}, !.full = TRUE]
          PROVE  scan'[r].todo = s.todo \ {o} /\ scan'[r].best = s.best
      BY <1>0, <3>1 DEF ScanState
    <3>2. CASE scan'[r] = NoScan
      BY <3>2 DEF NoScan
    <3>3. QED
      BY <2>1, <3>1, <3>2
  <2>3. QED
    BY <1>1, <1>11, <2>2 DEF CountAccount
<1>12. CASE EndCensus(r)
  BY <1>12 DEF EndCensus, Refs, SetScan, NoScan, TypeOK
<1>13. CASE BindSession(r) \/ Refuse(r) \/ Cancel(r) \/ RoundTrip(r)
  BY <1>13 DEF BindSession, Refuse, Cancel, RoundTrip, Refs
<1>14. CASE MarkPrevious(r) \/ ModifyResponse(r)
  BY <1>14 DEF MarkPrevious, ModifyResponse, Refs
<1>15. CASE SwitchAccount(r)
  BY <1>15 DEF SwitchAccount, Refs, TypeOK
<1>16. CASE CloseBody(r) \/ ErrorHandler(r) \/ Release(r)
  BY <1>16 DEF CloseBody, ErrorHandler, Release, Refs, TypeOK
<1>17. QED
  BY <1>2, <1>3, <1>4, <1>5, <1>6, <1>7, <1>8, <1>9, <1>10, <1>11, <1>12,
     <1>13, <1>14, <1>15, <1>16 DEF Handles, Serve

\* Outside a handler, an allocated object keeps its id and its settings.
LEMMA AllocatedKeeps ==
  ASSUME TypeOK, Allocated, Outside
  PROVE  /\ \A o \in Objects : ~Fresh(o) =>
               ident'[o] = ident[o] /\ config'[o] = config[o]
         /\ \A o \in pool' : ~Fresh(o)'
<1>1. CASE ident' = ident /\ config' = config /\ pool' \subseteq pool
  BY <1>1 DEF Allocated, Fresh
<1>2. ASSUME NEW n \in Objects,
             NEW id \in AccountIds \cup {ident[q] : q \in pool},
             NEW c \in Configs, Allocate(n, id, c), pool' \subseteq pool \cup {n}
      PROVE  /\ \A o \in Objects : ~Fresh(o) =>
                   ident'[o] = ident[o] /\ config'[o] = config[o]
             /\ \A o \in pool' : ~Fresh(o)'
  <2>1. id # NoId
    BY PoolAssumption DEF Allocated, Fresh
  <2>2. \A o \in Objects : ~Fresh(o) =>
           ident'[o] = ident[o] /\ config'[o] = config[o]
    BY <1>2 DEF Allocate, Fresh, TypeOK
  <2>3. ident'[n] = id
    BY <1>2 DEF Allocate, TypeOK
  <2>4. \A o \in pool : ident'[o] # NoId
    BY <2>2 DEF Allocated, Fresh, TypeOK
  <2>5. QED
    BY <1>2, <2>1, <2>2, <2>3, <2>4 DEF Fresh
<1>3. QED
  BY <1>1, <1>2, OutsideFrame

\* Every step keeps the pool and the requests on allocated objects.
LEMMA AllocatedStep ==
  ASSUME TypeOK, Allocated, [Next]_vars
  PROVE  Allocated'
<1>1. ASSUME NEW r \in Requests, Handles(r) PROVE Allocated'
  <2>1. ident' = ident /\ pool' = pool
    BY <1>1, HandlesFrame DEF poolVars
  <2>2. \A q \in Requests \ {r} : Refs(q)' = Refs(q)
    BY <1>1, HandlesFrame DEF SameLocals, Refs
  <2>3. Refs(r)' \subseteq Refs(r) \cup pool
    BY <1>1, RefsStep
  <2>4. QED
    BY <2>1, <2>2, <2>3 DEF Allocated, Fresh
<1>2. CASE Outside
  <2>1. \A r \in Requests : Refs(r)' = Refs(r) /\ Refs(r) \subseteq Objects
    BY <1>2, OutsideFrame DEF Refs, TypeOK, ScanState
  <2>2. QED
    BY <1>2, <2>1, AllocatedKeeps DEF Allocated, Fresh
<1>3. CASE UNCHANGED vars
  BY <1>3 DEF vars, Allocated, Refs, Fresh
<1>4. QED
  BY <1>1, <1>2, <1>3 DEF Next, Handles, Outside

\* A scan of a retry passes over the account it leaves, whatever object of the
\* pool now carries its id.
LEMMA ElsewhereForStep ==
  ASSUME TypeOK, Placement, Elsewhere, NEW r \in Requests, Handles(r)
  PROVE  ElsewhereFor(r)'
<1> USE DEF ElsewhereFor, TypeOK, Goto, SetScan, SetMeta, Retrying
<1>0. Placed(r) /\ ElsewhereFor(r) /\ ident' = ident /\ NoObject \notin Objects
  BY HandlesFrame, PoolAssumption DEF poolVars, Placement, Elsewhere
<1>1. CASE \/ RouteAccount(r) \/ EligibleAccount(r) \/ ReserveSticky(r)
           \/ LoseSlot(r) \/ NoAccount(r) \/ BindSession(r)
  <2>1. next' = next /\ next[r] = NoObject /\ pc'[r] # "scan"
    BY <1>0, <1>1 DEF RouteAccount, EligibleAccount, ReserveSticky, LoseSlot, Picked,
         GiveUpOrRescan, NoAccount, BindSession, Placed
  <2>2. QED
    BY <2>1
<1>2. CASE PickAccount(r)
  <2>1. next[r] = NoObject /\ next' = next /\ scan'[r].best = NoObject
    BY <1>0, <1>2 DEF PickAccount, Placed, ScanState
  <2>2. QED
    BY <2>1
<1>3. CASE ScanAccount(r)
  <2>1. next[r] = NoObject /\ next' = next /\ acct' = acct /\ pc' = pc
        /\ pc[r] = "scan"
    BY <1>0, <1>3 DEF ScanAccount, Placed
  <2>2. PICK o \in scan[r].todo :
          \/ /\ Selectable(r, o)
             /\ SetScan(r, [scan[r] EXCEPT !.todo = @ \ {o}, !.best = o,
                                           !.load = active[o] + 1])
          \/ SetScan(r, [scan[r] EXCEPT !.todo = @ \ {o}])
    BY <1>3 DEF ScanAccount
  <2>3. \/ scan'[r].best = scan[r].best
        \/ scan'[r].best = o /\ ~Excluded(r, o)
    BY <2>2 DEF ScanState, Selectable
  <2>4. QED
    BY <1>0, <2>1, <2>3 DEF Excluded
<1>4. CASE TryAcquire(r)
  BY <1>0, <1>4 DEF TryAcquire, Picked, Placed
<1>5. CASE StartCensus(r) \/ CountAccount(r) \/ EndCensus(r) \/ Refuse(r)
  <2>1. next' = next /\ next[r] = NoObject /\ pc'[r] # "scan"
    BY <1>0, <1>5 DEF StartCensus, CountAccount, EndCensus, Refuse, Placed
  <2>2. QED
    BY <2>1
<1>6. CASE Cancel(r)
  BY <1>0, <1>6 DEF Cancel
<1>7. CASE RoundTrip(r)
  <2>1. next' = next /\ next[r] = NoObject /\ pc'[r] # "scan"
    BY <1>0, <1>7 DEF RoundTrip, Placed
  <2>2. QED
    BY <2>1
<1>8. CASE MarkPrevious(r) \/ SwitchAccount(r)
  BY <1>0, <1>8 DEF MarkPrevious, SwitchAccount, Placed
<1>9. CASE ModifyResponse(r) \/ CloseBody(r) \/ ErrorHandler(r) \/ Release(r)
  BY <1>0, <1>9 DEF ModifyResponse, CloseBody, ErrorHandler, Release, Placed
<1>10. QED
  BY <1>1, <1>2, <1>3, <1>4, <1>5, <1>6, <1>7, <1>8, <1>9 DEF Handles, Serve

\* Every step keeps the two accounts of a failover apart.
LEMMA ElsewhereStep ==
  ASSUME TypeOK, Placement, Allocated, Elsewhere, [Next]_vars
  PROVE  Elsewhere'
<1> USE DEF ElsewhereFor, Retrying
<1>1. ASSUME NEW r \in Requests, Handles(r) PROVE Elsewhere'
  <2>1. \A q \in Requests \ {r} : ElsewhereFor(q)'
    BY <1>1, HandlesFrame DEF Elsewhere, SameLocals, poolVars
  <2>2. ElsewhereFor(r)'
    BY <1>1, ElsewhereForStep
  <2>3. QED
    BY <2>1, <2>2 DEF Elsewhere
<1>2. CASE Outside
  <2>1. ASSUME NEW r \in Requests PROVE ElsewhereFor(r)'
    <3>1. /\ next[r] # NoObject => acct[r] # NoObject
          /\ \A o \in {acct[r], next[r], scan[r].best} : o # NoObject =>
               o \in Objects /\ ~Fresh(o)
      BY DEF Placement, Placed, InFlight, Allocated, Refs, TypeOK, ScanState
    <3>2. \A o \in {acct[r], next[r], scan[r].best} : o # NoObject =>
            ident'[o] = ident[o]
      BY <1>2, <3>1, AllocatedKeeps
    <3>3. UNCHANGED <<pc, acct, next, scan>>
      BY <1>2, OutsideFrame
    <3>4. ElsewhereFor(r)
      BY DEF Elsewhere
    <3>5. QED
      BY <3>1, <3>2, <3>3, <3>4
  <2>2. QED
    BY <2>1 DEF Elsewhere
<1>3. CASE UNCHANGED vars
  BY <1>3 DEF vars, Elsewhere
<1>4. QED
  BY <1>1, <1>2, <1>3 DEF Next, Handles, Outside

-----------------------------------------------------------------------------
(* Slots.                                                                  *)

SameHolders(o) == \A p \in Objects \ {o} : Holders(p)' = Holders(p)

Takes(r, o) ==
  /\ Reservable(o)
  /\ r \notin Holders(o)
  /\ next[r] = NoObject
  /\ active' = [active EXCEPT ![o] = @ + 1]
  /\ Holders(o)' = Holders(o) \cup {r}
  /\ SameHolders(o)

Gives(r, o) ==
  /\ r \in Holders(o)
  /\ active' = [active EXCEPT ![o] = @ - 1]
  /\ Holders(o)' = Holders(o) \ {r}
  /\ SameHolders(o)

\* A handler takes a slot when one of its two places gets an object that neither
\* of them had...
LEMMA TakesSlot ==
  ASSUME NEW r \in Requests, NEW o \in Objects, NoObject \notin Objects,
         \A q \in Requests \ {r} : acct'[q] = acct[q] /\ next'[q] = next[q],
         next[r] = NoObject, acct[r] # o,
         \/ acct[r] = NoObject /\ acct'[r] = o /\ next'[r] = NoObject
         \/ acct'[r] = acct[r] /\ next'[r] = o
  PROVE  /\ r \notin Holders(o)
         /\ Holders(o)' = Holders(o) \cup {r}
         /\ SameHolders(o)
<1>1. r \notin Holders(o)
  BY DEF Holders
<1>2. Holders(o)' = Holders(o) \cup {r}
  BY DEF Holders
<1>3. ASSUME NEW p \in Objects \ {o} PROVE Holders(p)' = Holders(p)
  BY DEF Holders
<1>4. QED
  BY <1>1, <1>2, <1>3 DEF SameHolders

\* ... and gives one back when it moves to the other, or to none.
LEMMA GivesSlot ==
  ASSUME NEW r \in Requests, NEW o \in Objects, NoObject \notin Objects,
         \A q \in Requests \ {r} : acct'[q] = acct[q] /\ next'[q] = next[q],
         acct[r] = o, next[r] # o, acct'[r] = next[r], next'[r] = NoObject
  PROVE  /\ r \in Holders(o)
         /\ Holders(o)' = Holders(o) \ {r}
         /\ SameHolders(o)
<1>1. r \in Holders(o)
  BY DEF Holders
<1>2. Holders(o)' = Holders(o) \ {r}
  BY DEF Holders
<1>3. ASSUME NEW p \in Objects \ {o} PROVE Holders(p)' = Holders(p)
  BY DEF Holders
<1>4. QED
  BY <1>1, <1>2, <1>3 DEF SameHolders

\* Every step of a handler takes one slot below the limit, gives one back, or
\* leaves the slots alone.
LEMMA SlotMoves ==
  ASSUME TypeOK, Placement, Elsewhere, NEW r \in Requests, Handles(r)
  PROVE  \/ UNCHANGED <<active, acct, next>>
         \/ \E o \in Objects : Takes(r, o) \/ Gives(r, o)
<1>1. Placed(r) /\ ElsewhereFor(r) /\ NoObject \notin Objects
  BY PoolAssumption DEF Placement, Elsewhere
<1>2. \A q \in Requests \ {r} : acct'[q] = acct[q] /\ next'[q] = next[q]
  BY HandlesFrame DEF SameLocals
<1>3. CASE ReserveSticky(r)
  <2>1. PICK o \in Objects : o = scan[r].best
    BY <1>1, <1>3 DEF ReserveSticky, Placed, TypeOK, ScanState
  <2>2. acct[r] = NoObject /\ next[r] = NoObject
    BY <1>1, <1>3 DEF ReserveSticky, Placed, Unrouted
  <2>3. CASE Reservable(o)
    <3>1. /\ active' = [active EXCEPT ![o] = @ + 1]
          /\ acct' = [acct EXCEPT ![r] = o] /\ next' = next
      BY <1>3, <2>1, <2>3 DEF ReserveSticky
    <3>2. acct'[r] = o /\ next'[r] = NoObject
      BY <2>2, <3>1 DEF TypeOK
    <3>3. Takes(r, o)
      BY <1>1, <1>2, <2>2, <2>3, <3>1, <3>2, TakesSlot DEF Takes
    <3>4. QED
      BY <3>3
  <2>4. CASE ~Reservable(o)
    BY <1>3, <2>1, <2>4 DEF ReserveSticky
  <2>5. QED
    BY <2>3, <2>4
<1>4. CASE TryAcquire(r)
  <2>1. PICK o \in Objects : o = scan[r].best
    BY <1>4 DEF TryAcquire, Picked, TypeOK, ScanState
  <2>2. /\ next[r] = NoObject /\ Reservable(o) /\ pc[r] = "scan"
        /\ active' = [active EXCEPT ![o] = @ + 1]
    BY <1>1, <1>4, <2>1 DEF TryAcquire, Picked, Placed
  <2>3. CASE Retrying(r)
    <3>1. acct[r] # o
      BY <1>1, <2>1, <2>2, <2>3 DEF ElsewhereFor
    <3>2. next' = [next EXCEPT ![r] = o] /\ acct' = acct
      BY <1>4, <2>1, <2>3 DEF TryAcquire
    <3>3. acct'[r] = acct[r] /\ next'[r] = o
      BY <3>2 DEF TypeOK
    <3>4. Takes(r, o)
      BY <1>1, <1>2, <2>2, <3>1, <3>3, TakesSlot DEF Takes
    <3>5. QED
      BY <3>4
  <2>4. CASE ~Retrying(r)
    <3>1. acct[r] = NoObject
      BY <2>4 DEF Retrying
    <3>2. acct' = [acct EXCEPT ![r] = o] /\ next' = next
      BY <1>4, <2>1, <2>4 DEF TryAcquire
    <3>3. acct'[r] = o /\ next'[r] = NoObject
      BY <2>2, <3>2 DEF TypeOK
    <3>4. Takes(r, o)
      BY <1>1, <1>2, <2>2, <3>1, <3>3, TakesSlot DEF Takes
    <3>5. QED
      BY <3>4
  <2>5. QED
    BY <2>3, <2>4
<1>5. CASE SwitchAccount(r)
  <2>1. PICK o \in Objects : o = acct[r]
    BY <1>1, <1>5 DEF SwitchAccount, Placed, InFlight, TypeOK
  <2>2. next[r] # NoObject /\ next[r] # o
    BY <1>1, <1>5, <2>1 DEF SwitchAccount, Placed, ElsewhereFor
  <2>3. /\ active' = [active EXCEPT ![o] = @ - 1]
        /\ acct' = [acct EXCEPT ![r] = next[r]]
        /\ next' = [next EXCEPT ![r] = NoObject]
    BY <1>5, <2>1 DEF SwitchAccount, ReleaseSlot
  <2>4. acct'[r] = next[r] /\ next'[r] = NoObject
    BY <2>3 DEF TypeOK
  <2>5. Gives(r, o)
    BY <1>1, <1>2, <2>1, <2>2, <2>3, <2>4, GivesSlot DEF Gives
  <2>6. QED
    BY <2>5
<1>6. CASE Release(r)
  <2>1. PICK o \in Objects : o = acct[r]
    BY <1>1, <1>6 DEF Release, Placed, InFlight, TypeOK
  <2>2. next[r] = NoObject /\ next[r] # o
    BY <1>1, <1>6 DEF Release, Placed
  <2>3. /\ active' = [active EXCEPT ![o] = @ - 1]
        /\ acct' = [acct EXCEPT ![r] = NoObject] /\ next' = next
    BY <1>6, <2>1 DEF Release, ReleaseSlot, HeldAtReturn
  <2>4. acct'[r] = next[r] /\ next'[r] = NoObject
    BY <2>2, <2>3 DEF TypeOK
  <2>5. Gives(r, o)
    BY <1>1, <1>2, <2>1, <2>2, <2>3, <2>4, GivesSlot DEF Gives
  <2>6. QED
    BY <2>5
<1>7. CASE \/ RouteAccount(r) \/ EligibleAccount(r) \/ PickAccount(r)
           \/ ScanAccount(r) \/ LoseSlot(r) \/ NoAccount(r) \/ BindSession(r)
  BY <1>7 DEF RouteAccount, EligibleAccount, PickAccount, ScanAccount, LoseSlot,
       NoAccount, BindSession
<1>8. CASE \/ StartCensus(r) \/ CountAccount(r) \/ EndCensus(r) \/ Refuse(r)
           \/ Cancel(r) \/ RoundTrip(r) \/ MarkPrevious(r) \/ ModifyResponse(r)
           \/ CloseBody(r) \/ ErrorHandler(r)
  BY <1>8 DEF StartCensus, CountAccount, EndCensus, Refuse, Cancel, RoundTrip,
       MarkPrevious, ModifyResponse, CloseBody, ErrorHandler
<1>9. QED
  BY <1>3, <1>4, <1>5, <1>6, <1>7, <1>8 DEF Handles, Serve

\* Every step changes a slot counter and its holders by the same amount.
LEMMA SlotStep ==
  ASSUME TypeOK, Placement, Elsewhere, SlotConservation, [Next]_vars
  PROVE  SlotConservation'
<1>0. \A o \in Objects : IsFiniteSet(Holders(o))
  BY PoolAssumption, FS_Subset DEF Holders
<1>1. CASE UNCHANGED <<active, acct, next>>
  BY <1>1 DEF SlotConservation, Holders
<1>2. ASSUME NEW r \in Requests, NEW o \in Objects, Takes(r, o)
      PROVE  SlotConservation'
  <2>1. Cardinality(Holders(o) \cup {r}) = Cardinality(Holders(o)) + 1
    BY <1>0, <1>2, FS_AddElement DEF Takes
  <2>2. active'[o] = Cardinality(Holders(o)')
    BY <1>2, <2>1 DEF Takes, SlotConservation, TypeOK
  <2>3. \A p \in Objects \ {o} : active'[p] = Cardinality(Holders(p)')
    BY <1>2 DEF Takes, SameHolders, SlotConservation, TypeOK
  <2>4. QED
    BY <2>2, <2>3 DEF SlotConservation
<1>3. ASSUME NEW r \in Requests, NEW o \in Objects, Gives(r, o)
      PROVE  SlotConservation'
  <2>1. Cardinality(Holders(o) \ {r}) = Cardinality(Holders(o)) - 1
    BY <1>0, <1>3, FS_RemoveElement DEF Gives
  <2>2. active'[o] = Cardinality(Holders(o)')
    BY <1>3, <2>1 DEF Gives, SlotConservation, TypeOK
  <2>3. \A p \in Objects \ {o} : active'[p] = Cardinality(Holders(p)')
    BY <1>3 DEF Gives, SameHolders, SlotConservation, TypeOK
  <2>4. QED
    BY <2>2, <2>3 DEF SlotConservation
<1>4. ASSUME NEW r \in Requests, Handles(r) PROVE SlotConservation'
  BY <1>1, <1>2, <1>3, <1>4, SlotMoves
<1>5. CASE Outside
  BY <1>1, <1>5, OutsideFrame
<1>6. CASE UNCHANGED vars
  BY <1>1, <1>6 DEF vars
<1>7. QED
  BY <1>4, <1>5, <1>6 DEF Next, Handles, Outside

\* The inductive invariant holds at the start.
LEMMA InitInv == Init => IInv
<1> SUFFICES ASSUME Init PROVE IInv
  OBVIOUS
<1>1. TypeOK
  BY InitType
<1>2. Placement
  BY DEF Init, Placement, Placed, Unrouted, InFlight, Answered, Retrying
<1>3. Allocated
  BY PoolAssumption DEF Init, Allocated, Fresh, Refs, NoScan
<1>4. Elsewhere
  BY DEF Init, Elsewhere, ElsewhereFor
<1>5. SlotConservation
  <2>1. \A o \in Objects : Holders(o) = {}
    BY PoolAssumption DEF Init, Holders
  <2>2. QED
    BY <2>1, FS_EmptySet DEF Init, SlotConservation
<1>6. QED
  BY <1>1, <1>2, <1>3, <1>4, <1>5 DEF IInv

\* The five invariants hold together of every reachable state.
THEOREM Inductive == Spec => []IInv
<1>1. IInv /\ [Next]_vars => IInv'
  BY TypeStep, PlacementStep, AllocatedStep, ElsewhereStep, SlotStep DEF IInv
<1>2. QED
  BY InitInv, <1>1, PTL DEF Spec

\* Every variable keeps its type: no slot counter ever goes below zero, and a
\* request that is charged, booked or released has an account.
THEOREM TypeCorrect == Spec => []TypeOK
<1>1. IInv => TypeOK
  BY DEF IInv
<1>2. QED
  BY Inductive, <1>1, PTL

\* The slot counter of an account is the number of requests that hold one of its
\* slots, through failover and replacement, for any number of requests.
THEOREM SlotsConserved == Spec => []SlotConservation
<1>1. IInv => SlotConservation
  BY DEF IInv
<1>2. QED
  BY Inductive, <1>1, PTL

-----------------------------------------------------------------------------
(* Limits.                                                                 *)

\* Nobody holds a slot of an object that is not allocated.
LEMMA FreshIsIdle ==
  ASSUME TypeOK, Allocated, SlotConservation, NEW o \in Objects, Fresh(o)
  PROVE  Holders(o) = {} /\ active[o] = 0
<1>1. Holders(o) = {}
  BY PoolAssumption DEF Holders, Allocated, Refs, Fresh
<1>2. QED
  BY <1>1, FS_EmptySet DEF SlotConservation

\* Settings change only where nobody holds a slot.
LEMMA LimitsSettled ==
  ASSUME IInv, Outside
  PROVE  /\ UNCHANGED <<active, acct, next>>
         /\ \/ config' = config
            \/ \E o \in Objects :
                 /\ Holders(o) = {} /\ active[o] = 0
                 /\ \A p \in Objects \ {o} : config'[p] = config[p]
<1>1. CASE config' = config
  BY <1>1, OutsideFrame
<1>2. ASSUME NEW o \in Objects, NEW id \in AccountIds \cup {ident[q] : q \in pool},
             NEW c \in Configs, Allocate(o, id, c)
      PROVE  /\ Holders(o) = {} /\ active[o] = 0
             /\ \A p \in Objects \ {o} : config'[p] = config[p]
  BY <1>2, FreshIsIdle DEF Allocate, IInv, TypeOK
<1>3. QED
  BY <1>1, <1>2, OutsideFrame

\* A slot is taken below the limit only, and a limit moves only where nobody holds one.
LEMMA AdmissionStep ==
  ASSUME IInv, NoOverAdmission, [Next]_vars
  PROVE  NoOverAdmission'
<1> USE DEF NoOverAdmission
<1>1. active \in [Objects -> Nat] /\ config \in [Objects -> Config]
  BY DEF IInv, TypeOK
<1>2. ASSUME NEW r \in Requests, Handles(r) PROVE NoOverAdmission'
  <2>1. config' = config
    BY <1>2, HandlesFrame DEF IInv, poolVars
  <2>2. \/ active' = active
        \/ \E o \in Objects : Takes(r, o) \/ Gives(r, o)
    BY <1>2, SlotMoves DEF IInv
  <2>3. ASSUME NEW o \in Objects, Takes(r, o) PROVE NoOverAdmission'
    BY <1>1, <2>1, <2>3 DEF Takes, Reservable, Config
  <2>4. ASSUME NEW o \in Objects, Gives(r, o) PROVE NoOverAdmission'
    BY <1>1, <2>1, <2>4 DEF Gives, Config
  <2>5. QED
    BY <2>1, <2>2, <2>3, <2>4
<1>3. CASE Outside
  <2>1. active' = active
    BY <1>3, LimitsSettled
  <2>2. ASSUME NEW o \in Objects, active[o] = 0,
               \A p \in Objects \ {o} : config'[p] = config[p],
               config' \in [Objects -> Config]
        PROVE  NoOverAdmission'
    BY <1>1, <2>1, <2>2 DEF Config
  <2>3. config' \in [Objects -> Config]
    BY <1>3, TypeStep DEF IInv, TypeOK, Next, Outside
  <2>4. QED
    BY <1>3, <2>1, <2>2, <2>3, LimitsSettled
<1>4. CASE UNCHANGED vars
  BY <1>4 DEF vars, poolVars
<1>5. QED
  BY <1>2, <1>3, <1>4 DEF Next, Handles, Outside

\* No account object ever runs more requests than its limit, however the scans
\* and the reservations of any number of requests interleave.
THEOREM NeverOverAdmitted == Spec => []NoOverAdmission
<1>1. Init => NoOverAdmission
  <2> SUFFICES ASSUME Init PROVE NoOverAdmission
    OBVIOUS
  <2>1. \A o \in Objects : config[o].limit \in Nat /\ active[o] = 0
    BY InitType DEF Init, TypeOK, Config
  <2>2. QED
    BY <2>1 DEF NoOverAdmission
<1>2. IInv /\ NoOverAdmission /\ [Next]_vars => NoOverAdmission'
  BY AdmissionStep
<1>3. QED
  BY <1>1, <1>2, Inductive, PTL DEF Spec

\* The cardinality that SlotPool speaks of is the one of this module.
LEMMA SameCardinality ==
  ASSUME NEW S
  PROVE  Slots!Cardinality(S) = Cardinality(S)
BY DEF Slots!Cardinality, Cardinality

\* A step of a handler is a step of SlotPool or leaves the slots alone.
LEMMA HandlesRefines ==
  ASSUME IInv, NEW r \in Requests, Handles(r)
  PROVE  [Slots!Next]_(Slots!slotVars)
<1> DEFINE holders == [o \in Objects |-> Holders(o)]
           limit == [o \in Objects |-> config[o].limit]
<1>1. limit' = limit
  BY HandlesFrame DEF IInv, poolVars
<1>2. CASE UNCHANGED <<active, acct, next>>
  <2>1. holders' = holders
    BY <1>2 DEF Holders
  <2>2. QED
    BY <1>1, <2>1 DEF Slots!slotVars
<1>3. ASSUME NEW o \in Objects, Takes(r, o) PROVE Slots!Acquire(r, o)
  <2>1. limit[o] = 0 \/ Cardinality(holders[o]) < limit[o]
    BY <1>3 DEF Takes, Reservable, IInv, SlotConservation
  <2>2. Cardinality(Slots!HeldBy(r)) < 2
    <3>1. Slots!HeldBy(r) \subseteq {acct[r]}
      BY <1>3, PoolAssumption DEF Slots!HeldBy, Takes, Holders
    <3>2. IsFiniteSet({acct[r]}) /\ Cardinality({acct[r]}) = 1
      BY FS_Singleton
    <3>3. Cardinality(Slots!HeldBy(r)) <= 1 /\ IsFiniteSet(Slots!HeldBy(r))
      BY <3>1, <3>2, FS_Subset
    <3>4. Cardinality(Slots!HeldBy(r)) \in Nat
      BY <3>3, FS_CardinalityType
    <3>5. QED
      BY <3>3, <3>4
  <2>3. holders' = [holders EXCEPT ![o] = @ \cup {r}]
    BY <1>3 DEF Takes, SameHolders
  <2>4. r \notin holders[o]
    BY <1>3 DEF Takes
  <2>5. QED
    BY <1>1, <2>1, <2>2, <2>3, <2>4, SameCardinality DEF Slots!Acquire
<1>4. ASSUME NEW o \in Objects, Gives(r, o) PROVE Slots!Release(r, o)
  <2>1. holders' = [holders EXCEPT ![o] = @ \ {r}]
    BY <1>4 DEF Gives, SameHolders
  <2>2. r \in holders[o]
    BY <1>4 DEF Gives
  <2>3. QED
    BY <1>1, <2>1, <2>2 DEF Slots!Release
<1>5. QED
  BY <1>2, <1>3, <1>4, SlotMoves DEF IInv, Slots!Next

\* A step outside the handlers settles the limit of an object nobody holds, or
\* leaves the slots alone.
LEMMA OutsideRefines ==
  ASSUME IInv, Outside
  PROVE  [Slots!Next]_(Slots!slotVars)
<1> DEFINE holders == [o \in Objects |-> Holders(o)]
           limit == [o \in Objects |-> config[o].limit]
<1>1. holders' = holders
  BY LimitsSettled DEF Holders
<1>2. CASE config' = config
  BY <1>1, <1>2 DEF Slots!slotVars
<1>3. ASSUME NEW o \in Objects, Holders(o) = {},
             \A p \in Objects \ {o} : config'[p] = config[p]
      PROVE  Slots!Configure(o)
  <2>1. config' \in [Objects -> Config]
    BY TypeStep DEF IInv, TypeOK, Next, Outside
  <2>2. limit' \in [Objects -> Nat]
    BY <2>1 DEF Config
  <2>3. \A p \in Objects \ {o} : limit'[p] = limit[p]
    BY <1>3
  <2>4. QED
    BY <1>1, <1>3, <2>2, <2>3 DEF Slots!Configure
<1>4. QED
  BY <1>2, <1>3, LimitsSettled DEF Slots!Next

\* The pool implements SlotPool: whatever the scans, failovers, updates and
\* removals do, a slot is taken below the limit, given back by its holder, and
\* no limit changes under a request.
THEOREM ImplementsSlotPool == Spec => SlotPoolSpec
<1>1. Init => Slots!Init
  <2> SUFFICES ASSUME Init PROVE Slots!Init
    OBVIOUS
  <2>1. \A o \in Objects : Holders(o) = {} /\ config[o].limit \in Nat
    BY InitType, PoolAssumption DEF Init, Holders, TypeOK, Config
  <2>2. QED
    BY <2>1 DEF Slots!Init
<1>2. IInv /\ [Next]_vars => [Slots!Next]_(Slots!slotVars)
  <2>1. CASE UNCHANGED vars
    BY <2>1 DEF vars, poolVars, Slots!slotVars, Holders
  <2>2. QED
    BY <2>1, HandlesRefines, OutsideRefines DEF Next, Handles, Outside
<1>3. QED
  BY <1>1, <1>2, Inductive, PTL DEF Spec, SlotPoolSpec, Slots!Spec

-----------------------------------------------------------------------------
(* What is sent, charged and booked.                                       *)

\* The call a request is about to make, or has had answered.
This(r) == Call(acct[r], meta[r].outcome)

\* Nothing was sent yet.
Untold(r) == acct[r] = NoObject /\ calls[r] = <<>> /\ charged[r] = <<>>

\* The first attempt failed, and another account is looked for or was found.
Leaving(r) ==
  /\ meta[r].attempts = 1 /\ acct[r] # NoObject
  /\ RetryableUpstreamResult(meta[r].outcome) /\ r \in Replayable
  /\ calls[r] = <<This(r)>>
  /\ \/ pc[r] \in {"select", "scan", "mark"} /\ charged[r] = <<>>
     \/ pc[r] = "switch" /\ charged[r] = <<This(r)>>

\* The call that came before a second attempt went elsewhere.
WentElsewhere(r, c) ==
  /\ RetryableUpstreamResult(c.kind) /\ r \in Replayable
  /\ ident[c.obj] # NoId /\ ident[c.obj] # ident[acct[r]]
Prior(r, before) ==
  \/ meta[r].attempts = 1 /\ before = <<>>
  \/ meta[r].attempts = 2 /\ \E c \in CallState : before = <<c>> /\ WentElsewhere(r, c)

\* An attempt after the calls in before, all of them charged.
Attempt(r, before) ==
  /\ acct[r] # NoObject
  /\ \/ /\ pc[r] \in {"bind", "upstream"}
        /\ calls[r] = before /\ charged[r] = before
     \/ /\ pc[r] = "deliver"
        /\ calls[r] = Append(before, This(r)) /\ charged[r] = before
     \/ /\ pc[r] \in {"body", "release"}
        /\ calls[r] = Append(before, This(r)) /\ charged[r] = Append(before, This(r))

Told(r) ==
  \/ Untold(r)
  \/ Leaving(r)
  \/ \E before \in Seq(CallState) : Prior(r, before) /\ Attempt(r, before)

\* A request is in the ledger between its answer and its release.
Event(r) == [account |-> ident[acct[r]], attempts |-> meta[r].attempts,
             status |-> meta[r].outcome]
Listed(r) == ledger[r] = IF pc[r] = "release" THEN <<Event(r)>> ELSE <<>>

Story == \A r \in Requests : Told(r) /\ Listed(r)

SameHistory(q) ==
  calls'[q] = calls[q] /\ charged'[q] = charged[q] /\ ledger'[q] = ledger[q]

\* The steps before an upstream call, and those of a refusal, leave the history alone.
LEMMA SilentSteps ==
  ASSUME NEW r \in Requests,
         \/ RouteAccount(r) \/ Cancel(r) \/ EligibleAccount(r) \/ ReserveSticky(r)
         \/ PickAccount(r) \/ ScanAccount(r) \/ TryAcquire(r) \/ LoseSlot(r)
         \/ NoAccount(r) \/ BindSession(r) \/ StartCensus(r) \/ CountAccount(r)
         \/ EndCensus(r) \/ Refuse(r) \/ SwitchAccount(r)
  PROVE  UNCHANGED <<calls, charged, ledger>>
BY DEF RouteAccount, Cancel, EligibleAccount, ReserveSticky, PickAccount, ScanAccount,
       TryAcquire, LoseSlot, NoAccount, BindSession, StartCensus, CountAccount,
       EndCensus, Refuse, SwitchAccount, history

\* Nothing a handler does is told of another request.
LEMMA OwnHistory ==
  ASSUME TypeOK, NEW r \in Requests, Handles(r), NEW q \in Requests \ {r}
  PROVE  SameHistory(q)
<1> USE DEF SameHistory, TypeOK
<1>1. CASE UNCHANGED <<calls, charged, ledger>>
  BY <1>1
<1>2. CASE RoundTrip(r)
  BY <1>2 DEF RoundTrip
<1>3. CASE MarkPrevious(r)
  BY <1>3 DEF MarkPrevious, ChargeOutcome
<1>4. CASE ModifyResponse(r)
  BY <1>4 DEF ModifyResponse, ChargeOutcome
<1>5. CASE CloseBody(r)
  BY <1>5 DEF CloseBody, RecordMeta
<1>6. CASE ErrorHandler(r)
  BY <1>6 DEF ErrorHandler, ChargeOutcome, RecordMeta
<1>7. CASE Release(r)
  BY <1>7 DEF Release
<1> QED
  BY <1>1, <1>2, <1>3, <1>4, <1>5, <1>6, <1>7, SilentSteps DEF Handles, Serve

\* As long as a request stands still, so does its story: the accounts it was sent to
\* are allocated, and keep their ids.
LEMMA StoryStands ==
  ASSUME TypeOK, Placement, Allocated, NEW q \in Requests,
         SameControl(q), SameHistory(q),
         \A o \in Objects : ~Fresh(o) => ident'[o] = ident[o]
  PROVE  /\ Told(q) => Told(q)'
         /\ Listed(q) => Listed(q)'
<1>1. acct[q] # NoObject => ident'[acct[q]] = ident[acct[q]]
  BY DEF Allocated, Refs, TypeOK
<1>2. Untold(q) => Untold(q)'
  BY DEF Untold, SameControl, SameHistory
<1>3. This(q)' = This(q)
  BY DEF This, Call, SameControl
<1>4. Leaving(q) => Leaving(q)'
  BY <1>3 DEF Leaving, SameControl, SameHistory
<1>5. ASSUME NEW before \in Seq(CallState), Prior(q, before), Attempt(q, before)
      PROVE  Told(q)'
  <2>1. ASSUME NEW c \in CallState, WentElsewhere(q, c) PROVE WentElsewhere(q, c)'
    <3>1. ident'[c.obj] = ident[c.obj]
      BY <2>1 DEF CallState, WentElsewhere, Fresh
    <3> QED
      BY <1>1, <1>5, <2>1, <3>1 DEF WentElsewhere, Attempt, SameControl
  <2>2. Prior(q, before)'
    BY <1>5, <2>1 DEF Prior, SameControl
  <2>3. Attempt(q, before)'
    BY <1>3, <1>5 DEF Attempt, SameControl, SameHistory
  <2> QED
    BY <2>2, <2>3 DEF Told
<1>6. Listed(q) => Listed(q)'
  <2>1. pc[q] = "release" => acct[q] # NoObject
    BY DEF Placement, Placed, InFlight
  <2> QED
    BY <1>1, <2>1 DEF Listed, Event, SameControl, SameHistory
<1> QED
  BY <1>2, <1>4, <1>5, <1>6 DEF Told

-----------------------------------------------------------------------------
(* The story of a request, step by step.                                   *)

\* A request without an account has told nothing, one that looks for another account
\* is leaving one, and one at any other place is in an attempt.
LEMMA WhereItStands ==
  ASSUME NEW r \in Requests, Told(r)
  PROVE  /\ acct[r] = NoObject => Untold(r)
         /\ acct[r] # NoObject /\ pc[r] \in {"select", "scan", "mark", "switch"} =>
              Leaving(r)
         /\ acct[r] # NoObject /\ pc[r] \in InFlight \ {"mark", "switch"} =>
              \E before \in Seq(CallState) : Prior(r, before) /\ Attempt(r, before)
BY DEF Told, Untold, Leaving, Attempt, InFlight

\* The story goes on when the control of the request agrees with it.
LEMMA StillUntold ==
  ASSUME NEW r \in Requests, Untold(r), acct'[r] = NoObject, SameHistory(r)
  PROVE  Told(r)'
BY DEF Told, Untold, SameHistory

\* A first attempt begins when an account is reserved for a request without one.
LEMMA AttemptBegins ==
  ASSUME NEW r \in Requests, Untold(r), acct'[r] # NoObject, SameHistory(r),
         meta'[r].attempts = 1, pc'[r] \in {"bind", "upstream"}
  PROVE  Told(r)'
<1>1. <<>> \in Seq(CallState)
  OBVIOUS
<1>2. Prior(r, <<>>)' /\ Attempt(r, <<>>)'
  BY DEF Prior, Attempt, Untold, SameHistory
<1> QED
  BY <1>1, <1>2 DEF Told

\* An attempt goes on with the same account.
LEMMA AttemptGoesOn ==
  ASSUME NEW r \in Requests, NEW before \in Seq(CallState), Prior(r, before),
         ident' = ident, acct'[r] = acct[r], meta'[r].attempts = meta[r].attempts,
         Attempt(r, before)'
  PROVE  Told(r)'
<1>1. Prior(r, before)'
  BY DEF Prior, WentElsewhere
<1> QED
  BY <1>1 DEF Told

\* A handler that looks for a first account, or refuses, tells nothing.
LEMMA SearchTold ==
  ASSUME IInv, NEW r \in Requests, Told(r), acct[r] = NoObject, Handles(r)
  PROVE  Told(r)'
<1> USE DEF TypeOK, Goto, SetScan, SetMeta
<1>0. Untold(r) /\ Placed(r) /\ NoObject \notin Objects /\ meta[r] \in MetaState
  BY WhereItStands, PoolAssumption DEF IInv, Placement
<1>1. CASE \/ RouteAccount(r) \/ Cancel(r) \/ EligibleAccount(r) \/ PickAccount(r)
           \/ ScanAccount(r) \/ LoseSlot(r) \/ NoAccount(r) \/ BindSession(r)
           \/ StartCensus(r) \/ CountAccount(r) \/ EndCensus(r) \/ Refuse(r)
  <2>1. acct' = acct
    BY <1>1 DEF RouteAccount, Cancel, EligibleAccount, PickAccount, ScanAccount,
       LoseSlot, NoAccount, BindSession, StartCensus, CountAccount, EndCensus, Refuse
  <2> QED
    BY <1>0, <1>1, <2>1, SilentSteps, StillUntold DEF SameHistory
<1>2. CASE ReserveSticky(r)
  <2>1. UNCHANGED <<calls, charged, ledger>>
    BY <1>2, SilentSteps
  <2>2. CASE Reservable(scan[r].best)
    <3>1. scan[r].best # NoObject
      BY <1>0, <1>2 DEF ReserveSticky, Placed
    <3>2. /\ acct'[r] = scan[r].best /\ pc'[r] = "upstream"
          /\ meta'[r] = [meta[r] EXCEPT !.attempts = 1, !.reused = TRUE]
      BY <1>2, <2>2 DEF ReserveSticky, IInv
    <3>3. meta'[r].attempts = 1
      BY <1>0, <3>2 DEF MetaState
    <3> QED
      BY <1>0, <2>1, <3>1, <3>2, <3>3, AttemptBegins DEF SameHistory
  <2>3. CASE ~Reservable(scan[r].best)
    <3>1. acct' = acct
      BY <1>2, <2>3 DEF ReserveSticky
    <3> QED
      BY <1>0, <2>1, <3>1, StillUntold DEF SameHistory
  <2> QED
    BY <2>2, <2>3
<1>3. CASE TryAcquire(r)
  <2>1. UNCHANGED <<calls, charged, ledger>>
    BY <1>3, SilentSteps
  <2>2. scan[r].best # NoObject
    BY <1>3 DEF TryAcquire, Picked
  <2>3. /\ acct'[r] = scan[r].best /\ pc'[r] \in {"bind", "upstream"}
        /\ meta'[r].attempts = 1
    BY <1>0, <1>3 DEF TryAcquire, Retrying, IInv, MetaState
  <2> QED
    BY <1>0, <2>1, <2>2, <2>3, AttemptBegins DEF SameHistory
<1>4. CASE \/ RoundTrip(r) \/ MarkPrevious(r) \/ SwitchAccount(r) \/ ModifyResponse(r)
           \/ CloseBody(r) \/ ErrorHandler(r) \/ Release(r)
  BY <1>0, <1>4 DEF RoundTrip, MarkPrevious, SwitchAccount, ModifyResponse, CloseBody,
     ErrorHandler, Release, Placed, InFlight
<1> QED
  BY <1>1, <1>2, <1>3, <1>4 DEF Handles, Serve

\* A request that leaves an account looks for another, and returns the first answer when
\* it finds none.
LEMMA LeavingTold ==
  ASSUME IInv, NEW r \in Requests, Leaving(r), acct'[r] = acct[r],
         meta'[r].attempts = meta[r].attempts, meta'[r].outcome = meta[r].outcome,
         \/ /\ SameHistory(r) /\ pc[r] # "switch"
            /\ pc'[r] \in {"select", "scan", "mark", "deliver"}
         \/ /\ calls'[r] = calls[r] /\ charged'[r] = Append(charged[r], This(r))
            /\ pc[r] = "mark" /\ pc'[r] = "switch"
         \/ SameHistory(r) /\ pc'[r] = pc[r]
  PROVE  Told(r)'
<1>1. This(r)' = This(r)
  BY DEF This, Call
<1>2. CASE pc'[r] = "deliver"
  <2>1. calls'[r] = <<This(r)>> /\ charged'[r] = <<>>
    BY <1>2 DEF Leaving, SameHistory
  <2>2. Append(<<>>, This(r)) = <<This(r)>>
    OBVIOUS
  <2>3. Attempt(r, <<>>)'
    BY <1>1, <1>2, <2>1, <2>2 DEF Attempt, Leaving
  <2>4. Prior(r, <<>>)' /\ <<>> \in Seq(CallState)
    BY DEF Prior, Leaving
  <2> QED
    BY <2>3, <2>4 DEF Told
<1>3. CASE pc'[r] # "deliver"
  <2>1. calls'[r] = <<This(r)>>
    BY DEF Leaving, SameHistory
  <2>2. \/ pc'[r] \in {"select", "scan", "mark"} /\ charged'[r] = <<>>
        \/ pc'[r] = "switch" /\ charged'[r] = <<This(r)>>
    BY <1>3 DEF Leaving, SameHistory
  <2>3. Leaving(r)'
    BY <1>1, <2>1, <2>2 DEF Leaving
  <2> QED
    BY <2>3 DEF Told
<1> QED
  BY <1>2, <1>3

\* The first account fails: what was called is what is left, or what is delivered.
LEMMA CallTold ==
  ASSUME IInv, NEW r \in Requests, Told(r), RoundTrip(r)
  PROVE  Told(r)'
<1> USE DEF TypeOK
<1>0. /\ acct[r] # NoObject /\ acct[r] \in Objects /\ pc[r] = "upstream"
      /\ meta[r] \in MetaState
  BY DEF RoundTrip, IInv, Placement, Placed, InFlight
<1>1. PICK k \in Outcomes :
        /\ SetMeta(r, [meta[r] EXCEPT !.outcome = k])
        /\ calls' = [calls EXCEPT ![r] = Append(@, Call(acct[r], k))]
        /\ Goto(r, IF /\ meta[r].attempts = 1
                      /\ RetryableUpstreamResult(k)
                      /\ r \in Replayable
                   THEN "select" ELSE "deliver")
  BY PoolAssumption DEF RoundTrip, NoResponse
<1>2. /\ acct' = acct /\ charged' = charged /\ ident' = ident
      /\ meta'[r].attempts = meta[r].attempts /\ meta'[r].outcome = k
  BY <1>0, <1>1 DEF RoundTrip, SetMeta, MetaState, IInv, poolVars
<1>3. PICK before \in Seq(CallState) : Prior(r, before) /\ Attempt(r, before)
  BY <1>0, WhereItStands DEF InFlight
<1>4. calls[r] = before /\ charged[r] = before
  BY <1>0, <1>3 DEF Attempt
<1>5. This(r)' = Call(acct[r], k)
  BY <1>2 DEF This, Call
<1>6. calls'[r] = Append(before, This(r)')
  BY <1>1, <1>4, <1>5 DEF IInv
<1>7. CASE /\ meta[r].attempts = 1 /\ RetryableUpstreamResult(k) /\ r \in Replayable
  <2>1. before = <<>>
    BY <1>3, <1>7 DEF Prior
  <2>2. pc'[r] = "select"
    BY <1>1, <1>7 DEF Goto, IInv
  <2>3. Append(<<>>, This(r)') = <<This(r)'>>
    OBVIOUS
  <2>4. Leaving(r)'
    BY <1>0, <1>2, <1>4, <1>6, <1>7, <2>1, <2>2, <2>3 DEF Leaving
  <2> QED
    BY <2>4 DEF Told
<1>8. CASE ~(/\ meta[r].attempts = 1 /\ RetryableUpstreamResult(k) /\ r \in Replayable)
  <2>1. pc'[r] = "deliver"
    BY <1>1, <1>8 DEF Goto, IInv
  <2>2. Attempt(r, before)'
    BY <1>0, <1>2, <1>4, <1>6, <2>1 DEF Attempt
  <2> QED
    BY <1>2, <1>3, <2>2, AttemptGoesOn
<1> QED
  BY <1>7, <1>8

\* The second attempt begins with the failed call behind it.
LEMMA SwitchTold ==
  ASSUME IInv, NEW r \in Requests, Told(r), SwitchAccount(r)
  PROVE  Told(r)'
<1> USE DEF TypeOK
<1>0. /\ pc[r] = "switch" /\ acct[r] \in Objects /\ acct[r] # NoObject
      /\ next[r] \in Objects /\ next[r] # NoObject /\ meta[r] \in MetaState
      /\ ident[next[r]] # ident[acct[r]] /\ ~Fresh(acct[r])
  BY DEF SwitchAccount, IInv, Placement, Placed, InFlight, Elsewhere, ElsewhereFor,
         Allocated, Refs
<1>1. Leaving(r)
  BY <1>0, WhereItStands
<1>2. SameHistory(r)
  BY SilentSteps DEF SameHistory
<1>3. meta[r].outcome \in Outcomes
  BY <1>0, <1>1, PoolAssumption DEF Leaving, RetryableUpstreamResult, NoResponse,
                                   StatusClasses, MetaState
<1> PICK c \in CallState : c = This(r)
  BY <1>0, <1>3 DEF This, Call, CallState
<1>4. c.obj = acct[r] /\ c.kind = meta[r].outcome
  BY DEF This, Call
<1>5. acct'[r] = next[r] /\ ident' = ident
  BY <1>0 DEF SwitchAccount, IInv, poolVars
<1>6. meta'[r].attempts = 2
  <2>1. meta[r].attempts = 1 /\ 1 + 1 = 2
    BY <1>1 DEF Leaving
  <2>2. meta'[r].attempts = meta[r].attempts + 1
    BY <1>0 DEF SwitchAccount, SetMeta, MetaState, IInv
  <2> QED
    BY <2>1, <2>2
<1>7. pc'[r] \in {"bind", "upstream"}
  BY DEF SwitchAccount, Goto, IInv
<1>8. Prior(r, <<c>>)'
  <2>1. WentElsewhere(r, c)'
    BY <1>0, <1>1, <1>4, <1>5 DEF Leaving, WentElsewhere, Fresh
  <2> QED
    BY <1>6, <2>1 DEF Prior
<1>9. calls'[r] = <<c>> /\ charged'[r] = <<c>>
  BY <1>0, <1>1, <1>2 DEF Leaving, SameHistory
<1>10. Attempt(r, <<c>>)'
  BY <1>0, <1>5, <1>7, <1>9 DEF Attempt
<1>11. <<c>> \in Seq(CallState)
  OBVIOUS
<1> QED
  BY <1>8, <1>10, <1>11 DEF Told

\* The answer is charged, booked and its slot given back: nothing else is told of it.
LEMMA DeliveryTold ==
  ASSUME IInv, NEW r \in Requests, Told(r),
         ModifyResponse(r) \/ CloseBody(r) \/ ErrorHandler(r) \/ Release(r)
  PROVE  Told(r)'
<1> USE DEF TypeOK
<1>0. acct[r] # NoObject /\ pc[r] \in {"deliver", "body", "release"}
  BY DEF ModifyResponse, CloseBody, ErrorHandler, Release, IInv, Placement, Placed,
         InFlight
<1>1. PICK before \in Seq(CallState) : Prior(r, before) /\ Attempt(r, before)
  BY <1>0, WhereItStands DEF InFlight
<1>2. CASE ModifyResponse(r) \/ ErrorHandler(r)
  <2>1. /\ acct' = acct /\ ident' = ident /\ meta' = meta /\ calls' = calls
        /\ pc[r] = "deliver" /\ pc'[r] \in {"body", "release"}
        /\ charged'[r] = Append(charged[r], This(r))
    BY <1>2 DEF ModifyResponse, ErrorHandler, ChargeOutcome, Blamed, This, Goto, IInv,
                poolVars
  <2>2. This(r)' = This(r)
    BY <2>1 DEF This, Call
  <2>3. Attempt(r, before)'
    BY <1>1, <2>1, <2>2 DEF Attempt
  <2> QED
    BY <1>1, <2>1, <2>3, AttemptGoesOn
<1>3. CASE CloseBody(r)
  <2>1. /\ acct' = acct /\ ident' = ident /\ meta' = meta /\ calls' = calls
        /\ charged' = charged /\ pc[r] = "body" /\ pc'[r] = "release"
    BY <1>3 DEF CloseBody, Goto, IInv, poolVars
  <2>2. This(r)' = This(r)
    BY <2>1 DEF This, Call
  <2>3. Attempt(r, before)'
    BY <1>1, <2>1, <2>2 DEF Attempt
  <2> QED
    BY <1>1, <2>1, <2>3, AttemptGoesOn
<1>4. CASE Release(r)
  <2>1. acct'[r] = NoObject /\ calls'[r] = <<>> /\ charged'[r] = <<>>
    BY <1>4 DEF Release, IInv
  <2> QED
    BY <2>1 DEF Told, Untold
<1> QED
  BY <1>2, <1>3, <1>4

\* A handler that holds a slot looks for a second account, binds its session, or hears
\* that its client has gone.
LEMMA HolderTold ==
  ASSUME IInv, NEW r \in Requests, Told(r), acct[r] # NoObject,
         \/ RouteAccount(r) \/ Cancel(r) \/ EligibleAccount(r) \/ ReserveSticky(r)
         \/ PickAccount(r) \/ ScanAccount(r) \/ TryAcquire(r) \/ LoseSlot(r)
         \/ NoAccount(r) \/ BindSession(r) \/ StartCensus(r) \/ CountAccount(r)
         \/ EndCensus(r) \/ Refuse(r) \/ MarkPrevious(r)
  PROVE  Told(r)'
<1> USE DEF TypeOK, Goto, SetScan, SetMeta
<1>0. Placed(r) /\ ident' = ident /\ meta[r] \in MetaState
  BY HandlesFrame DEF IInv, Placement, poolVars, Handles, Serve
<1>1. CASE PickAccount(r) \/ ScanAccount(r) \/ LoseSlot(r) \/ NoAccount(r)
  <2>1. /\ acct' = acct /\ meta' = meta /\ pc[r] \in {"select", "scan"}
        /\ pc'[r] \in {"select", "scan", "deliver"}
    BY <1>1 DEF PickAccount, ScanAccount, LoseSlot, NoAccount, Picked, GiveUpOrRescan,
                Retrying, IInv
  <2>2. SameHistory(r)
    BY <1>1, SilentSteps DEF SameHistory
  <2>3. Leaving(r)
    BY <2>1, WhereItStands
  <2> QED
    BY <2>1, <2>2, <2>3, LeavingTold
<1>2. CASE TryAcquire(r)
  <2>1. /\ acct' = acct /\ meta' = meta /\ pc[r] = "scan" /\ pc'[r] = "mark"
    BY <1>2 DEF TryAcquire, Picked, Retrying, IInv
  <2>2. SameHistory(r)
    BY <1>2, SilentSteps DEF SameHistory
  <2>3. Leaving(r)
    BY <2>1, WhereItStands
  <2> QED
    BY <2>1, <2>2, <2>3, LeavingTold
<1>3. CASE MarkPrevious(r)
  <2>1. /\ acct' = acct /\ meta' = meta /\ pc[r] = "mark" /\ pc'[r] = "switch"
        /\ calls' = calls /\ charged'[r] = Append(charged[r], This(r))
    BY <1>3 DEF MarkPrevious, ChargeOutcome, Blamed, This, IInv
  <2>2. Leaving(r)
    BY <2>1, WhereItStands
  <2> QED
    BY <2>1, <2>2, LeavingTold
<1>4. CASE BindSession(r)
  <2>1. /\ acct' = acct /\ meta' = meta /\ pc[r] = "bind" /\ pc'[r] = "upstream"
    BY <1>4 DEF BindSession, IInv
  <2>2. SameHistory(r)
    BY <1>4, SilentSteps DEF SameHistory
  <2>3. PICK before \in Seq(CallState) : Prior(r, before) /\ Attempt(r, before)
    BY <2>1, WhereItStands DEF InFlight
  <2>4. Attempt(r, before)'
    BY <2>1, <2>2, <2>3 DEF Attempt, SameHistory
  <2> QED
    BY <1>0, <2>1, <2>3, <2>4, AttemptGoesOn
<1>5. CASE Cancel(r)
  <2>1. acct' = acct /\ pc' = pc /\ pc[r] \notin {"deliver", "body", "release"}
    BY <1>5 DEF Cancel
  <2>2. /\ meta'[r].attempts = meta[r].attempts
        /\ meta'[r].outcome = meta[r].outcome
    BY <1>0, <1>5 DEF Cancel, MetaState, IInv
  <2>3. SameHistory(r)
    BY <1>5, SilentSteps DEF SameHistory
  <2>4. CASE pc[r] \in {"select", "scan", "mark", "switch"}
    <3>1. Leaving(r)
      BY <2>4, WhereItStands
    <3> QED
      BY <2>1, <2>2, <2>3, <3>1, LeavingTold
  <2>5. CASE pc[r] \in {"bind", "upstream"}
    <3>1. PICK before \in Seq(CallState) : Prior(r, before) /\ Attempt(r, before)
      BY <2>5, WhereItStands DEF InFlight
    <3>2. Attempt(r, before)'
      BY <2>1, <2>3, <2>5, <3>1 DEF Attempt, SameHistory
    <3> QED
      BY <1>0, <2>1, <2>2, <3>1, <3>2, AttemptGoesOn
  <2>6. pc[r] \in {"select", "scan", "mark", "switch", "bind", "upstream"}
    BY <1>0, <2>1 DEF Placed, Unrouted, Locations, IInv
  <2> QED
    BY <2>4, <2>5, <2>6
<1>6. CASE \/ RouteAccount(r) \/ EligibleAccount(r) \/ ReserveSticky(r)
           \/ StartCensus(r) \/ CountAccount(r) \/ EndCensus(r) \/ Refuse(r)
  BY <1>0, <1>6 DEF RouteAccount, EligibleAccount, ReserveSticky, StartCensus,
                    CountAccount, EndCensus, Refuse, Placed, Unrouted
<1> QED
  BY <1>1, <1>2, <1>3, <1>4, <1>5, <1>6

\* A handler's own step continues the story of its request.
LEMMA ToldStep ==
  ASSUME IInv, NEW r \in Requests, Told(r), Handles(r)
  PROVE  Told(r)'
BY SearchTold, HolderTold, CallTold, SwitchTold, DeliveryTold DEF Handles, Serve

\* A handler books its request on the way to the release, once.
LEMMA ListedStep ==
  ASSUME IInv, NEW r \in Requests, Listed(r), Handles(r)
  PROVE  Listed(r)'
<1> USE DEF TypeOK, Goto, SetScan, SetMeta
<1>0. ident' = ident /\ meta[r] \in MetaState
  BY HandlesFrame DEF IInv, poolVars
<1>1. CASE CloseBody(r) \/ ErrorHandler(r)
  <2>1. /\ pc[r] # "release" /\ pc'[r] = "release" /\ acct' = acct /\ meta' = meta
        /\ RecordMeta(r)
    BY <1>1 DEF CloseBody, ErrorHandler, IInv
  <2>2. ledger'[r] = <<Event(r)>>
    BY <2>1 DEF RecordMeta, Listed, Event, Booked, IInv
  <2>3. Event(r)' = Event(r)
    BY <1>0, <2>1 DEF Event
  <2> QED
    BY <2>1, <2>2, <2>3 DEF Listed
<1>2. CASE Release(r)
  BY <1>2 DEF Release, Listed, IInv
<1>3. CASE Cancel(r)
  <2>1. pc' = pc /\ pc[r] # "release" /\ ledger' = ledger
    BY <1>3, SilentSteps DEF Cancel
  <2> QED
    BY <2>1 DEF Listed
<1>4. CASE \/ RouteAccount(r) \/ EligibleAccount(r) \/ ReserveSticky(r)
           \/ PickAccount(r) \/ LoseSlot(r) \/ TryAcquire(r)
           \/ NoAccount(r) \/ BindSession(r) \/ StartCensus(r)
           \/ EndCensus(r) \/ Refuse(r) \/ SwitchAccount(r)
  <2>1. pc[r] # "release" /\ pc'[r] # "release"
    BY <1>4 DEF RouteAccount, EligibleAccount, ReserveSticky, PickAccount, LoseSlot,
       Picked, GiveUpOrRescan, TryAcquire, NoAccount, BindSession, StartCensus,
       EndCensus, Refuse, SwitchAccount, IInv
  <2> QED
    BY <1>4, <2>1, SilentSteps DEF Listed
<1>5. CASE ScanAccount(r) \/ CountAccount(r)
  <2>1. pc[r] # "release" /\ pc'[r] # "release"
    BY <1>5 DEF ScanAccount, CountAccount, IInv
  <2> QED
    BY <1>5, <2>1, SilentSteps DEF Listed
<1>6. CASE RoundTrip(r) \/ MarkPrevious(r) \/ ModifyResponse(r)
  <2>1. pc[r] # "release" /\ pc'[r] # "release" /\ ledger' = ledger
    BY <1>6 DEF RoundTrip, MarkPrevious, ModifyResponse, IInv
  <2> QED
    BY <2>1 DEF Listed
<1> QED
  BY <1>1, <1>2, <1>3, <1>4, <1>5, <1>6 DEF Handles, Serve

\* Every step continues the stories of all requests.
LEMMA StoryStep ==
  ASSUME IInv, Story, [Next]_vars
  PROVE  Story'
<1>1. ASSUME NEW r \in Requests, Handles(r) PROVE Story'
  <2>1. ASSUME NEW q \in Requests \ {r} PROVE Told(q)' /\ Listed(q)'
    <3>1. SameControl(q) /\ SameHistory(q)
      BY <1>1, <2>1, HandlesFrame, OwnHistory DEF IInv, SameLocals, SameControl
    <3>2. \A o \in Objects : ident'[o] = ident[o]
      BY <1>1, HandlesFrame DEF IInv, poolVars
    <3> QED
      BY <3>1, <3>2, StoryStands DEF IInv, Story
  <2>2. Told(r)' /\ Listed(r)'
    BY <1>1, ToldStep, ListedStep DEF Story
  <2> QED
    BY <2>1, <2>2 DEF Story
<1>2. CASE Outside
  <2>1. UNCHANGED <<pc, acct, next, meta>>
    BY <1>2, OutsideFrame
  <2>2. UNCHANGED <<calls, charged, ledger>>
    BY <1>2 DEF Outside, Operate, Tick, ForgetSession, CreateManagedAccount,
       UpdateManagedAccount, RemoveManagedAccount, StartProbe, FinishProbe, history
  <2>3. \A o \in Objects : ~Fresh(o) => ident'[o] = ident[o]
    BY <1>2, AllocatedKeeps DEF IInv
  <2>4. ASSUME NEW q \in Requests PROVE Told(q)' /\ Listed(q)'
    <3>1. SameControl(q) /\ SameHistory(q)
      BY <2>1, <2>2 DEF SameControl, SameHistory
    <3> QED
      BY <2>3, <3>1, StoryStands DEF IInv, Story
  <2> QED
    BY <2>4 DEF Story
<1>3. CASE UNCHANGED vars
  BY <1>3 DEF vars, Story, Told, Untold, Leaving, Prior, WentElsewhere, Attempt, This,
              Listed, Event
<1> QED
  BY <1>1, <1>2, <1>3 DEF Next, Handles, Outside

\* At every moment the history of a request is the story its location tells.
LEMMA StoryHolds == Spec => []Story
<1>1. Init => Story
  BY DEF Init, Story, Told, Untold, Listed
<1>2. IInv /\ Story /\ [Next]_vars => Story'
  BY StoryStep
<1> QED
  BY <1>1, <1>2, Inductive, PTL DEF Spec

\* Sequences of one or two.
LEMMA ShortSequences ==
  ASSUME NEW c, NEW d
  PROVE  /\ Len(<<>>) = 0 /\ Len(<<c>>) = 1 /\ Len(<<c, d>>) = 2
         /\ Append(<<>>, c) = <<c>> /\ Append(<<c>>, d) = <<c, d>>
         /\ <<c, d>>[1] = c /\ <<c, d>>[2] = d
<1>1. Append(<<c>>, d) = <<c, d>>
  <2>1. <<c>> \in Seq({c, d}) /\ <<c, d>> \in Seq({c, d}) /\ d \in {c, d}
    OBVIOUS
  <2>2. Len(<<c>>) = 1 /\ <<c>>[1] = c
    OBVIOUS
  <2>3. /\ Append(<<c>>, d) \in Seq({c, d}) /\ Len(Append(<<c>>, d)) = 2
        /\ Append(<<c>>, d)[2] = d /\ Append(<<c>>, d)[1] = c
    BY <2>1, <2>2
  <2>4. Len(<<c, d>>) = 2 /\ <<c, d>>[1] = c /\ <<c, d>>[2] = d
    OBVIOUS
  <2>5. \A i \in 1..2 : i = 1 \/ i = 2
    OBVIOUS
  <2> QED
    BY <2>1, <2>3, <2>4, <2>5, SeqEqual
<1>2. Len(<<>>) = 0 /\ Len(<<c>>) = 1 /\ Len(<<c, d>>) = 2
  OBVIOUS
<1>3. <<c, d>>[1] = c /\ <<c, d>>[2] = d
  OBVIOUS
<1>4. Append(<<>>, c) = <<c>>
  OBVIOUS
<1> QED
  BY <1>1, <1>2, <1>3, <1>4

\* What a request at its end has told: one call or two, all charged.
LEMMA AtTheEnd ==
  ASSUME IInv, Story, NEW r \in Requests, pc[r] = "release"
  PROVE  /\ charged[r] = calls[r]
         /\ Last(calls[r]) = This(r) /\ Len(calls[r]) = meta[r].attempts
<1>1. acct[r] # NoObject
  BY DEF IInv, Placement, Placed, InFlight
<1>2. PICK before \in Seq(CallState) : Prior(r, before) /\ Attempt(r, before)
  BY <1>1, WhereItStands DEF Story, InFlight
<1>3. calls[r] = Append(before, This(r)) /\ charged[r] = calls[r]
  BY <1>2 DEF Attempt
<1>4. Len(before) + 1 = meta[r].attempts
  <2>1. CASE before = <<>> /\ meta[r].attempts = 1
    BY <2>1, ShortSequences
  <2>2. ASSUME NEW c \in CallState, before = <<c>>, meta[r].attempts = 2
        PROVE  Len(before) + 1 = meta[r].attempts
    <3>1. Len(before) = 1
      BY <2>2, ShortSequences
    <3> QED
      BY <2>2, <3>1
  <2> QED
    BY <1>2, <2>1, <2>2 DEF Prior
<1>5. /\ Len(Append(before, This(r))) = Len(before) + 1
      /\ Append(before, This(r))[Len(before) + 1] = This(r)
  OBVIOUS
<1> QED
  BY <1>3, <1>4, <1>5 DEF Last

\* Every outcome is charged once and to the account that produced it, through failovers,
\* clients that hang up and an operator who replaces the accounts meanwhile
\* (failoverTransport.RoundTrip, modifyResponse, errorHandler).
THEOREM ChargedToItsAccount == Spec => []ChargedOnce
<1>1. IInv /\ Story => ChargedOnce
  BY AtTheEnd DEF ChargedOnce
<1> QED
  BY <1>1, Inductive, StoryHolds, PTL

\* The ledger has one event for a request that ends: the account that gave the answer,
\* its status, and the number of calls really made (recordMeta).
THEOREM LedgerTrue == Spec => []LedgerTellsTheTruth
<1>1. ASSUME IInv, Story, NEW r \in Requests, pc[r] = "release"
      PROVE  ledger[r] = <<[account |-> ident[Last(calls[r]).obj],
                            attempts |-> Len(calls[r]), status |-> Last(calls[r]).kind]>>
  <2>1. ledger[r] = <<Event(r)>>
    BY <1>1 DEF Story, Listed
  <2>2. Last(calls[r]).obj = acct[r] /\ Last(calls[r]).kind = meta[r].outcome
    <3>1. Last(calls[r]) = This(r)
      BY <1>1, AtTheEnd
    <3>2. This(r).obj = acct[r] /\ This(r).kind = meta[r].outcome
      BY DEF This, Call
    <3> QED
      BY <3>1, <3>2
  <2>3. Len(calls[r]) = meta[r].attempts
    BY <1>1, AtTheEnd
  <2> QED
    BY <2>1, <2>2, <2>3 DEF Event
<1>2. IInv /\ Story => LedgerTellsTheTruth
  BY <1>1 DEF LedgerTellsTheTruth
<1> QED
  BY <1>2, Inductive, StoryHolds, PTL

\* A request is sent at most twice, and the second time elsewhere, after an outcome that
\* allows it (failoverTransport.RoundTrip).
THEOREM RetriedOnceElsewhere == Spec => []OneRetryElsewhere
<1>1. ASSUME IInv, Story, NEW r \in Requests
      PROVE  /\ Len(calls[r]) <= 2
             /\ Len(calls[r]) = 2 =>
                  /\ RetryableUpstreamResult(calls[r][1].kind)
                  /\ r \in Replayable
                  /\ ident[calls[r][1].obj] # ident[calls[r][2].obj]
  <2>1. CASE Untold(r) \/ Leaving(r)
    <3>1. calls[r] = <<>> \/ calls[r] = <<This(r)>>
      BY <2>1 DEF Untold, Leaving
    <3>2. Len(<<This(r)>>) = 1
      OBVIOUS
    <3> QED
      BY <3>1, <3>2
  <2>2. ASSUME NEW before \in Seq(CallState), Prior(r, before), Attempt(r, before)
        PROVE  /\ Len(calls[r]) <= 2
               /\ Len(calls[r]) = 2 =>
                    /\ RetryableUpstreamResult(calls[r][1].kind)
                    /\ r \in Replayable
                    /\ ident[calls[r][1].obj] # ident[calls[r][2].obj]
    <3>1. calls[r] = before \/ calls[r] = Append(before, This(r))
      BY <2>2 DEF Attempt
    <3>2. CASE before = <<>>
      <4> PICK d : d = This(r)
        OBVIOUS
      <4>1. calls[r] = <<>> \/ calls[r] = <<d>>
        BY <3>1, <3>2, ShortSequences
      <4>2. Len(<<>>) = 0 /\ Len(<<d>>) = 1
        BY ShortSequences
      <4>3. CASE calls[r] = <<>>
        BY <4>2, <4>3
      <4>4. CASE calls[r] = <<d>>
        <5>1. Len(calls[r]) = 1
          BY <4>2, <4>4
        <5> QED
          BY <5>1
      <4> QED
        BY <4>1, <4>3, <4>4
    <3>3. ASSUME NEW c \in CallState, before = <<c>>, WentElsewhere(r, c)
          PROVE  /\ Len(calls[r]) <= 2
                 /\ Len(calls[r]) = 2 =>
                      /\ RetryableUpstreamResult(calls[r][1].kind)
                      /\ r \in Replayable
                      /\ ident[calls[r][1].obj] # ident[calls[r][2].obj]
      <4> PICK d : d = This(r)
        OBVIOUS
      <4>1. /\ calls[r] = <<c>> \/ calls[r] = <<c, d>>
            /\ Len(<<c>>) = 1 /\ Len(<<c, d>>) = 2
            /\ <<c, d>>[1] = c /\ <<c, d>>[2] = d
        BY <3>1, <3>3, ShortSequences
      <4>2. d.obj = acct[r]
        BY DEF This, Call
      <4>3. CASE calls[r] = <<c>>
        BY <4>1, <4>3
      <4>4. CASE calls[r] = <<c, d>>
        <5>1. Len(calls[r]) = 2 /\ calls[r][1] = c /\ calls[r][2] = d
          BY <4>1, <4>4
        <5> QED
          BY <3>3, <4>2, <5>1 DEF WentElsewhere
      <4> QED
        BY <4>1, <4>3, <4>4
    <3> QED
      BY <2>2, <3>2, <3>3 DEF Prior
  <2> QED
    BY <1>1, <2>1, <2>2 DEF Story, Told
<1>2. IInv /\ Story => OneRetryElsewhere
  BY <1>1 DEF OneRetryElsewhere
<1> QED
  BY <1>2, Inductive, StoryHolds, PTL

-----------------------------------------------------------------------------
(* Where a session goes when its request fails over.                       *)

\* The session of a request that has it to itself is bound, if at all, to the account
\* of its second attempt.
Alone(r) == UsesAffinity(r) /\ \A q \in Requests \ {r} : SessionOf[q] # SessionOf[r]
FollowsTo(r) ==
  Alone(r) /\ pc[r] = "upstream" /\ meta[r].attempts = 2 =>
    bound[SessionOf[r]] \in {NoId, ident[acct[r]]}
Follows == \A r \in Requests : FollowsTo(r)

\* A handler changes the affinity table by binding its own session only.
LEMMA TableFrame ==
  ASSUME NEW r \in Requests, Handles(r)
  PROVE  bound' = bound \/ BindSession(r)
BY DEF Handles, Serve, RouteAccount, Cancel, EligibleAccount, ReserveSticky, PickAccount,
       ScanAccount, TryAcquire, LoseSlot, NoAccount, StartCensus, CountAccount,
       EndCensus, Refuse, RoundTrip, MarkPrevious, SwitchAccount, ModifyResponse,
       CloseBody, ErrorHandler, Release

\* A second attempt of a session comes to its upstream call over a binding.
LEMMA SecondIsBound ==
  ASSUME IInv, NEW r \in Requests, UsesAffinity(r), Handles(r),
         pc'[r] = "upstream", meta'[r].attempts = 2
  PROVE  \/ BindSession(r)
         \/ /\ pc[r] = "upstream" /\ meta[r].attempts = 2
            /\ acct'[r] = acct[r] /\ bound' = bound
<1> USE DEF TypeOK, Goto, SetScan, SetMeta
<1>0. meta[r] \in MetaState /\ Placed(r)
  BY DEF IInv, Placement
<1>1. CASE ReserveSticky(r)
  <2>1. Reservable(scan[r].best)
    BY <1>1 DEF ReserveSticky, IInv
  <2>2. meta'[r] = [meta[r] EXCEPT !.attempts = 1, !.reused = TRUE]
    BY <1>1, <2>1 DEF ReserveSticky, IInv
  <2>3. meta'[r].attempts = 1
    BY <1>0, <2>2 DEF MetaState
  <2> QED
    BY <2>3
<1>2. CASE TryAcquire(r) \/ SwitchAccount(r)
  BY <1>2 DEF TryAcquire, SwitchAccount, IInv
<1>3. CASE Cancel(r)
  <2>1. pc' = pc /\ acct' = acct /\ bound' = bound
    BY <1>3 DEF Cancel
  <2>2. meta'[r].attempts = meta[r].attempts
    BY <1>0, <1>3 DEF Cancel, MetaState, IInv
  <2> QED
    BY <2>1, <2>2
<1>4. CASE \/ RouteAccount(r) \/ EligibleAccount(r) \/ PickAccount(r) \/ LoseSlot(r)
           \/ NoAccount(r) \/ StartCensus(r) \/ EndCensus(r) \/ Refuse(r)
  BY <1>4 DEF RouteAccount, EligibleAccount, PickAccount, LoseSlot, GiveUpOrRescan,
              NoAccount, StartCensus, EndCensus, Refuse, IInv
<1>5. CASE ScanAccount(r) \/ CountAccount(r)
  BY <1>5 DEF ScanAccount, CountAccount, IInv
<1>6. CASE RoundTrip(r) \/ MarkPrevious(r)
  BY <1>6 DEF RoundTrip, MarkPrevious, IInv
<1>7. CASE ModifyResponse(r) \/ CloseBody(r) \/ ErrorHandler(r) \/ Release(r)
  BY <1>7 DEF ModifyResponse, CloseBody, ErrorHandler, Release, IInv
<1> QED
  BY <1>1, <1>2, <1>3, <1>4, <1>5, <1>6, <1>7 DEF Handles, Serve

\* Every step keeps the session with its request.
LEMMA FollowsStep ==
  ASSUME IInv, Follows, [Next]_vars
  PROVE  Follows'
<1>0. /\ bound \in [Sessions -> AccountIds \cup {NoId}]
      /\ \A r \in Requests : Alone(r) => SessionOf[r] \in Sessions
  BY PoolAssumption DEF IInv, TypeOK, Alone, UsesAffinity
<1>1. ASSUME NEW r \in Requests, Handles(r) PROVE Follows'
  <2>1. ident' = ident
    BY <1>1, HandlesFrame DEF IInv, poolVars
  <2>2. FollowsTo(r)'
    <3> SUFFICES ASSUME Alone(r), pc'[r] = "upstream", meta'[r].attempts = 2
                 PROVE  bound'[SessionOf[r]] \in {NoId, ident[acct'[r]]}
      BY <2>1 DEF FollowsTo, Alone, UsesAffinity
    <3>1. CASE BindSession(r)
      BY <1>0, <3>1 DEF BindSession, BoundTo
    <3>2. CASE /\ pc[r] = "upstream" /\ meta[r].attempts = 2
               /\ acct'[r] = acct[r] /\ bound' = bound
      BY <3>2 DEF Follows, FollowsTo
    <3> QED
      BY <1>1, <3>1, <3>2, SecondIsBound DEF Alone
  <2>3. ASSUME NEW q \in Requests \ {r} PROVE FollowsTo(q)'
    <3>1. SameLocals(q)
      BY <1>1, <2>3, HandlesFrame DEF IInv
    <3> SUFFICES ASSUME Alone(q), pc[q] = "upstream", meta[q].attempts = 2
                 PROVE  bound'[SessionOf[q]] \in {NoId, ident[acct[q]]}
      BY <2>1, <3>1 DEF FollowsTo, Alone, UsesAffinity, SameLocals
    <3>2. bound'[SessionOf[q]] = bound[SessionOf[q]]
      <4>1. SessionOf[r] # SessionOf[q]
        BY DEF Alone
      <4>2. CASE BindSession(r)
        BY <1>0, <4>1, <4>2 DEF BindSession
      <4> QED
        BY <1>1, <4>2, TableFrame
    <3> QED
      BY <3>2 DEF Follows, FollowsTo
  <2> QED
    BY <2>2, <2>3 DEF Follows
<1>2. CASE Outside
  <2>1. UNCHANGED <<pc, acct, meta>>
    BY <1>2, OutsideFrame
  <2>2. \A s \in Sessions : bound'[s] \in {NoId, bound[s]}
    <3>1. bound' = bound \/ \E s \in Sessions : ForgetSession(s)
      BY <1>2 DEF Outside, Operate, Tick, CreateManagedAccount, UpdateManagedAccount,
                  RemoveManagedAccount, StartProbe, FinishProbe
    <3>2. ASSUME NEW s \in Sessions, ForgetSession(s)
          PROVE  \A t \in Sessions : bound'[t] \in {NoId, bound[t]}
      BY <1>0, <3>2 DEF ForgetSession
    <3> QED
      BY <3>1, <3>2
  <2>3. ASSUME NEW r \in Requests PROVE FollowsTo(r)'
    <3> SUFFICES ASSUME Alone(r), pc[r] = "upstream", meta[r].attempts = 2
                 PROVE  bound'[SessionOf[r]] \in {NoId, ident'[acct[r]]}
      BY <2>1 DEF FollowsTo, Alone, UsesAffinity
    <3>1. acct[r] \in Objects /\ ~Fresh(acct[r])
      BY PoolAssumption DEF IInv, Placement, Placed, InFlight, Allocated, Refs, TypeOK
    <3>2. ident'[acct[r]] = ident[acct[r]]
      BY <1>2, <3>1, AllocatedKeeps DEF IInv
    <3>3. bound[SessionOf[r]] \in {NoId, ident[acct[r]]}
      BY DEF Follows, FollowsTo
    <3> QED
      BY <1>0, <2>2, <3>2, <3>3
  <2> QED
    BY <2>3 DEF Follows
<1>3. CASE UNCHANGED vars
  BY <1>3 DEF vars, poolVars, Follows, FollowsTo, Alone, UsesAffinity
<1> QED
  BY <1>1, <1>2, <1>3 DEF Next, Handles, Outside

\* While a session's only request makes its second call, the session is not bound to the
\* account that failed it (the Bind of failoverTransport.RoundTrip).
THEOREM SessionMigrates == Spec => []MigratesOnFailover
<1>1. ASSUME IInv, Story, Follows PROVE MigratesOnFailover
  <2> SUFFICES ASSUME NEW r \in Requests, Alone(r), pc[r] = "upstream",
                      meta[r].attempts = 2
               PROVE  bound[SessionOf[r]] # ident[calls[r][1].obj]
    BY DEF MigratesOnFailover, Alone
  <2>1. acct[r] # NoObject
    BY <1>1 DEF IInv, Placement, Placed, InFlight
  <2>2. PICK before \in Seq(CallState) : Prior(r, before) /\ Attempt(r, before)
    BY <1>1, <2>1, WhereItStands DEF Story, InFlight
  <2>3. PICK c \in CallState : before = <<c>> /\ WentElsewhere(r, c)
    BY <2>2 DEF Prior
  <2>4. calls[r][1] = c
    BY <2>2, <2>3 DEF Attempt
  <2>5. bound[SessionOf[r]] \in {NoId, ident[acct[r]]}
    BY <1>1 DEF Follows, FollowsTo
  <2> QED
    BY <2>3, <2>4, <2>5 DEF WentElsewhere
<1>2. Init => Follows
  BY DEF Init, Follows, FollowsTo
<1>3. IInv /\ Follows /\ [Next]_vars => Follows'
  BY FollowsStep
<1> QED
  BY <1>1, <1>2, <1>3, Inductive, StoryHolds, PTL DEF Spec
=============================================================================
