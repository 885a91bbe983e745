--------------------------- MODULE AffinityProofs ---------------------------
(***************************************************************************)
(* For any number of sessions, accounts and callers, any size of the table *)
(* and any lag: a session in use keeps its account, and the table          *)
(* implements SessionTable.                                                *)
(*                                                                         *)
(* That a session in use survives an eviction follows from what the stamps *)
(* in the table say about the history (Stamped), which holds as callers    *)
(* are never later than MaxLag (Punctual): if a session is the least       *)
(* recently used of a full table, all the others in it, and the one that   *)
(* takes its place, were used since.                                       *)
(***************************************************************************)
EXTENDS Affinity, FiniteSetTheorems, TLAPS

Carried(c) == calls[c].at \in {"get", "bind", "rebind"}

\* A caller's time is at most MaxLag old when the table sees it.
Punctual ==
  \A c \in Callers : Carried(c) => calls[c].now <= now /\ now <= calls[c].now + MaxLag

Past == \A s \in Sessions : touched[s] <= now

\* An entry names the account bound last, and is stamped with a time that is not
\* after its last use and at most MaxLag before it.
Stamped ==
  \A s \in Present(entries) :
    /\ entries[s].account = settled[s]
    /\ entries[s].expiresAt = entries[s].lastUsed + TTL
    /\ entries[s].lastUsed <= touched[s]
    /\ touched[s] <= entries[s].lastUsed + MaxLag

Bounded == Cardinality(Present(entries)) <= MaxEntries

IInv == TypeOK /\ Punctual /\ Past /\ Stamped /\ Bounded /\ WorkingSetKept

-----------------------------------------------------------------------------
USE AffinityAssumption

\* What is not in the table is NoEntry, and only that has no account.
LEMMA EntryType ==
  ASSUME NEW e \in Entry \cup {NoEntry}
  PROVE  /\ e = NoEntry <=> e.account = NoAccount
         /\ e # NoEntry => e \in Entry
BY DEF Entry, NoEntry

\* The sessions of a table are finitely many.
LEMMA PresentFinite ==
  ASSUME NEW table
  PROVE  /\ IsFiniteSet(Present(table))
         /\ Cardinality(Present(table)) \in Nat
<1>1. Present(table) \subseteq Sessions
  BY DEF Present
<1> QED
  BY <1>1, FS_Subset, FS_CardinalityType

\* So are those used since another was.
LEMMA UsedSinceFinite ==
  ASSUME NEW s \in Sessions
  PROVE  /\ IsFiniteSet(UsedSince(s)) /\ Cardinality(UsedSince(s)) \in Nat
         /\ IsFiniteSet(UsedSince(s)') /\ Cardinality(UsedSince(s)') \in Nat
<1>1. UsedSince(s) \subseteq Sessions /\ UsedSince(s)' \subseteq Sessions
  BY DEF UsedSince
<1> QED
  BY <1>1, FS_Subset, FS_CardinalityType

\* While a session itself is not used, those used since become no fewer.
LEMMA UsedSinceGrows ==
  ASSUME NEW s \in Sessions, touched'[s] = touched[s],
         touched \in [Sessions -> Nat], touched' \in [Sessions -> Nat],
         \A u \in Sessions : touched[u] <= touched'[u],
         \A u \in Sessions : settled[u] # NoAccount => settled'[u] # NoAccount
  PROVE  Cardinality(UsedSince(s)) <= Cardinality(UsedSince(s)')
<1>1. UsedSince(s) \subseteq UsedSince(s)'
  <2> SUFFICES ASSUME NEW u \in UsedSince(s) PROVE u \in UsedSince(s)'
    OBVIOUS
  <2>1. /\ u \in Sessions \ {s} /\ settled[u] # NoAccount
        /\ touched[u] + MaxLag >= touched[s]
    BY DEF UsedSince
  <2>2. touched[u] \in Nat /\ touched'[u] \in Nat /\ touched[s] \in Nat
    BY <2>1
  <2>3. touched'[u] + MaxLag >= touched'[s]
    BY <2>1, <2>2
  <2> QED
    BY <2>1, <2>3 DEF UsedSince
<1> QED
  BY <1>1, UsedSinceFinite, FS_Subset

\* A session whose entry has expired by some caller's time is out of the working set.
LEMMA ExpiredIsUnused ==
  ASSUME IInv, NEW c \in Callers, Carried(c), NEW s \in Present(entries),
         ~Live(entries[s], calls[c].now)
  PROVE  ~(now + MaxLag < touched[s] + TTL)
<1>1. s \in Sessions /\ entries[s] # NoEntry
  BY DEF Present
<1>2. entries[s] \in Entry
  BY <1>1, EntryType DEF IInv, TypeOK
<1>3. /\ entries[s].expiresAt \in Nat /\ entries[s].lastUsed \in Nat
      /\ touched[s] \in Nat /\ now \in Nat /\ calls[c].now \in Nat
  BY <1>1, <1>2 DEF IInv, TypeOK, Entry, Call
<1>4. entries[s].expiresAt <= calls[c].now
  BY <1>1, <1>3 DEF Live
<1>5. /\ entries[s].expiresAt = entries[s].lastUsed + TTL
      /\ touched[s] <= entries[s].lastUsed + MaxLag
      /\ calls[c].now <= now
  BY DEF IInv, Stamped, Punctual
<1> QED
  BY <1>3, <1>4, <1>5

-----------------------------------------------------------------------------
(* One lemma per action.                                                   *)

\* The empty table satisfies everything.
LEMMA InitHolds == Init => IInv
<1> SUFFICES ASSUME Init PROVE IInv
  OBVIOUS
<1>1. TypeOK
  BY DEF Init, TypeOK, NoCall, Call
<1>2. Present(entries) = {}
  BY DEF Init, Present
<1>3. Punctual /\ Past /\ Stamped /\ WorkingSetKept
  BY <1>2 DEF Init, Punctual, Carried, NoCall, Past, Stamped, WorkingSetKept
<1>4. Bounded
  BY <1>2, FS_EmptySet DEF Bounded
<1> QED
  BY <1>1, <1>3, <1>4 DEF IInv

\* Time passes: no caller becomes later than MaxLag, no session enters the working set.
LEMMA TickStep ==
  ASSUME IInv, Tick
  PROVE  IInv'
<1>1. /\ now' = now + 1 /\ now \in Nat
      /\ UNCHANGED <<entries, calls, touched, settled>>
  BY DEF Tick, IInv, TypeOK
<1>2. TypeOK'
  BY <1>1 DEF IInv, TypeOK
<1>3. Punctual'
  <2> SUFFICES ASSUME NEW c \in Callers, Carried(c)
               PROVE  calls[c].now <= now + 1 /\ now + 1 <= calls[c].now + MaxLag
    BY <1>1 DEF Punctual, Carried
  <2>1. calls[c].now \in Nat
    BY DEF IInv, TypeOK, Call
  <2>2. calls[c].now <= now /\ now < calls[c].now + MaxLag
    BY DEF IInv, Punctual, Tick, Carried
  <2> QED
    BY <1>1, <2>1, <2>2
<1>4. Past'
  BY <1>1 DEF IInv, TypeOK, Past
<1>5. Stamped' /\ Bounded'
  BY <1>1 DEF IInv, Stamped, Bounded, Present
<1>6. WorkingSetKept'
  <2> SUFFICES ASSUME NEW s \in Sessions, settled[s] # NoAccount,
                      (now + 1) + MaxLag < touched[s] + TTL,
                      Cardinality(UsedSince(s)) < MaxEntries
               PROVE  entries[s].account = settled[s]
    BY <1>1 DEF WorkingSetKept, UsedSince
  <2>1. now + MaxLag < touched[s] + TTL
    BY <1>1 DEF IInv, TypeOK
  <2> QED
    BY <2>1 DEF IInv, WorkingSetKept
<1> QED
  BY <1>2, <1>3, <1>4, <1>5, <1>6 DEF IInv

\* A request's own steps leave table and history alone.
LEMMA OwnStep ==
  ASSUME IInv, NEW c \in Callers, RouteAccount(c) \/ Failover(c) \/ Done(c)
  PROVE  IInv'
<1>1. UNCHANGED <<now, entries, touched, settled>>
  BY DEF RouteAccount, Failover, Done
<1>2. \A d \in Callers \ {c} : calls'[d] = calls[d]
  BY DEF RouteAccount, Failover, Done, Ends, IInv, TypeOK
<1>3. \/ calls'[c].at = "idle"
      \/ calls'[c].session \in Sessions /\ calls'[c].now = now
  BY DEF RouteAccount, Failover, Done, Ends, NoCall, IInv, TypeOK, Call
<1>4. calls' \in [Callers -> Call]
  BY DEF RouteAccount, Failover, Done, Ends, NoCall, IInv, TypeOK, Call
<1>5. TypeOK'
  BY <1>1, <1>2, <1>3, <1>4 DEF IInv, TypeOK
<1>6. Punctual'
  BY <1>1, <1>2, <1>3 DEF IInv, TypeOK, Punctual, Carried
<1>7. Past' /\ Stamped' /\ Bounded' /\ WorkingSetKept'
  BY <1>1 DEF IInv, Past, Stamped, Bounded, Present, WorkingSetKept, UsedSince
<1> QED
  BY <1>5, <1>6, <1>7 DEF IInv

-----------------------------------------------------------------------------
(* The steps on the table.                                                 *)

KeptFor(s) ==
  /\ settled[s] # NoAccount
  /\ now + MaxLag < touched[s] + TTL
  /\ Cardinality(UsedSince(s)) < MaxEntries
  => entries[s].account = settled[s]

\* What a caller brings to the table.
LEMMA CallerFacts ==
  ASSUME IInv, NEW c \in Callers, Carried(c)
  PROVE  /\ calls[c].session \in Sessions
         /\ now \in Nat /\ calls[c].now \in Nat
         /\ calls[c].now <= now /\ now <= calls[c].now + MaxLag
BY DEF IInv, TypeOK, Call, Carried, Punctual

\* A caller that goes on with the time it has read is not later than before.
LEMMA CallerGoesOn ==
  ASSUME IInv, NEW c \in Callers, Carried(c), now' = now,
         Step(c, "routed") \/ Step(c, "bind") \/ Ends(c)
  PROVE  /\ calls' \in [Callers -> Call]
         /\ \A d \in Callers : calls'[d].at # "idle" => calls'[d].session \in Sessions
         /\ Punctual'
<1>1. \A d \in Callers \ {c} : calls'[d] = calls[d]
  BY DEF Step, Ends, IInv, TypeOK
<1>2. calls' \in [Callers -> Call]
  BY DEF Step, Ends, NoCall, IInv, TypeOK, Call
<1>3. \/ calls'[c].at = "idle"
      \/ calls'[c].session = calls[c].session /\ calls'[c].now = calls[c].now
  BY DEF Step, Ends, NoCall, IInv, TypeOK, Call
<1>4. Punctual'
  <2> SUFFICES ASSUME NEW d \in Callers, Carried(d)'
               PROVE  calls'[d].now <= now' /\ now' <= calls'[d].now + MaxLag
    BY DEF Punctual
  <2>1. CASE d = c
    BY <2>1, <1>3, CallerFacts DEF Carried
  <2>2. CASE d # c
    BY <2>2, <1>1 DEF IInv, Punctual, Carried
  <2> QED
    BY <2>1, <2>2
<1>5. \A d \in Callers : calls'[d].at # "idle" => calls'[d].session \in Sessions
  BY <1>1, <1>3, CallerFacts DEF IInv, TypeOK
<1> QED
  BY <1>2, <1>4, <1>5

\* A use of a session is its latest.
LEMMA UsedNow ==
  ASSUME IInv, NEW s0 \in Sessions, Touch(s0), now' = now
  PROVE  /\ touched' \in [Sessions -> Nat]
         /\ \A u \in Sessions : touched'[u] = IF u = s0 THEN now ELSE touched[u]
         /\ \A u \in Sessions : touched[u] <= touched'[u]
         /\ Past'
<1>1. touched' = [touched EXCEPT ![s0] = now]
  BY DEF Touch
<1>2. touched \in [Sessions -> Nat] /\ now \in Nat
  BY DEF IInv, TypeOK
<1>3. \A u \in Sessions : touched'[u] = IF u = s0 THEN now ELSE touched[u]
  BY <1>1, <1>2
<1>4. touched' \in [Sessions -> Nat]
  BY <1>1, <1>2
<1>5. \A u \in Sessions : touched[u] <= now
  BY DEF IInv, Past
<1>6. \A u \in Sessions : touched[u] <= touched'[u] /\ touched'[u] <= now
  BY <1>2, <1>3, <1>5
<1> QED
  BY <1>3, <1>4, <1>6 DEF Past

\* A session that a step does not concern is kept as it was.
LEMMA UntouchedIsKept ==
  ASSUME IInv, NEW s \in Sessions, now' = now,
         touched'[s] = touched[s], settled'[s] = settled[s], entries'[s] = entries[s],
         touched' \in [Sessions -> Nat],
         \A u \in Sessions : touched[u] <= touched'[u],
         \A u \in Sessions : settled[u] # NoAccount => settled'[u] # NoAccount
  PROVE  KeptFor(s)'
<1>1. KeptFor(s)
  BY DEF IInv, WorkingSetKept, KeptFor
<1>2. touched \in [Sessions -> Nat]
  BY DEF IInv, TypeOK
<1>3. Cardinality(UsedSince(s)) <= Cardinality(UsedSince(s)')
  BY <1>2, UsedSinceGrows
<1>4. Cardinality(UsedSince(s)) \in Nat /\ Cardinality(UsedSince(s)') \in Nat
  BY UsedSinceFinite
<1> QED
  BY <1>1, <1>3, <1>4 DEF KeptFor

\* An entry that is found is renewed.
LEMMA HitStep ==
  ASSUME IInv, NEW c \in Callers, GetHit(c)
  PROVE  IInv'
<1>0. Carried(c)
  BY DEF GetHit, Carried
<1> PICK s0 \in Sessions : s0 = calls[c].session
  BY <1>0, CallerFacts
<1> PICK t \in Nat : t = calls[c].now
  BY <1>0, CallerFacts
<1>1. now' = now /\ settled' = settled /\ Touch(s0)
  BY DEF GetHit
<1>2. now \in Nat /\ t <= now /\ now <= t + MaxLag
  BY <1>0, CallerFacts
<1>3. entries[s0] # NoEntry /\ s0 \in Present(entries)
  BY DEF GetHit, Live, Present
<1>4. entries[s0] \in Entry
  BY <1>3, EntryType DEF IInv, TypeOK
<1> PICK a \in Accounts : a = entries[s0].account
  BY <1>4 DEF Entry
<1>5. entries' = [entries EXCEPT ![s0] = EntryOf(a, t)]
  BY DEF GetHit
<1>6. EntryOf(a, t) \in Entry /\ EntryOf(a, t) # NoEntry
  BY DEF EntryOf, Entry, NoEntry
<1>7. \A s \in Sessions : entries'[s] = IF s = s0 THEN EntryOf(a, t) ELSE entries[s]
  BY <1>5 DEF IInv, TypeOK
<1>8. entries' \in [Sessions -> Entry \cup {NoEntry}]
  BY <1>5, <1>6 DEF IInv, TypeOK
<1>9. /\ calls' \in [Callers -> Call]
      /\ \A d \in Callers : calls'[d].at # "idle" => calls'[d].session \in Sessions
      /\ Punctual'
  BY <1>0, <1>1, CallerGoesOn DEF GetHit
<1>10. /\ touched' \in [Sessions -> Nat]
       /\ \A u \in Sessions : touched'[u] = IF u = s0 THEN now ELSE touched[u]
       /\ \A u \in Sessions : touched[u] <= touched'[u]
       /\ Past'
  BY <1>1, UsedNow
<1>11. TypeOK'
  BY <1>1, <1>8, <1>9, <1>10 DEF IInv, TypeOK
<1>12. Present(entries)' = Present(entries)
  BY <1>3, <1>6, <1>7 DEF Present
<1>13. Bounded'
  BY <1>12 DEF IInv, Bounded
<1>14. a = settled[s0]
  BY <1>3 DEF IInv, Stamped
<1>15. Stamped'
  <2> SUFFICES ASSUME NEW s \in Present(entries)
               PROVE  /\ entries'[s].account = settled'[s]
                      /\ entries'[s].expiresAt = entries'[s].lastUsed + TTL
                      /\ entries'[s].lastUsed <= touched'[s]
                      /\ touched'[s] <= entries'[s].lastUsed + MaxLag
    BY <1>12 DEF Stamped
  <2>0. s \in Sessions
    BY DEF Present
  <2>1. CASE s = s0
    BY <2>1, <1>1, <1>2, <1>7, <1>10, <1>14 DEF EntryOf
  <2>2. CASE s # s0
    BY <2>0, <2>2, <1>1, <1>7, <1>10 DEF IInv, Stamped
  <2> QED
    BY <2>1, <2>2
<1>16. \A s \in Sessions : KeptFor(s)'
  <2> TAKE s \in Sessions
  <2>1. CASE s \in Present(entries)'
    BY <2>1, <1>15 DEF Stamped, KeptFor
  <2>2. CASE s \notin Present(entries)'
    <3>1. s # s0
      BY <2>2, <1>3, <1>12
    <3>2. entries'[s] = entries[s] /\ touched'[s] = touched[s]
      BY <3>1, <1>7, <1>10
    <3> QED
      BY <3>2, <1>1, <1>10, UntouchedIsKept
  <2> QED
    BY <2>1, <2>2
<1>17. WorkingSetKept'
  BY <1>16 DEF WorkingSetKept, KeptFor
<1> QED
  BY <1>9, <1>10, <1>11, <1>13, <1>15, <1>17 DEF IInv

\* An entry that is not live is dropped.
LEMMA MissStep ==
  ASSUME IInv, NEW c \in Callers, GetMiss(c)
  PROVE  IInv'
<1>0. Carried(c)
  BY DEF GetMiss, Carried
<1> PICK s0 \in Sessions : s0 = calls[c].session
  BY <1>0, CallerFacts
<1>1. now' = now /\ settled' = settled /\ touched' = touched
  BY DEF GetMiss
<1>2. \A s \in Sessions : entries'[s] = IF s = s0 THEN NoEntry ELSE entries[s]
  BY DEF GetMiss, IInv, TypeOK
<1>3. entries' \in [Sessions -> Entry \cup {NoEntry}]
  BY DEF GetMiss, IInv, TypeOK
<1>4. /\ calls' \in [Callers -> Call]
      /\ \A d \in Callers : calls'[d].at # "idle" => calls'[d].session \in Sessions
      /\ Punctual'
  BY <1>0, <1>1, CallerGoesOn DEF GetMiss
<1>5. TypeOK' /\ Past'
  BY <1>1, <1>3, <1>4 DEF IInv, TypeOK, Past
<1>6. Present(entries)' \subseteq Present(entries)
  BY <1>2 DEF Present
<1>7. Cardinality(Present(entries)') <= Cardinality(Present(entries))
  BY <1>6, PresentFinite, FS_Subset
<1>8. Cardinality(Present(entries)) \in Nat /\ Cardinality(Present(entries)') \in Nat
  <2>1. IsFiniteSet(Present(entries)')
    BY <1>6, PresentFinite, FS_Subset
  <2> QED
    BY <2>1, PresentFinite, FS_CardinalityType
<1>9. Bounded'
  BY <1>7, <1>8 DEF IInv, Bounded
<1>10. \A s \in Present(entries)' : s \in Present(entries) /\ entries'[s] = entries[s]
  BY <1>2 DEF Present
<1>11. Stamped'
  BY <1>1, <1>10 DEF IInv, Stamped
<1>12. \A s \in Sessions : KeptFor(s)'
  <2> TAKE s \in Sessions
  <2>1. CASE s = s0 /\ s \in Present(entries)
    <3>1. ~(now + MaxLag < touched[s] + TTL)
      BY <2>1, <1>0, ExpiredIsUnused DEF GetMiss
    <3> QED
      BY <3>1, <1>1 DEF KeptFor
  <2>2. CASE s # s0 \/ s \notin Present(entries)
    <3>1. entries'[s] = entries[s]
      BY <2>2, <1>2 DEF Present
    <3> QED
      BY <3>1, <1>1, UntouchedIsKept DEF IInv, TypeOK
  <2> QED
    BY <2>1, <2>2
<1>13. WorkingSetKept'
  BY <1>12 DEF WorkingSetKept, KeptFor
<1> QED
  BY <1>4, <1>5, <1>9, <1>11, <1>13 DEF IInv

\* The table is no larger when a session takes the place of another, or has one.
LEMMA RoomIsKept ==
  ASSUME NEW S, IsFiniteSet(S), NEW u \in S, NEW s0
  PROVE  /\ Cardinality((S \ {u}) \cup {s0}) <= Cardinality(S)
         /\ s0 \notin S => Cardinality((S \ {u}) \cup {s0}) = Cardinality(S)
<1>1. /\ IsFiniteSet(S \ {u})
      /\ Cardinality(S \ {u}) = Cardinality(S) - 1
  BY FS_RemoveElement
<1>2. Cardinality(S) \in Nat /\ Cardinality(S \ {u}) \in Nat
  BY <1>1, FS_CardinalityType
<1>3. Cardinality((S \ {u}) \cup {s0}) =
        IF s0 \in S \ {u} THEN Cardinality(S \ {u}) ELSE Cardinality(S \ {u}) + 1
  BY <1>1, FS_AddElement
<1> QED
  BY <1>1, <1>2, <1>3

\* If the least recently used session is evicted, all others in the table, and the
\* one that takes its place, were used since.
LEMMA EvictedIsUnused ==
  ASSUME IInv, NEW s0 \in Sessions, NEW u \in Present(entries),
         s0 \notin Present(entries), FullAt(MaxEntries),
         \A v \in Present(entries) : entries[u].lastUsed <= entries[v].lastUsed,
         touched' \in [Sessions -> Nat], touched'[s0] = now,
         \A v \in Sessions \ {s0} : touched'[v] = touched[v],
         \A v \in Sessions \ {s0} : settled'[v] = settled[v],
         settled'[s0] # NoAccount
  PROVE  ~(Cardinality(UsedSince(u)') < MaxEntries)
<1> DEFINE Others == (Present(entries) \ {u}) \cup {s0}
<1>1. u \in Sessions /\ u # s0
  BY DEF Present
<1>2. Others \subseteq UsedSince(u)'
  <2> SUFFICES ASSUME NEW v \in Others PROVE v \in UsedSince(u)'
    OBVIOUS
  <2>1. v \in Sessions \ {u}
    BY <1>1 DEF Present
  <2>2. touched[u] \in Nat /\ now \in Nat /\ touched[u] <= now
    BY <1>1 DEF IInv, TypeOK, Past
  <2>3. touched'[u] = touched[u]
    BY <1>1
  <2>4. CASE v = s0
    BY <2>1, <2>2, <2>3, <2>4 DEF UsedSince
  <2>5. CASE v # s0
    <3>1. v \in Present(entries)
      BY <2>5
    <3>2. entries[v] \in Entry /\ entries[u] \in Entry
      BY <1>1, <2>1, <3>1, EntryType DEF IInv, TypeOK, Present
    <3>3. entries[v].lastUsed \in Nat /\ entries[u].lastUsed \in Nat
      BY <3>2 DEF Entry
    <3>4. touched[v] \in Nat /\ touched'[v] = touched[v] /\ settled'[v] = settled[v]
      BY <2>1, <2>5 DEF IInv, TypeOK
    <3>5. /\ entries[v].lastUsed <= touched[v]
          /\ touched[u] <= entries[u].lastUsed + MaxLag
          /\ entries[u].lastUsed <= entries[v].lastUsed
      BY <3>1 DEF IInv, Stamped
    <3>6. touched'[v] + MaxLag >= touched'[u]
      BY <2>2, <2>3, <3>3, <3>4, <3>5
    <3>7. settled'[v] # NoAccount
      BY <3>1, <3>2, <3>4 DEF IInv, Stamped, Entry
    <3> QED
      BY <2>1, <3>6, <3>7 DEF UsedSince
  <2> QED
    BY <2>4, <2>5
<1>3. Cardinality(Others) = Cardinality(Present(entries))
  BY PresentFinite, RoomIsKept
<1>4. Cardinality(Others) <= Cardinality(UsedSince(u)')
  BY <1>1, <1>2, UsedSinceFinite, FS_Subset
<1>5. Cardinality(Present(entries)) \in Nat /\ Cardinality(UsedSince(u)') \in Nat
  BY <1>1, PresentFinite, UsedSinceFinite
<1> QED
  BY <1>3, <1>4, <1>5 DEF FullAt

\* What a binding does to the table: it adds an entry, and may remove one.
Binds(s0, a, t) ==
  /\ ~MustEvict(s0)
  /\ \A s \in Sessions : entries'[s] = IF s = s0 THEN EntryOf(a, t) ELSE entries[s]

BindsFor(s0, a, t, u) ==
  /\ MustEvict(s0) /\ u \in Evicted(t)
  /\ \A s \in Sessions : entries'[s] = IF s = s0 THEN EntryOf(a, t)
                                       ELSE IF s = u THEN NoEntry ELSE entries[s]

\* The table stays within its bound.
LEMMA BindKeepsBound ==
  ASSUME IInv, NEW s0 \in Sessions, NEW a \in Accounts, NEW t \in Nat,
         \/ Binds(s0, a, t)
         \/ \E u \in Sessions : BindsFor(s0, a, t, u)
  PROVE  Bounded'
<1>0. EntryOf(a, t) # NoEntry
  BY DEF EntryOf, NoEntry
<1>1. /\ Cardinality(Present(entries)) \in Nat /\ IsFiniteSet(Present(entries))
      /\ Cardinality(Present(entries)) <= MaxEntries
  BY PresentFinite DEF IInv, Bounded
<1>2. CASE Binds(s0, a, t)
  <2>1. Present(entries)' = Present(entries) \cup {s0}
    BY <1>0, <1>2 DEF Binds, Present
  <2>2. CASE s0 \in Present(entries)
    <3>1. Present(entries)' = Present(entries)
      BY <2>1, <2>2
    <3> QED
      BY <3>1, <1>1 DEF Bounded
  <2>3. CASE s0 \notin Present(entries)
    <3>1. Cardinality(Present(entries) \cup {s0}) = Cardinality(Present(entries)) + 1
      BY <2>3, <1>1, FS_AddElement
    <3>2. ~(Cardinality(Present(entries)) >= MaxEntries)
      BY <1>2, <2>3 DEF Binds, MustEvict, FullAt, Present
    <3>3. Cardinality(Present(entries)) + 1 <= MaxEntries
      BY <3>2, <1>1
    <3> QED
      BY <2>1, <3>1, <3>3 DEF Bounded
  <2> QED
    BY <2>2, <2>3
<1>3. ASSUME NEW u \in Sessions, BindsFor(s0, a, t, u)
      PROVE  Bounded'
  <2>1. u \in Present(entries)
    BY <1>3 DEF BindsFor, Evicted, Expired
  <2>2. Present(entries)' = (Present(entries) \ {u}) \cup {s0}
    BY <1>0, <1>3 DEF BindsFor, Present
  <2>3. Cardinality((Present(entries) \ {u}) \cup {s0}) <= Cardinality(Present(entries))
    BY <1>1, <2>1, RoomIsKept
  <2>4. IsFiniteSet((Present(entries) \ {u}) \cup {s0})
    BY <1>1, <2>1, FS_RemoveElement, FS_AddElement
  <2>5. Cardinality((Present(entries) \ {u}) \cup {s0}) \in Nat
    BY <2>4, FS_CardinalityType
  <2>6. Cardinality((Present(entries) \ {u}) \cup {s0}) <= MaxEntries
    BY <1>1, <2>3, <2>5
  <2> QED
    BY <2>2, <2>6 DEF Bounded
<1> QED
  BY <1>2, <1>3

\* A session is bound, and takes the place of another in a full table.
LEMMA BindStep ==
  ASSUME IInv, NEW c \in Callers, Bind(c)
  PROVE  IInv'
<1>0. Carried(c)
  BY DEF Bind, Carried
<1> PICK s0 \in Sessions : s0 = calls[c].session
  BY <1>0, CallerFacts
<1> PICK t \in Nat : t = calls[c].now
  BY <1>0, CallerFacts
<1>1. now' = now /\ Touch(s0)
  BY DEF Bind
<1>2. now \in Nat /\ t <= now /\ now <= t + MaxLag
  BY <1>0, CallerFacts
<1>3. PICK a \in Accounts :
        /\ settled' = [settled EXCEPT ![s0] = a]
        /\ \/ /\ ~MustEvict(s0)
              /\ entries' = [entries EXCEPT ![s0] = EntryOf(a, t)]
           \/ /\ MustEvict(s0)
              /\ \E u \in Evicted(t) :
                   entries' = [entries EXCEPT ![u] = NoEntry, ![s0] = EntryOf(a, t)]
  BY DEF Bind
<1>4. EntryOf(a, t) \in Entry /\ EntryOf(a, t) # NoEntry
  BY DEF EntryOf, Entry, NoEntry
<1>5. entries \in [Sessions -> Entry \cup {NoEntry}]
  BY DEF IInv, TypeOK
<1>6. /\ entries' \in [Sessions -> Entry \cup {NoEntry}]
      /\ \/ Binds(s0, a, t)
         \/ \E u \in Sessions : BindsFor(s0, a, t, u)
  <2>1. CASE /\ ~MustEvict(s0)
             /\ entries' = [entries EXCEPT ![s0] = EntryOf(a, t)]
    BY <2>1, <1>4, <1>5 DEF Binds
  <2>2. ASSUME MustEvict(s0), NEW u \in Evicted(t),
               entries' = [entries EXCEPT ![u] = NoEntry, ![s0] = EntryOf(a, t)]
        PROVE  /\ entries' \in [Sessions -> Entry \cup {NoEntry}]
               /\ u \in Sessions /\ BindsFor(s0, a, t, u)
    <3>1. u \in Sessions
      BY <2>2 DEF Evicted, Expired, Present
    <3>2. entries' \in [Sessions -> Entry \cup {NoEntry}]
      BY <2>2, <3>1, <1>4, <1>5
    <3>3. \A s \in Sessions : entries'[s] = IF s = s0 THEN EntryOf(a, t)
                              ELSE IF s = u THEN NoEntry ELSE entries[s]
      BY <2>2, <3>1, <1>5
    <3> QED
      BY <2>2, <3>1, <3>2, <3>3 DEF BindsFor
  <2> QED
    BY <1>3, <2>1, <2>2
<1>7. /\ entries'[s0] = EntryOf(a, t)
      /\ \A s \in Sessions \ {s0} : entries'[s] \in {entries[s], NoEntry}
  BY <1>6 DEF Binds, BindsFor
<1>8. /\ settled' \in [Sessions -> Accounts \cup {NoAccount}]
      /\ \A s \in Sessions : settled'[s] = IF s = s0 THEN a ELSE settled[s]
  BY <1>3 DEF IInv, TypeOK
<1>9. /\ calls' \in [Callers -> Call]
      /\ \A d \in Callers : calls'[d].at # "idle" => calls'[d].session \in Sessions
      /\ Punctual'
  BY <1>0, <1>1, CallerGoesOn DEF Bind
<1>10. /\ touched' \in [Sessions -> Nat]
       /\ \A u \in Sessions : touched'[u] = IF u = s0 THEN now ELSE touched[u]
       /\ \A u \in Sessions : touched[u] <= touched'[u]
       /\ Past'
  BY <1>1, UsedNow
<1>11. TypeOK'
  BY <1>1, <1>6, <1>8, <1>9, <1>10 DEF IInv, TypeOK
<1>12. Bounded'
  BY <1>6, BindKeepsBound
<1>13. Stamped'
  <2> SUFFICES ASSUME NEW s \in Sessions, entries'[s] # NoEntry
               PROVE  /\ entries'[s].account = settled'[s]
                      /\ entries'[s].expiresAt = entries'[s].lastUsed + TTL
                      /\ entries'[s].lastUsed <= touched'[s]
                      /\ touched'[s] <= entries'[s].lastUsed + MaxLag
    BY DEF Stamped, Present
  <2>1. CASE s = s0
    BY <2>1, <1>2, <1>7, <1>8, <1>10 DEF EntryOf
  <2>2. CASE s # s0
    BY <2>2, <1>7, <1>8, <1>10 DEF IInv, Stamped, Present
  <2> QED
    BY <2>1, <2>2
<1>14. \A s \in Sessions : KeptFor(s)'
  <2> TAKE s \in Sessions
  <2>1. CASE s \in Present(entries)'
    BY <2>1, <1>13 DEF Stamped, KeptFor
  <2>2. CASE s \notin Present(entries)' /\ entries'[s] = entries[s]
    <3>1. s # s0
      BY <2>2, <1>4, <1>7 DEF Present
    <3>2. \A u \in Sessions : settled[u] # NoAccount => settled'[u] # NoAccount
      BY <1>8
    <3> QED
      BY <2>2, <3>1, <3>2, <1>1, <1>8, <1>10, UntouchedIsKept
  <2>3. CASE s \notin Present(entries)' /\ entries'[s] # entries[s]
    <3>1. s # s0
      BY <2>3, <1>4, <1>7 DEF Present
    <3>2. MustEvict(s0) /\ s \in Evicted(t)
      BY <2>3, <3>1, <1>6 DEF Binds, BindsFor
    <3>3. s \in Present(entries)
      BY <3>2 DEF Evicted, Expired
    <3>4. CASE Expired(t) # {}
      <4>1. ~Live(entries[s], calls[c].now)
        BY <3>2, <3>4 DEF Evicted, Expired
      <4>2. ~(now + MaxLag < touched[s] + TTL)
        BY <4>1, <3>3, <1>0, ExpiredIsUnused
      <4> QED
        BY <4>2, <3>1, <1>1, <1>10 DEF KeptFor
    <3>5. CASE Expired(t) = {}
      <4>1. \A v \in Present(entries) : entries[s].lastUsed <= entries[v].lastUsed
        BY <3>2, <3>5 DEF Evicted
      <4>2. s0 \notin Present(entries) /\ FullAt(MaxEntries)
        BY <3>2 DEF MustEvict, Present
      <4>3. ~(Cardinality(UsedSince(s)') < MaxEntries)
        BY <4>1, <4>2, <3>3, <1>8, <1>10, EvictedIsUnused
      <4> QED
        BY <4>3 DEF KeptFor
    <3> QED
      BY <3>4, <3>5
  <2> QED
    BY <2>1, <2>2, <2>3
<1>15. WorkingSetKept'
  BY <1>14 DEF WorkingSetKept, KeptFor
<1> QED
  BY <1>9, <1>10, <1>11, <1>12, <1>13, <1>15 DEF IInv

-----------------------------------------------------------------------------
\* No step breaks the invariant.
LEMMA Inductive == IInv /\ [Next]_vars => IInv'
<1> SUFFICES ASSUME IInv, [Next]_vars PROVE IInv'
  OBVIOUS
<1>1. CASE Tick
  BY <1>1, TickStep
<1>2. ASSUME NEW c \in Callers,
             \/ RouteAccount(c) \/ GetHit(c) \/ GetMiss(c)
             \/ Bind(c) \/ Failover(c) \/ Done(c)
      PROVE  IInv'
  BY <1>2, OwnStep, HitStep, MissStep, BindStep
<1>3. CASE UNCHANGED vars
  BY <1>3 DEF vars, IInv, TypeOK, Punctual, Carried, Past, Stamped, Bounded, Present,
              WorkingSetKept, UsedSince
<1> QED
  BY <1>1, <1>2, <1>3 DEF Next

\* A session in use stays with the account it was bound to: while its entry was used
\* within the TTL, and fewer sessions than the table has room for were used since, no
\* eviction, no expiry and no late caller takes it away (AffinityStore.Get, Bind,
\* evictOne).
THEOREM StaysWithItsAccount == Spec => []WorkingSetKept
<1>1. IInv => WorkingSetKept
  BY DEF IInv
<1> QED
  BY <1>1, InitHolds, Inductive, PTL DEF Spec

\* Every variable keeps its type (AffinityStore).
THEOREM TypeCorrect == Spec => []TypeOK
<1>1. IInv => TypeOK
  BY DEF IInv
<1> QED
  BY <1>1, InitHolds, Inductive, PTL DEF Spec

\* What is found has not expired by its caller's time, which the clock is close to.
LEMMA FoundInTime ==
  ASSUME IInv, NEW c \in Callers, GetHit(c)
  PROVE  now < touched[calls[c].session] + TTL + MaxLag
<1> PICK s \in Sessions : s = calls[c].session
  BY CallerFacts DEF GetHit, Carried
<1> PICK t \in Nat : t = calls[c].now
  BY CallerFacts DEF GetHit, Carried
<1>1. now \in Nat /\ now <= t + MaxLag
  BY CallerFacts DEF GetHit, Carried
<1>2. entries[s] # NoEntry /\ entries[s].expiresAt > t
  BY DEF GetHit, Live
<1>3. entries[s] \in Entry /\ s \in Present(entries)
  BY <1>2, EntryType DEF IInv, TypeOK, Present
<1>4. /\ entries[s].expiresAt = entries[s].lastUsed + TTL
      /\ entries[s].lastUsed <= touched[s]
  BY <1>3 DEF IInv, Stamped
<1>5. entries[s].lastUsed \in Nat /\ touched[s] \in Nat
  BY <1>3 DEF IInv, TypeOK, Entry
<1> QED
  BY <1>1, <1>2, <1>4, <1>5

\* A session that was left alone for its TTL is routed afresh: a lookup finds, and so
\* renews, nothing beyond what the lag of its callers accounts for (AffinityStore.Get).
THEOREM RoutedAfresh == Spec => ExpiryHonoured
<1>1. IInv => \A c \in Callers :
                GetHit(c) => now < touched[calls[c].session] + TTL + MaxLag
  BY FoundInTime
<1> QED
  BY <1>1, InitHolds, Inductive, PTL DEF Spec, ExpiryHonoured

-----------------------------------------------------------------------------
(* The abstract table.                                                     *)

Binding == [s \in Sessions |-> entries[s].account]

\* The abstract table counts as this one does.
LEMMA SameCardinality == \A S : Table!Cardinality(S) = Cardinality(S)
BY DEF Table!Cardinality, Cardinality

\* A miss forgets, a binding binds, and no other step can be seen.
LEMMA StepImplements ==
  ASSUME IInv, IInv', [Next]_vars
  PROVE  [Table!Next]_Binding
<1>0. /\ entries \in [Sessions -> Entry \cup {NoEntry}]
      /\ entries' \in [Sessions -> Entry \cup {NoEntry}]
  BY DEF IInv, TypeOK
<1>1. ASSUME UNCHANGED entries PROVE UNCHANGED Binding
  BY <1>1 DEF Binding
<1>2. ASSUME NEW c \in Callers, GetHit(c) PROVE UNCHANGED Binding
  <2>1. \A s \in Sessions : entries'[s].account = entries[s].account
    BY <1>0, <1>2 DEF GetHit, EntryOf
  <2> QED
    BY <2>1 DEF Binding
<1>3. ASSUME NEW c \in Callers, GetMiss(c) PROVE Table!Next
  <2> PICK s0 \in Sessions : s0 = calls[c].session
    BY <1>3, CallerFacts DEF GetMiss, Carried
  <2>1. \A s \in Sessions : entries'[s] = IF s = s0 THEN NoEntry ELSE entries[s]
    BY <1>0, <1>3 DEF GetMiss
  <2>2. \A s \in Sessions : entries'[s].account = IF s = s0 THEN NoAccount
                                                 ELSE entries[s].account
    BY <2>1 DEF NoEntry
  <2>3. Binding' = [Binding EXCEPT ![s0] = NoAccount]
    BY <2>2 DEF Binding
  <2> QED
    BY <2>3 DEF Table!Next, Table!Forget, Binding
<1>4. ASSUME NEW c \in Callers, Bind(c) PROVE Table!Next
  <2> PICK s0 \in Sessions : s0 = calls[c].session
    BY <1>4, CallerFacts DEF Bind, Carried
  <2> PICK t \in Nat : t = calls[c].now
    BY <1>4, CallerFacts DEF Bind, Carried
  <2>1. PICK a \in Accounts :
          \/ entries' = [entries EXCEPT ![s0] = EntryOf(a, t)]
          \/ /\ MustEvict(s0)
             /\ \E u \in Evicted(t) :
                  entries' = [entries EXCEPT ![u] = NoEntry, ![s0] = EntryOf(a, t)]
    BY <1>4 DEF Bind
  <2>2. Cardinality(Table!Bindings(Binding)') <= MaxEntries
    <3>1. \A s \in Sessions : entries'[s].account # NoAccount <=> entries'[s] # NoEntry
      BY <1>0, EntryType
    <3>2. Table!Bindings(Binding)' = Present(entries)'
      BY <3>1 DEF Binding, Table!Bindings, Present
    <3> QED
      BY <3>2 DEF IInv, Bounded
  <2>3. CASE entries' = [entries EXCEPT ![s0] = EntryOf(a, t)]
    <3>1. Binding' = [Binding EXCEPT ![s0] = a]
      BY <1>0, <2>3 DEF Binding, EntryOf
    <3> QED
      BY <2>2, <3>1, SameCardinality DEF Table!Next, Table!Bind, Binding
  <2>4. ASSUME MustEvict(s0), NEW u \in Evicted(t),
               entries' = [entries EXCEPT ![u] = NoEntry, ![s0] = EntryOf(a, t)]
        PROVE  Table!Next
    <3>1. u \in Sessions \ {s0}
      BY <2>4 DEF Evicted, Expired, Present, MustEvict
    <3>2. Binding' = [Binding EXCEPT ![s0] = a, ![u] = NoAccount]
      BY <1>0, <2>4, <3>1 DEF Binding, EntryOf, NoEntry
    <3> QED
      BY <2>2, <3>1, <3>2, SameCardinality DEF Table!Next, Table!Bind, Binding
  <2> QED
    BY <2>1, <2>3, <2>4
<1> QED
  BY <1>1, <1>2, <1>3, <1>4
  DEF Next, vars, Tick, RouteAccount, Failover, Done

\* The table implements SessionTable: it never holds more than MaxEntries sessions, a
\* binding takes the place of at most one other, and a session is only ever found
\* bound to the account it was bound to last (AffinityStore.Get, Bind, evictOne).
THEOREM ImplementsSessionTable == Spec => SessionTableSpec
<1>1. Init => Table!Init
  BY DEF Init, Table!Init, NoEntry
<1>2. IInv /\ IInv' /\ [Next]_vars => [Table!Next]_Binding
  BY StepImplements
<1> QED
  BY <1>1, <1>2, InitHolds, Inductive, PTL
  DEF Spec, SessionTableSpec, Table!Spec, Binding
=============================================================================
