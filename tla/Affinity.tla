------------------------------ MODULE Affinity ------------------------------
(***************************************************************************)
(* The session affinity table (AffinityStore): a bounded map from sessions *)
(* to upstream accounts whose entries expire when they are not used, and   *)
(* whose least recently used entry makes room for a new one.               *)
(*                                                                         *)
(* Get and Bind run under a mutex, but work with a time that routeAccount  *)
(* and RoundTrip read before they call them: entries may be stamped in     *)
(* another order than the calls take effect in.                            *)
(***************************************************************************)
EXTENDS Naturals, FiniteSets

CONSTANTS
  Sessions,      \* session keys, all in the affinity arm
  Accounts,      \* upstream account ids
  Callers,       \* requests being routed (handler goroutines, reused)
  TTL,           \* how long an unused entry lives, in ticks
  MaxEntries,    \* the size of the table
  MaxLag,        \* bound: ticks between reading the clock and the mutex
  MaxTime,       \* bound: the clock stops there
  NoAccount, NoSession

ASSUME AffinityAssumption ==
  /\ IsFiniteSet(Sessions)
  /\ NoAccount \notin Accounts /\ NoSession \notin Sessions
  /\ TTL \in Nat \ {0} /\ MaxEntries \in Nat \ {0}
  /\ MaxLag \in Nat /\ MaxTime \in Nat

VARIABLES
  now,       \* the clock
  entries,   \* the table
  calls,     \* where each request stands, with its session and its time.Now()
  touched,   \* history: when each session was last found or bound
  settled    \* history: the account each session was last bound to

vars == <<now, entries, calls, touched, settled>>

-----------------------------------------------------------------------------
NoEntry == [account |-> NoAccount, expiresAt |-> 0, lastUsed |-> 0]
EntryOf(a, t) == [account |-> a, expiresAt |-> t + TTL, lastUsed |-> t]

Present(table) == {s \in Sessions : table[s] # NoEntry}

LiveUnchecked(e, t) == e.expiresAt >= t
LiveAtDeadline(e, t) == e # NoEntry /\ e.expiresAt >= t
Live(e, t) == e # NoEntry /\ e.expiresAt > t

Expired(t) == {s \in Present(entries) : ~Live(entries[s], t)}

\* evictOne meets the entries in any order: an expired one goes, if there is one,
\* else one that was used least recently.
Evicted(t) ==
  IF Expired(t) # {} THEN Expired(t)
  ELSE {s \in Present(entries) :
          \A u \in Present(entries) : entries[s].lastUsed <= entries[u].lastUsed}

NoCall == [at |-> "idle", session |-> NoSession, now |-> 0]
Step(c, where) == calls' = [calls EXCEPT ![c].at = where]
Ends(c) == calls' = [calls EXCEPT ![c] = NoCall]

Touch(s) == touched' = [touched EXCEPT ![s] = now]

Init ==
  /\ now = 0
  /\ entries = [s \in Sessions |-> NoEntry]
  /\ calls = [c \in Callers |-> NoCall]
  /\ touched = [s \in Sessions |-> 0]
  /\ settled = [s \in Sessions |-> NoAccount]

Tick ==
  /\ now < MaxTime
  /\ \A c \in Callers : calls[c].at \in {"get", "bind", "rebind"} =>
                          now < calls[c].now + MaxLag
  /\ now' = now + 1
  /\ UNCHANGED <<entries, calls, touched, settled>>

-----------------------------------------------------------------------------
\* routeAccount reads the clock.
RouteAccount(c) ==
  /\ calls[c].at = "idle"
  /\ \E s \in Sessions :
       calls' = [calls EXCEPT ![c] = [at |-> "get", session |-> s, now |-> now]]
  /\ UNCHANGED <<now, entries, touched, settled>>

\* The entry is renewed when it is found, whether or not its account can be used:
\* when it cannot, the session is bound to another, with the same time.
GetHit(c) ==
  /\ calls[c].at = "get"
  /\ LET s == calls[c].session
         e == entries[s] IN
       /\ Live(e, calls[c].now)
       /\ entries' = [entries EXCEPT ![s] = EntryOf(e.account, calls[c].now)]
       /\ Touch(s)
  /\ Step(c, "routed") \/ Step(c, "bind") \/ Ends(c)
  /\ UNCHANGED <<now, settled>>

\* An expired entry is deleted when it is looked up.  A request that gets no
\* account binds nothing.
GetMiss(c) ==
  /\ calls[c].at = "get"
  /\ ~Live(entries[calls[c].session], calls[c].now)
  /\ entries' = [entries EXCEPT ![calls[c].session] = NoEntry]
  /\ Step(c, "bind") \/ Ends(c)
  /\ UNCHANGED <<now, touched, settled>>

\* A new session in a full table takes the place of another.
FullAt(n) == Cardinality(Present(entries)) >= n
OneTooMany(s) == entries[s] = NoEntry /\ FullAt(MaxEntries + 1)
AlwaysWhenFull(s) == FullAt(MaxEntries)
MustEvict(s) == entries[s] = NoEntry /\ FullAt(MaxEntries)

Bind(c) ==
  /\ calls[c].at \in {"bind", "rebind"}
  /\ LET s == calls[c].session
         t == calls[c].now IN
       \E a \in Accounts :
         /\ settled' = [settled EXCEPT ![s] = a]
         /\ \/ /\ ~MustEvict(s)
               /\ entries' = [entries EXCEPT ![s] = EntryOf(a, t)]
            \/ /\ MustEvict(s)
               /\ \E u \in Evicted(t) :
                    entries' = [entries EXCEPT ![u] = NoEntry, ![s] = EntryOf(a, t)]
         /\ Touch(s)
  /\ \/ calls[c].at = "bind" /\ Step(c, "routed")
     \/ calls[c].at = "rebind" /\ Ends(c)
  /\ UNCHANGED now

\* A failover to another account reads the clock again.
Failover(c) ==
  /\ calls[c].at = "routed"
  /\ calls' = [calls EXCEPT ![c].at = "rebind", ![c].now = now]
  /\ UNCHANGED <<now, entries, touched, settled>>

Done(c) ==
  /\ calls[c].at = "routed"
  /\ Ends(c)
  /\ UNCHANGED <<now, entries, touched, settled>>

Next ==
  \/ Tick
  \/ \E c \in Callers :
       RouteAccount(c) \/ GetHit(c) \/ GetMiss(c) \/ Bind(c) \/ Failover(c) \/ Done(c)

Spec == Init /\ [][Next]_vars

-----------------------------------------------------------------------------
(* Properties.                                                             *)

Entry == [account : Accounts, expiresAt : Nat, lastUsed : Nat]
Call == [at : {"idle", "get", "bind", "routed", "rebind"},
         session : Sessions \cup {NoSession}, now : Nat]

\* Every variable keeps its type.
TypeOK ==
  /\ now \in Nat
  /\ entries \in [Sessions -> Entry \cup {NoEntry}]
  /\ calls \in [Callers -> Call]
  /\ \A c \in Callers : calls[c].at # "idle" => calls[c].session \in Sessions
  /\ touched \in [Sessions -> Nat]
  /\ settled \in [Sessions -> Accounts \cup {NoAccount}]

\* A session that is used often enough stays with its account: as long as its entry
\* was used within the TTL, and fewer sessions than the table has room for were used
\* since, no eviction, no expiry and no late caller takes it away (Get, Bind,
\* evictOne; README on SESSION_AFFINITY_TTL and SESSION_AFFINITY_MAX_ENTRIES).
UsedSince(s) ==
  {u \in Sessions \ {s} :
     settled[u] # NoAccount /\ touched[u] + MaxLag >= touched[s]}
WorkingSetKept ==
  \A s \in Sessions :
    /\ settled[s] # NoAccount
    /\ now + MaxLag < touched[s] + TTL
    /\ Cardinality(UsedSince(s)) < MaxEntries
    => entries[s].account = settled[s]

\* A session that was left alone for its TTL is routed afresh: nothing is found, and
\* so renewed, beyond what the lag of its callers accounts for (Get).
ExpiryHonoured ==
  [][\A c \in Callers :
       GetHit(c) => now < touched[calls[c].session] + TTL + MaxLag]_vars

\* The table implements SessionTable: it never holds more than MaxEntries sessions,
\* a bound session makes at most one other lose its entry, and a session is never
\* found bound to an account it was not bound to last (Get, Bind, evictOne).
Table == INSTANCE SessionTable
           WITH Capacity <- MaxEntries,
                binding <- [s \in Sessions |-> entries[s].account]
SessionTableSpec == Table!Spec
=============================================================================
