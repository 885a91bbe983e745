------------------------ MODULE ConsoleSessionProofs ------------------------
(***************************************************************************)
(* Proofs about ConsoleSession, for any keys, any number of requests under *)
(* way and any number of reloads: types, OneSetupWins and                  *)
(* BrowserFollowsRotation.                                                 *)
(***************************************************************************)
EXTENDS ConsoleSession, FiniteSetTheorems, TLAPS

-----------------------------------------------------------------------------
(* The inductive invariant.                                                *)

\* TypeOK, but for the count of rotations.
Shapes ==
  /\ server \in [mem : AnyKey, row : AnyKey, setups : Nat]
  /\ tab \in [key : AnyKey, setup : {"unknown", "no", "yes"}, authorized : BOOLEAN,
              checking : BOOLEAN, loading : BOOLEAN]
  /\ calls \in [Slots -> Call \cup {Idle}]
  /\ loads \in 1..MaxLoads /\ settled \in BOOLEAN

\* The settings page awaits one rotation at most.
Awaited(c) == calls[c].op = "rotate" /\ calls[c].by = "page"
OnePage == \A c, d \in Slots : Awaited(c) /\ Awaited(d) => c = d

\* Nobody installs an empty key.
Installing ==
  \A c \in Slots : calls[c].op \in {"setup", "rotate"} => calls[c].arg # NoKey

\* The row is the credential, which no setup has installed while there is none.
Initialized ==
  /\ server.row = server.mem
  /\ server.setups <= 1
  /\ server.mem = NoKey => server.setups = 0

\* A console is not being checked.
OpenIsChecked == tab.authorized => ~tab.checking

\* Before the console is open one request is under way at a time, and the one that
\* opens the console has been accepted with the key that is stored.
Opening(call) ==
  /\ call.op \in {"status", "setup", "refresh"}
  /\ call.op = "refresh" =>
       /\ call.key = tab.key /\ ~call.opened
       /\ call.at = "yes" => tab.key = Credential
BeforeConsole ==
  settled /\ ~tab.authorized =>
    \A c \in Slots : Busy(c) =>
      /\ Opening(calls[c])
      /\ tab.checking \/ tab.loading
      /\ \A d \in Slots : Busy(d) => d = c

\* In the console one rotation is under way at most; the stored key is the credential
\* until the server has installed the new one, which is the credential from then on.
Working(call) ==
  /\ call.op \in {"refresh", "rotate", "apply", "act"}
  /\ call.op \in {"refresh", "act"} => call.opened
  /\ call.op = "rotate" => IF call.at = "yes" THEN call.arg = Credential
                                              ELSE tab.key = Credential
AtWork ==
  settled /\ tab.authorized =>
    /\ \A c \in Slots : Busy(c) => Working(calls[c])
    /\ \A c, d \in Rotating : c = d
    /\ Rotating = {} => tab.key = Credential

Agreed ==
  /\ Shapes /\ OnePage /\ Installing /\ Initialized /\ OpenIsChecked
  /\ BeforeConsole /\ AtWork

\* In a settled session somebody awaits every call.
Orphan(c) == Busy(c) /\ calls[c].by = "nobody"
Attended == settled => \A c \in Slots : ~Orphan(c)

IInv == Agreed /\ Attended

-----------------------------------------------------------------------------
(* Requests and slots.                                                     *)

\* A slot is idle, or holds a call.
LEMMA SlotShapes ==
  ASSUME Shapes, NEW c \in Slots
  PROVE  /\ Busy(c) => calls[c] \in Call /\ calls[c].op \in Ops
         /\ ~Busy(c) => calls[c] = Idle /\ calls[c].op = "idle"
         /\ calls[c].op # "idle" <=> Busy(c)
<1>1. calls[c] \in Call \cup {Idle}
  BY DEF Shapes
<1>2. \A x \in Call : x.op \in Ops /\ x # Idle
  BY DEF Call, Idle, Ops
<1>3. Idle.op = "idle" /\ "idle" \notin Ops
  BY DEF Idle, Ops
<1> QED
  BY <1>1, <1>2, <1>3 DEF Busy

\* What a request looks like when it is sent.
LEMMA RequestShapes ==
  ASSUME NEW op \in Ops, NEW key \in AnyKey, NEW arg \in AnyKey, NEW opened \in BOOLEAN
  PROVE  LET call == Request(op, key, arg, opened) IN
           /\ call \in Call /\ call # Idle
           /\ call.op = op /\ call.key = key /\ call.arg = arg /\ call.opened = opened
           /\ call.at = "sent" /\ call.by = "page"
BY DEF Request, Call, Ops, Idle

\* One slot changes, the others stay.
LEMMA Replacing ==
  ASSUME Shapes, NEW c \in Slots, NEW call \in Call \cup {Idle},
         calls' = [calls EXCEPT ![c] = call]
  PROVE  /\ calls' \in [Slots -> Call \cup {Idle}]
         /\ calls'[c] = call
         /\ \A d \in Slots \ {c} : calls'[d] = calls[d]
BY DEF Shapes

\* A request moves on.
LEMMA Moving ==
  ASSUME Shapes, NEW c \in Slots, Busy(c), NEW where \in {"sent", "passed", "yes", "no"},
         calls' = [calls EXCEPT ![c].at = where]
  PROVE  /\ calls' \in [Slots -> Call \cup {Idle}]
         /\ calls'[c] \in Call /\ calls'[c] # Idle
         /\ calls'[c].at = where /\ calls'[c].op = calls[c].op
         /\ calls'[c].key = calls[c].key /\ calls'[c].arg = calls[c].arg
         /\ calls'[c].opened = calls[c].opened /\ calls'[c].by = calls[c].by
         /\ \A d \in Slots \ {c} : calls'[d] = calls[d]
<1> DEFINE moved == [calls[c] EXCEPT !.at = where]
<1>1. calls[c] \in Call
  BY SlotShapes
<1>2. /\ moved \in Call /\ moved # Idle
      /\ moved.at = where /\ moved.op = calls[c].op
      /\ moved.key = calls[c].key /\ moved.arg = calls[c].arg
      /\ moved.opened = calls[c].opened /\ moved.by = calls[c].by
  BY <1>1 DEF Call, Idle, Ops
<1>3. calls' = [calls EXCEPT ![c] = moved]
  OBVIOUS
<1> HIDE DEF moved
<1>4. /\ calls' \in [Slots -> Call \cup {Idle}]
      /\ calls'[c] = moved
      /\ \A d \in Slots \ {c} : calls'[d] = calls[d]
  BY <1>2, <1>3, Replacing
<1> QED
  BY <1>2, <1>4

\* Leaving the settings page, or the console.
LEMMA Unmounting ==
  ASSUME Shapes, calls' = Unmount
  PROVE  /\ calls' \in [Slots -> Call \cup {Idle}]
         /\ \A d \in Slots :
              /\ Busy(d)' <=> Busy(d)
              /\ calls'[d].op = calls[d].op
              /\ ~Awaited(d)'
              /\ Busy(d) => /\ calls'[d].key = calls[d].key
                            /\ calls'[d].arg = calls[d].arg
                            /\ calls'[d].at = calls[d].at
                            /\ calls'[d].opened = calls[d].opened
<1>1. ASSUME NEW d \in Slots, Busy(d), NEW x, x = [calls[d] EXCEPT !.by = "tab"]
      PROVE  /\ x \in Call /\ x # Idle /\ x.op = calls[d].op /\ x.by = "tab"
             /\ x.key = calls[d].key /\ x.arg = calls[d].arg
             /\ x.at = calls[d].at /\ x.opened = calls[d].opened
  BY <1>1, SlotShapes DEF Call, Idle, Ops
<1>2. ASSUME NEW d \in Slots
      PROVE  calls'[d] = IF Busy(d) /\ Awaited(d)
                         THEN [calls[d] EXCEPT !.by = "tab"] ELSE calls[d]
  BY DEF Unmount, Rotating, Awaited
<1>3. ASSUME NEW d \in Slots
      PROVE  /\ calls'[d] \in Call \cup {Idle}
             /\ Busy(d)' <=> Busy(d)
             /\ calls'[d].op = calls[d].op
             /\ ~Awaited(d)'
             /\ Busy(d) => /\ calls'[d].key = calls[d].key /\ calls'[d].arg = calls[d].arg
                           /\ calls'[d].at = calls[d].at
                           /\ calls'[d].opened = calls[d].opened
  <2>1. CASE Busy(d) /\ Awaited(d)
    BY <1>1, <1>2, <2>1 DEF Busy, Awaited
  <2>2. CASE ~(Busy(d) /\ Awaited(d))
    <3>1. calls'[d] = calls[d]
      BY <1>2, <2>2
    <3>2. ~Awaited(d)
      BY <2>2, SlotShapes DEF Awaited
    <3> QED
      BY <3>1, <3>2, SlotShapes DEF Busy, Awaited
  <2> QED
    BY <2>1, <2>2
<1>4. calls' \in [Slots -> Call \cup {Idle}]
  <2>1. calls' = [c \in Slots |-> calls'[c]]
    BY DEF Unmount
  <2> QED
    BY <1>3, <2>1
<1> QED
  BY <1>3, <1>4

\* A restart ends the rotations that were past their authentication.
LEMMA Restarting ==
  ASSUME Shapes, Initialized, Restart
  PROVE  /\ server' = server
         /\ calls' \in [Slots -> Call \cup {Idle}]
         /\ \A d \in Slots :
              /\ Busy(d)' <=> Busy(d)
              /\ calls'[d].op = calls[d].op
              /\ Busy(d) => /\ calls'[d].key = calls[d].key
                            /\ calls'[d].arg = calls[d].arg
                            /\ calls'[d].by = calls[d].by
                            /\ calls'[d].opened = calls[d].opened
                            /\ (calls'[d].at = "yes") = (calls[d].at = "yes")
<1>1. server' = server
  BY DEF Restart, Initialized, Shapes
<1>2. ASSUME NEW d \in Slots, Busy(d), NEW x, x = [calls[d] EXCEPT !.at = "no"]
      PROVE  /\ x \in Call /\ x # Idle /\ x.op = calls[d].op /\ x.by = calls[d].by
             /\ x.key = calls[d].key /\ x.arg = calls[d].arg
             /\ x.at = "no" /\ x.opened = calls[d].opened
  BY <1>2, SlotShapes DEF Call, Idle, Ops
<1>3. ASSUME NEW d \in Slots
      PROVE  calls'[d] = IF Busy(d) /\ calls[d].at = "passed"
                         THEN [calls[d] EXCEPT !.at = "no"] ELSE calls[d]
  BY DEF Restart
<1>4. ASSUME NEW d \in Slots
      PROVE  /\ calls'[d] \in Call \cup {Idle}
             /\ Busy(d)' <=> Busy(d)
             /\ calls'[d].op = calls[d].op
             /\ Busy(d) => /\ calls'[d].key = calls[d].key /\ calls'[d].arg = calls[d].arg
                           /\ calls'[d].by = calls[d].by
                           /\ calls'[d].opened = calls[d].opened
                           /\ (calls'[d].at = "yes") = (calls[d].at = "yes")
  <2>1. CASE Busy(d) /\ calls[d].at = "passed"
    <3>1. calls'[d] = [calls[d] EXCEPT !.at = "no"]
      BY <1>3, <2>1
    <3>2. /\ calls'[d] \in Call /\ calls'[d] # Idle
          /\ calls'[d].op = calls[d].op /\ calls'[d].by = calls[d].by
          /\ calls'[d].key = calls[d].key /\ calls'[d].arg = calls[d].arg
          /\ calls'[d].at = "no" /\ calls'[d].opened = calls[d].opened
      BY <1>2, <2>1, <3>1
    <3>3. calls'[d].at # "yes" /\ calls[d].at # "yes"
      BY <2>1, <3>2
    <3> QED
      BY <2>1, <3>2, <3>3 DEF Busy
  <2>2. CASE ~(Busy(d) /\ calls[d].at = "passed")
    <3>1. calls'[d] = calls[d]
      BY <1>3, <2>2
    <3>2. calls[d] \in Call \cup {Idle}
      BY DEF Shapes
    <3> QED
      BY <3>1, <3>2 DEF Busy
  <2> QED
    BY <2>1, <2>2
<1>5. calls' \in [Slots -> Call \cup {Idle}]
  <2>1. calls' = [c \in Slots |-> calls'[c]]
    BY DEF Restart
  <2> QED
    BY <1>4, <2>1
<1> QED
  BY <1>1, <1>4, <1>5

\* A reload: one request for the status, and writes that nobody awaits.
LEMMA Reloading ==
  ASSUME Shapes, Load
  PROVE  /\ calls' \in [Slots -> Call \cup {Idle}]
         /\ \E c \in Slots :
              /\ calls'[c] = Request("status", NoKey, NoKey, FALSE)
              /\ \A d \in Slots \ {c} :
                   \/ calls'[d] = Idle
                   \/ /\ ~settled'
                      /\ Busy(d) /\ calls'[d] \in Call /\ calls'[d].by = "nobody"
                      /\ calls'[d].op = calls[d].op /\ calls'[d].arg = calls[d].arg
         /\ settled' \in BOOLEAN
<1> DEFINE kept == [c \in Slots |-> IF Outlives(calls[c])
                                    THEN [calls[c] EXCEPT !.by = "nobody"] ELSE Idle]
<1>1. PICK c \in Slots :
        /\ calls' = [kept EXCEPT ![c] = Request("status", NoKey, NoKey, FALSE)]
        /\ settled' = \A d \in Slots : kept[d] = Idle
  BY DEF Load
<1>2. ASSUME NEW d \in Slots, Outlives(calls[d]), NEW x,
             x = [calls[d] EXCEPT !.by = "nobody"]
      PROVE  /\ x \in Call /\ x # Idle /\ x.by = "nobody"
             /\ x.op = calls[d].op /\ x.arg = calls[d].arg /\ Busy(d)
  <2>1. Busy(d)
    BY <1>2 DEF Outlives, Busy
  <2> QED
    BY <1>2, <2>1, SlotShapes DEF Call, Idle, Ops
<1>3. ASSUME NEW d \in Slots
      PROVE  \/ kept[d] = Idle
             \/ /\ kept[d] \in Call /\ kept[d] # Idle /\ kept[d].by = "nobody"
                /\ kept[d].op = calls[d].op /\ kept[d].arg = calls[d].arg /\ Busy(d)
  BY <1>2
<1>4. kept \in [Slots -> Call \cup {Idle}]
  BY <1>3
<1>5. DOMAIN kept = Slots
  OBVIOUS
<1>6. Request("status", NoKey, NoKey, FALSE) \in Call
  BY RequestShapes DEF Ops, AnyKey
<1> HIDE DEF kept
<1>7. /\ calls' \in [Slots -> Call \cup {Idle}]
      /\ calls'[c] = Request("status", NoKey, NoKey, FALSE)
      /\ \A d \in Slots \ {c} : calls'[d] = kept[d]
  BY <1>1, <1>4, <1>5, <1>6
<1> QED
  BY <1>1, <1>3, <1>7

-----------------------------------------------------------------------------
(* What the steps leave alone.                                             *)

\* No step makes the settings page await a second rotation, unless it sends one.
LEMMA Awaiting ==
  ASSUME OnePage, \A d \in Slots : Awaited(d)' => Awaited(d)
  PROVE  OnePage'
BY DEF OnePage

\* A request other than a rotation takes a slot, its own or a free one.
LEMMA Arriving ==
  ASSUME Agreed, NEW c \in Slots, NEW call \in Call, call # Idle, call.op # "rotate",
         call.op # "setup" \/ call.arg # NoKey, calls' = [calls EXCEPT ![c] = call]
  PROVE  /\ calls' \in [Slots -> Call \cup {Idle}] /\ OnePage' /\ Installing'
         /\ Busy(c)' /\ calls'[c] = call
         /\ \A d \in Slots \ {c} : calls'[d] = calls[d]
         /\ Rotating' = Rotating \ {c}
<1>1. /\ calls' \in [Slots -> Call \cup {Idle}]
      /\ calls'[c] = call
      /\ \A d \in Slots \ {c} : calls'[d] = calls[d]
  BY Replacing DEF Agreed
<1>2. \A d \in Slots : Awaited(d)' => Awaited(d)
  BY <1>1 DEF Awaited
<1>3. OnePage'
  BY <1>2, Awaiting DEF Agreed
<1>4. Installing'
  BY <1>1 DEF Agreed, Installing
<1>5. Rotating' = Rotating \ {c}
  BY <1>1 DEF Rotating, Busy
<1> QED
  BY <1>1, <1>3, <1>4, <1>5 DEF Busy

\* A request ends.
LEMMA Ending ==
  ASSUME Agreed, NEW c \in Slots, Done(c)
  PROVE  /\ calls' \in [Slots -> Call \cup {Idle}] /\ OnePage' /\ Installing'
         /\ ~Busy(c)'
         /\ \A d \in Slots \ {c} : calls'[d] = calls[d]
         /\ Rotating' = Rotating \ {c}
<1>1. /\ calls' \in [Slots -> Call \cup {Idle}]
      /\ calls'[c] = Idle
      /\ \A d \in Slots \ {c} : calls'[d] = calls[d]
  BY Replacing DEF Agreed, Done
<1>2. calls'[c].op = "idle"
  BY <1>1 DEF Idle
<1>3. \A d \in Slots : Awaited(d)' => Awaited(d)
  BY <1>1, <1>2 DEF Awaited
<1>4. OnePage'
  BY <1>3, Awaiting DEF Agreed
<1>5. Installing'
  BY <1>1, <1>2 DEF Agreed, Installing
<1>6. Rotating' = Rotating \ {c}
  BY <1>1 DEF Rotating, Busy
<1> QED
  BY <1>1, <1>4, <1>5, <1>6 DEF Busy

\* A request is worked on by the server.
LEMMA Advancing ==
  ASSUME Agreed, NEW c \in Slots, Busy(c), NEW where \in {"sent", "passed", "yes", "no"},
         At(c, where)
  PROVE  /\ calls' \in [Slots -> Call \cup {Idle}] /\ OnePage' /\ Installing'
         /\ Busy(c)' /\ calls'[c].at = where /\ calls'[c].op = calls[c].op
         /\ calls'[c].key = calls[c].key /\ calls'[c].arg = calls[c].arg
         /\ calls'[c].opened = calls[c].opened
         /\ \A d \in Slots \ {c} : calls'[d] = calls[d]
         /\ Rotating' = Rotating
<1>1. /\ calls' \in [Slots -> Call \cup {Idle}]
      /\ calls'[c] # Idle
      /\ calls'[c].at = where /\ calls'[c].op = calls[c].op
      /\ calls'[c].key = calls[c].key /\ calls'[c].arg = calls[c].arg
      /\ calls'[c].opened = calls[c].opened /\ calls'[c].by = calls[c].by
      /\ \A d \in Slots \ {c} : calls'[d] = calls[d]
  BY Moving DEF Agreed, At
<1>2. \A d \in Slots : Awaited(d)' => Awaited(d)
  BY <1>1 DEF Awaited
<1>3. OnePage'
  BY <1>2, Awaiting DEF Agreed
<1>4. Installing'
  BY <1>1 DEF Agreed, Installing
<1>5. Rotating' = Rotating
  BY <1>1 DEF Rotating, Busy
<1> QED
  BY <1>1, <1>3, <1>4, <1>5 DEF Busy

\* What a call holds.
LEMMA CallFields ==
  ASSUME Shapes, NEW c \in Slots, Busy(c)
  PROVE  /\ calls[c].op \in Ops /\ calls[c].key \in AnyKey /\ calls[c].arg \in AnyKey
         /\ calls[c].opened \in BOOLEAN
         /\ calls[c].at \in {"sent", "passed", "yes", "no"}
<1>1. calls[c] \in Call
  BY SlotShapes
<1> QED
  BY <1>1 DEF Call

-----------------------------------------------------------------------------
(* The operator's steps.                                                   *)

\* The page is loaded again.
LEMMA LoadKeeps ==
  ASSUME SessionAssumption, Agreed, Load
  PROVE  Agreed'
<1>1. PICK c \in Slots :
        /\ calls'[c] = Request("status", NoKey, NoKey, FALSE)
        /\ \A d \in Slots \ {c} :
             \/ calls'[d] = Idle
             \/ /\ ~settled'
                /\ Busy(d) /\ calls'[d] \in Call /\ calls'[d].by = "nobody"
                /\ calls'[d].op = calls[d].op /\ calls'[d].arg = calls[d].arg
  BY Reloading DEF Agreed
<1>2. calls' \in [Slots -> Call \cup {Idle}] /\ settled' \in BOOLEAN
  BY Reloading DEF Agreed
<1>3. calls'[c].op = "status" /\ calls'[c] # Idle
  BY <1>1 DEF Request, Idle
<1>4. /\ tab' = FreshPage(tab.key) /\ server' = server
      /\ loads < MaxLoads /\ loads' = loads + 1
  BY DEF Load
<1>5. /\ tab' \in [key : AnyKey, setup : {"unknown", "no", "yes"}, authorized : BOOLEAN,
                   checking : BOOLEAN, loading : BOOLEAN]
      /\ tab'.checking /\ ~tab'.authorized
  BY <1>4 DEF FreshPage, Agreed, Shapes
<1>6. loads' \in 1..MaxLoads
  BY <1>4, SessionAssumption DEF Agreed, Shapes, SessionAssumption
<1>7. Shapes'
  BY <1>2, <1>4, <1>5, <1>6 DEF Agreed, Shapes
<1>8. Idle.op = "idle"
  BY DEF Idle
<1>9. OnePage'
  <2>1. \A d \in Slots : ~Awaited(d)'
    BY <1>1, <1>3, <1>8 DEF Awaited
  <2> QED
    BY <2>1 DEF OnePage
<1>10. Installing'
  BY <1>1, <1>3, <1>8 DEF Agreed, Installing
<1>11. Initialized' /\ OpenIsChecked'
  BY <1>4, <1>5 DEF Agreed, Initialized, OpenIsChecked
<1>12. BeforeConsole'
  <2>1. ASSUME settled', NEW d \in Slots, Busy(d)' PROVE d = c
    BY <1>1, <2>1 DEF Busy
  <2>2. Opening(calls[c])'
    BY <1>3 DEF Opening
  <2> QED
    BY <1>5, <2>1, <2>2 DEF BeforeConsole
<1>13. AtWork'
  BY <1>5 DEF AtWork
<1> QED
  BY <1>7, <1>9, <1>10, <1>11, <1>12, <1>13 DEF Agreed

\* The login form is submitted: nothing else is under way, in a settled session.
LEMMA SubmitKeeps ==
  ASSUME Agreed, Submit
  PROVE  Agreed'
<1>1. ~tab.checking /\ ~tab.authorized /\ ~tab.loading
  BY DEF Submit, AtLogin
<1>2. server' = server /\ loads' = loads /\ settled' = settled
  BY DEF Submit
<1>3. settled => \A d \in Slots : ~Busy(d)
  BY <1>1 DEF Agreed, BeforeConsole
<1>4. PICK k \in AnyKey \ {NoKey} :
        \/ /\ tab' = [tab EXCEPT !.loading = TRUE, !.key = k]
           /\ Send(Request("refresh", k, NoKey, FALSE))
        \/ /\ tab' = [tab EXCEPT !.loading = TRUE]
           /\ Send(Request("setup", tab.key, k, FALSE))
  BY DEF Submit
<1>5. /\ tab' \in [key : AnyKey, setup : {"unknown", "no", "yes"}, authorized : BOOLEAN,
                   checking : BOOLEAN, loading : BOOLEAN]
      /\ tab'.loading /\ ~tab'.authorized
  BY <1>1, <1>4 DEF Agreed, Shapes
<1>6. PICK call \in Call :
        /\ call # Idle /\ call.op \in {"refresh", "setup"} /\ ~call.opened
        /\ call.op # "setup" \/ call.arg # NoKey
        /\ call.op = "refresh" => call.key = tab'.key
        /\ call.at = "sent"
        /\ Send(call)
  <2>1. NoKey \in AnyKey /\ tab.key \in AnyKey /\ k \in AnyKey /\ k # NoKey
    BY DEF AnyKey, Agreed, Shapes
  <2>2. CASE tab' = [tab EXCEPT !.loading = TRUE, !.key = k]
             /\ Send(Request("refresh", k, NoKey, FALSE))
    <3>1. tab'.key = k
      BY <2>2 DEF Agreed, Shapes
    <3>2. /\ Request("refresh", k, NoKey, FALSE) \in Call
          /\ Request("refresh", k, NoKey, FALSE) # Idle
      BY <2>1 DEF Request, Call, Ops, Idle
    <3>3. /\ Request("refresh", k, NoKey, FALSE).op = "refresh"
          /\ Request("refresh", k, NoKey, FALSE).key = k
          /\ ~Request("refresh", k, NoKey, FALSE).opened
          /\ Request("refresh", k, NoKey, FALSE).at = "sent"
      BY DEF Request
    <3> QED
      BY <2>2, <3>1, <3>2, <3>3
  <2>3. CASE tab' = [tab EXCEPT !.loading = TRUE]
             /\ Send(Request("setup", tab.key, k, FALSE))
    <3>1. /\ Request("setup", tab.key, k, FALSE) \in Call
          /\ Request("setup", tab.key, k, FALSE) # Idle
      BY <2>1 DEF Request, Call, Ops, Idle
    <3>2. /\ Request("setup", tab.key, k, FALSE).op = "setup"
          /\ Request("setup", tab.key, k, FALSE).arg = k
          /\ ~Request("setup", tab.key, k, FALSE).opened
          /\ Request("setup", tab.key, k, FALSE).at = "sent"
      BY DEF Request
    <3> QED
      BY <2>1, <2>3, <3>1, <3>2
  <2> QED
    BY <1>4, <2>2, <2>3
<1>7. PICK c \in Slots : calls' = [calls EXCEPT ![c] = call]
  BY <1>6 DEF Send
<1>8. /\ calls' \in [Slots -> Call \cup {Idle}] /\ OnePage' /\ Installing'
      /\ Busy(c)' /\ calls'[c] = call
      /\ \A d \in Slots \ {c} : calls'[d] = calls[d]
  <2>1. call # Idle /\ call.op # "rotate" /\ (call.op # "setup" \/ call.arg # NoKey)
    BY <1>6
  <2> QED
    BY <1>7, <2>1, Arriving
<1>9. Shapes' /\ Initialized' /\ OpenIsChecked' /\ AtWork'
  BY <1>2, <1>5, <1>8 DEF Agreed, Shapes, Initialized, OpenIsChecked, AtWork
<1>10. BeforeConsole'
  <2>1. ASSUME settled', NEW d \in Slots, Busy(d)' PROVE d = c
    BY <1>2, <1>3, <1>8, <2>1 DEF Busy
  <2>2. Opening(calls[c])'
    BY <1>6, <1>8 DEF Opening
  <2> QED
    BY <1>5, <2>1, <2>2 DEF BeforeConsole
<1> QED
  BY <1>8, <1>9, <1>10 DEF Agreed

\* What the console does, but for a rotation: a request with the stored key.
LEMMA ConsoleKeeps ==
  ASSUME Agreed, tab.authorized, NEW c \in Slots, NEW op \in {"refresh", "apply", "act"},
         calls' = [calls EXCEPT ![c] = Request(op, tab.key, NoKey, TRUE)],
         ~Busy(c) \/ calls[c].op # "rotate",
         tab' \in {tab, [tab EXCEPT !.loading = TRUE]},
         server' = server, loads' = loads, settled' = settled
  PROVE  Agreed'
<1> DEFINE call == Request(op, tab.key, NoKey, TRUE)
<1>1. tab.key \in AnyKey /\ NoKey \in AnyKey
  BY DEF Agreed, Shapes, AnyKey
<1>2. /\ call \in Call /\ call # Idle
      /\ call.op \in {"refresh", "apply", "act"} /\ call.opened = TRUE
  BY <1>1 DEF Request, Call, Ops, Idle
<1>3. calls' = [calls EXCEPT ![c] = call]
  OBVIOUS
<1> HIDE DEF call
<1>4. /\ calls' \in [Slots -> Call \cup {Idle}] /\ OnePage' /\ Installing'
      /\ Busy(c)' /\ calls'[c] = call
      /\ \A d \in Slots \ {c} : calls'[d] = calls[d]
      /\ Rotating' = Rotating \ {c}
  BY <1>2, <1>3, Arriving
<1>5. c \notin Rotating
  BY DEF Rotating
<1>6. Rotating' = Rotating
  BY <1>4, <1>5
<1>7. /\ tab' \in [key : AnyKey, setup : {"unknown", "no", "yes"}, authorized : BOOLEAN,
                   checking : BOOLEAN, loading : BOOLEAN]
      /\ tab'.key = tab.key /\ tab'.authorized /\ tab'.checking = tab.checking
  BY DEF Agreed, Shapes
<1>8. Shapes' /\ Initialized' /\ OpenIsChecked' /\ BeforeConsole'
  BY <1>4, <1>7 DEF Agreed, Shapes, Initialized, OpenIsChecked, BeforeConsole
<1>9. AtWork'
  <2>1. ASSUME settled PROVE Working(calls[c])'
    BY <1>2, <1>4 DEF Working
  <2>2. ASSUME settled, NEW d \in Slots \ {c}, Busy(d)' PROVE Working(calls[d])'
    <3>1. calls'[d] = calls[d] /\ Busy(d)
      BY <1>4, <2>2 DEF Busy
    <3>2. Working(calls[d])
      BY <2>2, <3>1 DEF Agreed, AtWork
    <3> QED
      BY <1>7, <3>1, <3>2 DEF Working, Credential
  <2> QED
    BY <1>6, <1>7, <2>1, <2>2 DEF Agreed, AtWork, Credential
<1> QED
  BY <1>4, <1>8, <1>9 DEF Agreed

\* A rotation is sent: the page awaits no other, and none is under way in a session
\* that stays settled.
LEMMA RotateKeyKeeps ==
  ASSUME Agreed, RotateKey
  PROVE  Agreed'
<1>1. /\ tab.authorized /\ tab' = tab /\ server' = server /\ loads' = loads
      /\ settled' = (settled /\ Rotating = {})
  BY DEF RotateKey, InConsole
<1>2. \A d \in Slots : ~Awaited(d)
  <2>1. \A d \in Slots : calls[d].op = "rotate" => d \in Rotating
    BY SlotShapes DEF Agreed, Rotating
  <2> QED
    BY <2>1 DEF RotateKey, FormAtRest, Awaited
<1>3. PICK k \in AnyKey \ {NoKey} : Send(Request("rotate", tab.key, k, TRUE))
  BY DEF RotateKey
<1> DEFINE call == Request("rotate", tab.key, k, TRUE)
<1>4. tab.key \in AnyKey
  BY DEF Agreed, Shapes
<1>5. /\ call \in Call /\ call # Idle
      /\ call.op = "rotate" /\ call.arg # NoKey /\ call.at = "sent"
  BY <1>4 DEF Request, Call, Ops, Idle
<1>6. PICK c \in Slots : calls' = [calls EXCEPT ![c] = call]
  BY <1>3 DEF Send
<1> HIDE DEF call
<1>7. /\ calls' \in [Slots -> Call \cup {Idle}]
      /\ calls'[c] = call
      /\ \A d \in Slots \ {c} : calls'[d] = calls[d]
  BY <1>5, <1>6, Replacing DEF Agreed
<1>8. Shapes' /\ Initialized' /\ OpenIsChecked' /\ BeforeConsole'
  BY <1>1, <1>7 DEF Agreed, Shapes, Initialized, OpenIsChecked, BeforeConsole
<1>9. OnePage'
  <2>1. \A d \in Slots \ {c} : ~Awaited(d)'
    BY <1>2, <1>7 DEF Awaited
  <2> QED
    BY <2>1 DEF OnePage
<1>10. Installing'
  BY <1>5, <1>7 DEF Agreed, Installing
<1>11. AtWork'
  <2> SUFFICES ASSUME settled'
               PROVE  /\ \A d \in Slots : Busy(d)' => Working(calls[d])'
                      /\ Rotating' = {c}
    BY DEF AtWork
  <2>1. Rotating = {} /\ settled
    BY <1>1
  <2>2. tab.key = Credential
    BY <1>1, <2>1 DEF Agreed, AtWork
  <2>3. Working(calls[c])'
    BY <1>1, <1>5, <1>7, <2>2 DEF Working, Credential
  <2>4. ASSUME NEW d \in Slots \ {c}, Busy(d)' PROVE Working(calls[d])'
    <3>1. calls'[d] = calls[d] /\ Busy(d)
      BY <1>7, <2>4 DEF Busy
    <3>2. Working(calls[d])
      BY <1>1, <2>1, <3>1 DEF Agreed, AtWork
    <3> QED
      BY <1>1, <3>1, <3>2 DEF Working, Credential
  <2>5. Rotating' = {c}
    BY <1>5, <1>7, <2>1 DEF Rotating, Busy
  <2> QED
    BY <2>3, <2>4, <2>5
<1> QED
  BY <1>8, <1>9, <1>10, <1>11 DEF Agreed

\* The operator leaves the settings page.
LEMMA LeaveSettingsKeeps ==
  ASSUME Agreed, LeaveSettings
  PROVE  Agreed'
<1>1. /\ calls' = Unmount /\ tab.authorized
      /\ tab' = tab /\ server' = server /\ loads' = loads /\ settled' = settled
  BY DEF LeaveSettings, InConsole
<1>2. /\ calls' \in [Slots -> Call \cup {Idle}]
      /\ \A d \in Slots :
           /\ Busy(d)' <=> Busy(d)
           /\ calls'[d].op = calls[d].op
           /\ ~Awaited(d)'
           /\ Busy(d) => /\ calls'[d].key = calls[d].key /\ calls'[d].arg = calls[d].arg
                         /\ calls'[d].at = calls[d].at
                         /\ calls'[d].opened = calls[d].opened
  BY <1>1, Unmounting DEF Agreed
<1>3. Shapes' /\ Initialized' /\ OpenIsChecked' /\ BeforeConsole'
  BY <1>1, <1>2 DEF Agreed, Shapes, Initialized, OpenIsChecked, BeforeConsole
<1>4. OnePage'
  BY <1>2 DEF OnePage
<1>5. Installing'
  <2>1. \A d \in Slots : calls[d].op \in {"setup", "rotate"} => Busy(d)
    BY SlotShapes DEF Agreed
  <2> QED
    BY <1>2, <2>1 DEF Agreed, Installing
<1>6. AtWork'
  <2>1. Rotating' = Rotating
    BY <1>2 DEF Rotating
  <2>2. ASSUME settled, NEW d \in Slots, Busy(d) PROVE Working(calls[d])'
    <3>1. Working(calls[d])
      BY <1>1, <2>2 DEF Agreed, AtWork
    <3> QED
      BY <1>1, <1>2, <2>2, <3>1 DEF Working, Credential
  <2> QED
    BY <1>1, <1>2, <2>1, <2>2 DEF Agreed, AtWork, Credential
<1> QED
  BY <1>3, <1>4, <1>5, <1>6 DEF Agreed

\* The operator logs out: a call under way unsettles the session.
LEMMA LogoutKeeps ==
  ASSUME Agreed, Logout
  PROVE  Agreed'
<1>1. /\ calls' = Unmount /\ tab' = [tab EXCEPT !.key = NoKey, !.authorized = FALSE]
      /\ server' = server /\ loads' = loads
      /\ settled' = (settled /\ \A d \in Slots : ~Busy(d))
  BY DEF Logout
<1>2. /\ calls' \in [Slots -> Call \cup {Idle}]
      /\ \A d \in Slots :
           /\ Busy(d)' <=> Busy(d)
           /\ calls'[d].op = calls[d].op
           /\ ~Awaited(d)'
           /\ Busy(d) => calls'[d].arg = calls[d].arg
  BY <1>1, Unmounting DEF Agreed
<1>3. NoKey \in AnyKey
  BY DEF AnyKey
<1>4. /\ tab' \in [key : AnyKey, setup : {"unknown", "no", "yes"}, authorized : BOOLEAN,
                   checking : BOOLEAN, loading : BOOLEAN]
      /\ ~tab'.authorized
  BY <1>1, <1>3 DEF Agreed, Shapes
<1>5. Shapes'
  <2>1. settled' \in BOOLEAN
    BY <1>1
  <2> QED
    BY <1>1, <1>2, <1>4, <2>1 DEF Agreed, Shapes
<1>6. Initialized' /\ OpenIsChecked' /\ AtWork'
  BY <1>1, <1>4 DEF Agreed, Initialized, OpenIsChecked, AtWork
<1>7. OnePage'
  BY <1>2 DEF OnePage
<1>8. Installing'
  <2>1. \A d \in Slots : calls[d].op \in {"setup", "rotate"} => Busy(d)
    BY SlotShapes DEF Agreed
  <2> QED
    BY <1>2, <2>1 DEF Agreed, Installing
<1>9. BeforeConsole'
  BY <1>1, <1>2 DEF BeforeConsole
<1> QED
  BY <1>5, <1>6, <1>7, <1>8, <1>9 DEF Agreed

-----------------------------------------------------------------------------
(* The server's steps.                                                     *)

\* Another operator's write unsettles the session.
LEMMA AnotherKeeps ==
  ASSUME SessionAssumption, Agreed, Another
  PROVE  Agreed'
<1>1. ~settled' /\ settled' \in BOOLEAN /\ tab' = tab /\ calls' = calls /\ loads' = loads
  BY DEF Another
<1>2. PICK k \in AdminKeys :
        server' = [server EXCEPT !.row = k, !.mem = k,
                     !.setups = IF server.mem = NoKey THEN @ + 1 ELSE @]
  BY DEF Another
<1>3. k \in AnyKey /\ k # NoKey
  BY SessionAssumption DEF SessionAssumption, AnyKey
<1>4. server.setups \in Nat /\ server.setups <= 1
      /\ (server.mem = NoKey => server.setups = 0)
  BY DEF Agreed, Shapes, Initialized
<1>5. server \in [mem : AnyKey, row : AnyKey, setups : Nat]
  BY DEF Agreed, Shapes
<1>6. PICK n \in Nat : /\ n <= 1
                       /\ server' = [server EXCEPT !.row = k, !.mem = k, !.setups = n]
  <2>1. CASE server.mem = NoKey
    <3>1. server' = [server EXCEPT !.row = k, !.mem = k, !.setups = @ + 1]
      BY <1>2, <2>1
    <3>2. server' = [server EXCEPT !.row = k, !.mem = k, !.setups = server.setups + 1]
      BY <1>5, <3>1
    <3>3. server.setups + 1 \in Nat /\ server.setups + 1 <= 1
      BY <1>4, <2>1
    <3> QED
      BY <3>2, <3>3
  <2>2. CASE server.mem # NoKey
    <3>1. server' = [server EXCEPT !.row = k, !.mem = k, !.setups = @]
      BY <1>2, <2>2
    <3>2. server' = [server EXCEPT !.row = k, !.mem = k, !.setups = server.setups]
      BY <1>5, <3>1
    <3> QED
      BY <1>4, <3>2
  <2> QED
    BY <2>1, <2>2
<1>7. /\ server'.row = k /\ server'.mem = k /\ server'.setups = n
      /\ server' \in [mem : AnyKey, row : AnyKey, setups : Nat]
  BY <1>3, <1>5, <1>6
<1>8. Initialized'
  BY <1>3, <1>6, <1>7 DEF Initialized
<1>9. Shapes' /\ OnePage' /\ Installing' /\ OpenIsChecked'
  BY <1>1, <1>7 DEF Agreed, Shapes, OnePage, Awaited, Installing, OpenIsChecked
<1>10. BeforeConsole' /\ AtWork'
  BY <1>1 DEF BeforeConsole, AtWork
<1> QED
  BY <1>8, <1>9, <1>10 DEF Agreed

\* A restart leaves the credential as it is, and the rotations it ends undone.
LEMMA RestartKeeps ==
  ASSUME Agreed, Restart
  PROVE  Agreed'
<1>1. /\ server' = server /\ tab' = tab /\ loads' = loads /\ settled' = settled
      /\ calls' \in [Slots -> Call \cup {Idle}]
  BY Restarting DEF Agreed, Restart
<1>2. \A d \in Slots :
        /\ Busy(d)' <=> Busy(d)
        /\ calls'[d].op = calls[d].op
        /\ Busy(d) => /\ calls'[d].key = calls[d].key /\ calls'[d].arg = calls[d].arg
                      /\ calls'[d].by = calls[d].by
                      /\ calls'[d].opened = calls[d].opened
                      /\ (calls'[d].at = "yes") = (calls[d].at = "yes")
  BY Restarting DEF Agreed
<1>3. \A d \in Slots : calls[d].op \in {"setup", "rotate"} => Busy(d)
  BY SlotShapes DEF Agreed
<1>4. Shapes' /\ Initialized' /\ OpenIsChecked'
  BY <1>1 DEF Agreed, Shapes, Initialized, OpenIsChecked
<1>5. Installing'
  BY <1>2, <1>3 DEF Agreed, Installing
<1>6. OnePage'
  <2>1. \A d \in Slots : Awaited(d)' => Awaited(d)
    BY <1>2, <1>3 DEF Awaited
  <2> QED
    BY <2>1, Awaiting DEF Agreed
<1>7. Rotating' = Rotating
  BY <1>2 DEF Rotating
<1>8. BeforeConsole'
  <2>1. ASSUME settled, ~tab.authorized, NEW d \in Slots, Busy(d)
        PROVE  Opening(calls[d])'
    <3>1. Opening(calls[d])
      BY <2>1 DEF Agreed, BeforeConsole
    <3> QED
      BY <1>1, <1>2, <2>1, <3>1 DEF Opening, Credential
  <2> QED
    BY <1>1, <1>2, <2>1 DEF Agreed, BeforeConsole
<1>9. AtWork'
  <2>1. ASSUME settled, tab.authorized, NEW d \in Slots, Busy(d)
        PROVE  Working(calls[d])'
    <3>1. Working(calls[d])
      BY <2>1 DEF Agreed, AtWork
    <3> QED
      BY <1>1, <1>2, <2>1, <3>1 DEF Working, Credential
  <2> QED
    BY <1>1, <1>2, <1>7, <2>1 DEF Agreed, AtWork, Credential
<1> QED
  BY <1>4, <1>5, <1>6, <1>8, <1>9 DEF Agreed

\* A request moves on while the credential stays: what it was accepted with is the
\* credential, and no rotation is done.
LEMMA StayingKeeps ==
  ASSUME Agreed, NEW c \in Slots, Busy(c), NEW where \in {"sent", "passed", "yes", "no"},
         At(c, where), UNCHANGED <<server, tab, loads, settled>>,
         where = "yes" => \/ calls[c].op = "status"
                          \/ /\ calls[c].op \in {"refresh", "apply", "act"}
                             /\ calls[c].key = Credential,
         calls[c].op = "rotate" => calls[c].at # "yes"
  PROVE  Agreed'
<1>1. /\ calls' \in [Slots -> Call \cup {Idle}] /\ OnePage' /\ Installing'
      /\ Busy(c)' /\ calls'[c].at = where /\ calls'[c].op = calls[c].op
      /\ calls'[c].key = calls[c].key /\ calls'[c].arg = calls[c].arg
      /\ calls'[c].opened = calls[c].opened
      /\ \A d \in Slots \ {c} : calls'[d] = calls[d]
      /\ Rotating' = Rotating
  BY Advancing
<1>2. Credential' = Credential
  BY DEF Credential
<1>3. Shapes' /\ Initialized' /\ OpenIsChecked'
  BY <1>1 DEF Agreed, Shapes, Initialized, OpenIsChecked
<1>4. \A d \in Slots : Busy(d)' <=> Busy(d)
  BY <1>1 DEF Busy
<1>5. BeforeConsole'
  <2> SUFFICES ASSUME settled, ~tab.authorized
               PROVE  \A d \in Slots : Busy(d) => /\ Opening(calls[d])'
                                                  /\ tab.checking \/ tab.loading
                                                  /\ \A e \in Slots : Busy(e) => e = d
    BY <1>4 DEF BeforeConsole
  <2>1. \A d \in Slots : Busy(d) => /\ Opening(calls[d])
                                    /\ tab.checking \/ tab.loading
                                    /\ \A e \in Slots : Busy(e) => e = d
    BY DEF Agreed, BeforeConsole
  <2>2. \A d \in Slots : Busy(d) => d = c
    BY <2>1
  <2>3. Opening(calls[c])
    BY <2>1
  <2>4. Opening(calls[c])'
    BY <1>1, <1>2, <2>3 DEF Opening
  <2> QED
    BY <2>1, <2>2, <2>4
<1>6. AtWork'
  <2> SUFFICES ASSUME settled, tab.authorized
               PROVE  /\ \A d \in Slots : Busy(d) => Working(calls[d])'
                      /\ \A d, e \in Rotating : d = e
                      /\ Rotating = {} => tab.key = Credential
    BY <1>1, <1>2, <1>4 DEF AtWork
  <2>1. /\ \A d \in Slots : Busy(d) => Working(calls[d])
        /\ \A d, e \in Rotating : d = e
        /\ Rotating = {} => tab.key = Credential
    BY DEF Agreed, AtWork
  <2>2. Working(calls[c])'
    <3>1. Working(calls[c])
      BY <2>1
    <3> QED
      BY <1>1, <1>2, <3>1 DEF Working
  <2>3. ASSUME NEW d \in Slots \ {c}, Busy(d) PROVE Working(calls[d])'
    <3>1. Working(calls[d]) /\ calls'[d] = calls[d]
      BY <1>1, <2>1, <2>3
    <3> QED
      BY <1>2, <3>1 DEF Working
  <2> QED
    BY <2>1, <2>2, <2>3
<1> QED
  BY <1>1, <1>3, <1>5, <1>6 DEF Agreed

\* The request of a first setup, or of a rotation, is carried out.
LEMMA InstallingKeeps ==
  ASSUME Agreed, NEW c \in Slots, Busy(c), calls[c].op \in {"setup", "rotate"},
         At(c, "yes"), UNCHANGED <<tab, loads, settled>>, NEW n \in Nat, n <= 1,
         server' = [server EXCEPT !.row = calls[c].arg, !.mem = calls[c].arg,
                                  !.setups = n]
  PROVE  Agreed'
<1>1. /\ calls' \in [Slots -> Call \cup {Idle}] /\ OnePage' /\ Installing'
      /\ Busy(c)' /\ calls'[c].at = "yes" /\ calls'[c].op = calls[c].op
      /\ calls'[c].key = calls[c].key /\ calls'[c].arg = calls[c].arg
      /\ calls'[c].opened = calls[c].opened
      /\ \A d \in Slots \ {c} : calls'[d] = calls[d]
      /\ Rotating' = Rotating
  BY Advancing
<1>2. calls[c].arg \in AnyKey /\ calls[c].arg # NoKey
  BY CallFields DEF Agreed, Installing
<1>3. /\ server'.row = calls[c].arg /\ server'.mem = calls[c].arg /\ server'.setups = n
      /\ server' \in [mem : AnyKey, row : AnyKey, setups : Nat]
  BY <1>2 DEF Agreed, Shapes
<1>4. Credential' = calls[c].arg
  BY <1>2, <1>3 DEF Credential
<1>5. Shapes' /\ OpenIsChecked'
  BY <1>1, <1>3 DEF Agreed, Shapes, OpenIsChecked
<1>6. Initialized'
  BY <1>2, <1>3 DEF Initialized
<1>7. \A d \in Slots : Busy(d)' <=> Busy(d)
  BY <1>1 DEF Busy
<1>8. BeforeConsole'
  <2> SUFFICES ASSUME settled, ~tab.authorized
               PROVE  \A d \in Slots : Busy(d) => /\ Opening(calls[d])'
                                                  /\ tab.checking \/ tab.loading
                                                  /\ \A e \in Slots : Busy(e) => e = d
    BY <1>7 DEF BeforeConsole
  <2>1. \A d \in Slots : Busy(d) => /\ Opening(calls[d])
                                    /\ tab.checking \/ tab.loading
                                    /\ \A e \in Slots : Busy(e) => e = d
    BY DEF Agreed, BeforeConsole
  <2>2. \A d \in Slots : Busy(d) => d = c
    BY <2>1
  <2>3. Opening(calls[c])
    BY <2>1
  <2>4. Opening(calls[c])'
    BY <1>1, <2>3 DEF Opening
  <2> QED
    BY <2>1, <2>2, <2>4
<1>9. AtWork'
  <2> SUFFICES ASSUME settled, tab.authorized
               PROVE  /\ \A d \in Slots : Busy(d) => Working(calls[d])'
                      /\ \A d, e \in Rotating : d = e
                      /\ Rotating # {}
    BY <1>1, <1>7 DEF AtWork
  <2>1. /\ \A d \in Slots : Busy(d) => Working(calls[d])
        /\ \A d, e \in Rotating : d = e
    BY DEF Agreed, AtWork
  <2>2. calls[c].op = "rotate" /\ c \in Rotating
    BY <2>1 DEF Working, Rotating
  <2>3. Working(calls[c])'
    BY <1>1, <1>4, <2>2 DEF Working
  <2>4. ASSUME NEW d \in Slots \ {c}, Busy(d) PROVE Working(calls[d])'
    <3>1. Working(calls[d]) /\ calls'[d] = calls[d]
      BY <1>1, <2>1, <2>4
    <3>2. calls[d].op # "rotate"
      BY <2>1, <2>2, <2>4 DEF Rotating
    <3> QED
      BY <3>1, <3>2 DEF Working
  <2> QED
    BY <2>1, <2>2, <2>3, <2>4
<1> QED
  BY <1>1, <1>5, <1>6, <1>8, <1>9 DEF Agreed

\* The server works on a request.
LEMMA ServeKeeps ==
  ASSUME Agreed, NEW c \in Slots, Serve(c)
  PROVE  Agreed'
<1>1. Busy(c) /\ UNCHANGED <<tab, loads, settled>>
  BY DEF Serve
<1>2. CASE ReadStatus(c)
  <2>1. PICK where \in {"no", "yes"} : At(c, where)
    BY <1>2 DEF ReadStatus, At
  <2> QED
    BY <1>1, <1>2, <2>1, StayingKeeps DEF ReadStatus
<1>3. CASE HandleSetup(c)
  <2>1. CASE At(c, "no") /\ UNCHANGED server
    BY <1>1, <1>3, <2>1, StayingKeeps DEF HandleSetup
  <2>2. CASE /\ Uninitialized(calls[c])
             /\ server' = [server EXCEPT !.row = calls[c].arg, !.mem = calls[c].arg,
                                         !.setups = @ + 1]
             /\ At(c, "yes")
    <3>1. server.setups = 0
      BY <2>2 DEF Agreed, Initialized, Uninitialized
    <3>2. server' = [server EXCEPT !.row = calls[c].arg, !.mem = calls[c].arg,
                                   !.setups = 1]
      BY <2>2, <3>1
    <3>3. calls[c].op \in {"setup", "rotate"}
      BY <1>3 DEF HandleSetup
    <3>4. 1 \in Nat /\ 1 <= 1
      OBVIOUS
    <3> QED
      BY <1>1, <2>2, <3>2, <3>3, <3>4, InstallingKeeps
  <2> QED
    BY <1>3, <2>1, <2>2 DEF HandleSetup
<1>4. CASE HandleRotation(c)
  <2>1. CASE /\ calls[c].at = "sent"
             /\ At(c, IF Authenticated(calls[c]) THEN "passed" ELSE "no")
             /\ UNCHANGED server
    <3>1. PICK where \in {"passed", "no"} : At(c, where)
      BY <2>1
    <3> QED
      BY <1>1, <2>1, <3>1, StayingKeeps
  <2>2. CASE calls[c].at = "passed" /\ At(c, "no") /\ UNCHANGED server
    BY <1>1, <2>2, StayingKeeps
  <2>3. CASE Install(calls[c].arg) /\ At(c, "yes")
    <3>1. server.setups \in Nat /\ server.setups <= 1
      BY DEF Agreed, Shapes, Initialized
    <3>2. server' = [server EXCEPT !.row = calls[c].arg, !.mem = calls[c].arg,
                                   !.setups = server.setups]
      BY <2>3 DEF Install, Agreed, Shapes
    <3>3. calls[c].op \in {"setup", "rotate"}
      BY <1>4 DEF HandleRotation
    <3> QED
      BY <1>1, <2>3, <3>1, <3>2, <3>3, InstallingKeeps
  <2> QED
    BY <1>4, <2>1, <2>2, <2>3 DEF HandleRotation
<1>5. CASE HandleOther(c)
  <2>1. PICK where \in {"yes", "no"} :
          At(c, where) /\ (where = "yes" => calls[c].key = Credential)
    BY <1>5 DEF HandleOther, Authenticated
  <2> QED
    BY <1>1, <1>5, <2>1, StayingKeeps DEF HandleOther
<1> QED
  BY <1>2, <1>3, <1>4, <1>5 DEF Serve

-----------------------------------------------------------------------------
(* The answers.                                                            *)

Tabs == [key : AnyKey, setup : {"unknown", "no", "yes"}, authorized : BOOLEAN,
         checking : BOOLEAN, loading : BOOLEAN]

\* A request ends: the console it opens, or a rotation in it, leaves the credential.
LEMMA DoneKeeps ==
  ASSUME Agreed, NEW c \in Slots, Busy(c), Done(c), UNCHANGED <<server, loads>>,
         settled' \in BOOLEAN, settled' => settled, tab' \in Tabs, OpenIsChecked',
         tab.authorized => tab'.authorized,
         settled' /\ ~tab.authorized /\ tab'.authorized => tab'.key = Credential,
         settled' /\ tab.authorized => \/ calls[c].op = "rotate" /\ tab'.key = Credential
                                       \/ calls[c].op # "rotate" /\ tab'.key = tab.key
  PROVE  Agreed'
<1>1. /\ calls' \in [Slots -> Call \cup {Idle}] /\ OnePage' /\ Installing'
      /\ ~Busy(c)'
      /\ \A d \in Slots \ {c} : calls'[d] = calls[d]
      /\ Rotating' = Rotating \ {c}
  BY Ending
<1>2. Shapes' /\ Initialized'
  BY <1>1 DEF Agreed, Shapes, Initialized, Tabs
<1>3. Credential' = Credential
  BY DEF Credential
<1>4. ASSUME settled', ~tab.authorized
      PROVE  \A d \in Slots : ~Busy(d)'
  BY <1>1, <1>4 DEF Agreed, BeforeConsole, Busy
<1>5. BeforeConsole'
  BY <1>4 DEF BeforeConsole
<1>6. AtWork'
  <2>1. CASE ~tab.authorized
    BY <1>3, <1>4, <2>1 DEF AtWork, Rotating
  <2>2. CASE tab.authorized
    <3> SUFFICES ASSUME settled'
                 PROVE  /\ \A d \in Slots : Busy(d)' => Working(calls[d])'
                        /\ \A d, e \in Rotating' : d = e
                        /\ Rotating' = {} => tab'.key = Credential
      BY <1>3 DEF AtWork
    <3>1. /\ \A d \in Slots : Busy(d) => Working(calls[d])
          /\ \A d, e \in Rotating : d = e
          /\ Rotating = {} => tab.key = Credential
      BY <2>2 DEF Agreed, AtWork
    <3>2. CASE calls[c].op = "rotate" /\ tab'.key = Credential
      <4>1. c \in Rotating
        BY <3>2 DEF Rotating
      <4>2. ASSUME NEW d \in Slots, Busy(d)' PROVE Working(calls[d])'
        <5>1. d # c /\ calls'[d] = calls[d] /\ Busy(d)
          BY <1>1, <4>2 DEF Busy
        <5>2. Working(calls[d]) /\ calls[d].op # "rotate"
          BY <3>1, <4>1, <5>1 DEF Rotating
        <5> QED
          BY <5>1, <5>2 DEF Working
      <4> QED
        BY <1>1, <3>1, <3>2, <4>2
    <3>3. CASE calls[c].op # "rotate" /\ tab'.key = tab.key
      <4>1. Rotating' = Rotating
        BY <1>1, <3>3 DEF Rotating
      <4>2. ASSUME NEW d \in Slots, Busy(d)' PROVE Working(calls[d])'
        <5>1. calls'[d] = calls[d] /\ Busy(d)
          BY <1>1, <4>2 DEF Busy
        <5>2. Working(calls[d])
          BY <3>1, <5>1
        <5> QED
          BY <1>3, <3>3, <5>1, <5>2 DEF Working
      <4> QED
        BY <3>1, <3>3, <4>1, <4>2
    <3> QED
      BY <2>2, <3>2, <3>3
  <2> QED
    BY <2>1, <2>2
<1> QED
  BY <1>1, <1>2, <1>5, <1>6 DEF Agreed

\* An answer is followed by a refresh, with the key that is stored then.
LEMMA ThenRefreshKeeps ==
  ASSUME Agreed, NEW c \in Slots, Busy(c), NEW key \in AnyKey, NEW opened \in BOOLEAN,
         ThenRefresh(c, key, opened), UNCHANGED <<server, loads>>,
         settled' \in BOOLEAN, settled' => settled, tab' \in Tabs,
         tab'.authorized = tab.authorized, OpenIsChecked',
         settled /\ ~tab.authorized =>
           ~opened /\ key = tab'.key /\ (tab'.checking \/ tab'.loading),
         settled /\ tab.authorized =>
           opened /\ tab'.key = tab.key /\ calls[c].op # "rotate"
  PROVE  Agreed'
<1> DEFINE call == Request("refresh", key, NoKey, opened)
<1>1. /\ call \in Call /\ call # Idle /\ call.op = "refresh"
      /\ call.key = key /\ call.opened = opened /\ call.at = "sent"
  <2>1. NoKey \in AnyKey
    BY DEF AnyKey
  <2> QED
    BY <2>1 DEF Request, Call, Ops, Idle
<1>2. calls' = [calls EXCEPT ![c] = call]
  BY DEF ThenRefresh
<1> HIDE DEF call
<1>3. /\ calls' \in [Slots -> Call \cup {Idle}] /\ OnePage' /\ Installing'
      /\ Busy(c)' /\ calls'[c] = call
      /\ \A d \in Slots \ {c} : calls'[d] = calls[d]
      /\ Rotating' = Rotating \ {c}
  BY <1>1, <1>2, Arriving
<1>4. Shapes' /\ Initialized'
  BY <1>3 DEF Agreed, Shapes, Initialized, Tabs
<1>5. Credential' = Credential
  BY DEF Credential
<1>6. BeforeConsole'
  <2> SUFFICES ASSUME settled', ~tab'.authorized
               PROVE  /\ Opening(calls[c])'
                      /\ tab'.checking \/ tab'.loading
                      /\ \A d \in Slots : Busy(d)' => d = c
    BY DEF BeforeConsole
  <2>1. \A d \in Slots : Busy(d)' => d = c
    BY <1>3 DEF Agreed, BeforeConsole, Busy
  <2>2. Opening(calls[c])'
    BY <1>1, <1>3 DEF Opening
  <2> QED
    BY <2>1, <2>2
<1>7. AtWork'
  <2> SUFFICES ASSUME settled', tab'.authorized
               PROVE  /\ \A d \in Slots : Busy(d)' => Working(calls[d])'
                      /\ \A d, e \in Rotating' : d = e
                      /\ Rotating' = {} => tab'.key = Credential
    BY <1>5 DEF AtWork
  <2>1. /\ \A d \in Slots : Busy(d) => Working(calls[d])
        /\ \A d, e \in Rotating : d = e
        /\ Rotating = {} => tab.key = Credential
    BY DEF Agreed, AtWork
  <2>2. Rotating' = Rotating
    BY <1>3 DEF Rotating
  <2>3. Working(calls[c])'
    BY <1>1, <1>3 DEF Working
  <2>4. ASSUME NEW d \in Slots \ {c}, Busy(d)' PROVE Working(calls[d])'
    <3>1. calls'[d] = calls[d] /\ Busy(d)
      BY <1>3, <2>4 DEF Busy
    <3>2. Working(calls[d])
      BY <2>1, <3>1
    <3> QED
      BY <1>5, <3>1, <3>2 DEF Working
  <2> QED
    BY <2>1, <2>2, <2>3, <2>4
<1> QED
  BY <1>3, <1>4, <1>6, <1>7 DEF Agreed

\* The handlers go on with the answer, or without one.
LEMMA DeliverKeeps ==
  ASSUME Agreed, NEW c \in Slots, Busy(c), NEW ok \in BOOLEAN, Deliver(c, ok),
         UNCHANGED <<server, loads>>, settled' \in BOOLEAN, settled' => settled,
         ok => calls[c].at = "yes" \/ (calls[c].op = "status" /\ calls[c].at = "no"),
         settled' /\ calls[c].op = "rotate" /\ ~ok => calls[c].at # "yes"
  PROVE  Agreed'
<1>1. tab \in Tabs
  BY DEF Agreed, Shapes, Tabs
<1>2. /\ calls[c].op \in Ops /\ calls[c].arg \in AnyKey /\ calls[c].opened \in BOOLEAN
      /\ calls[c].at \in {"sent", "passed", "yes", "no"}
  BY CallFields DEF Agreed
<1>3. tab.key \in AnyKey /\ NoKey \in AnyKey
  BY <1>1 DEF AnyKey, Tabs
<1>4. settled /\ tab.authorized => Working(calls[c])
  BY DEF Agreed, AtWork
<1>5. settled /\ ~tab.authorized => Opening(calls[c]) /\ (tab.checking \/ tab.loading)
  BY DEF Agreed, BeforeConsole
<1>6. tab.authorized => ~tab.checking
  BY DEF Agreed, OpenIsChecked
<1>7. CASE StatusAnswered(c, ok)
  <2>1. ~(settled /\ tab.authorized)
    BY <1>4, <1>7 DEF StatusAnswered, Working
  <2>2. CASE /\ tab' = [tab EXCEPT !.setup = "yes", !.loading = TRUE]
             /\ ThenRefresh(c, tab.key, FALSE)
    <3>1. /\ tab' \in Tabs /\ tab'.authorized = tab.authorized
          /\ tab'.checking = tab.checking /\ tab'.loading /\ tab'.key = tab.key
      BY <1>1, <2>2 DEF Tabs
    <3>2. OpenIsChecked'
      BY <1>6, <3>1 DEF OpenIsChecked
    <3> QED
      BY <1>3, <2>1, <2>2, <3>1, <3>2, ThenRefreshKeeps
  <2>3. CASE /\ tab' = [tab EXCEPT !.setup = IF ok THEN calls[c].at ELSE @,
                                   !.checking = FALSE]
             /\ Done(c) /\ (ok => calls[c].at \in {"yes", "no"})
    <3>1. /\ tab' \in Tabs /\ tab'.authorized = tab.authorized
          /\ ~tab'.checking /\ tab'.key = tab.key
      BY <1>1, <1>2, <2>3 DEF Tabs
    <3>2. OpenIsChecked'
      BY <3>1 DEF OpenIsChecked
    <3> QED
      BY <2>1, <2>3, <3>1, <3>2, DoneKeeps
  <2>4. ok => calls[c].at \in {"yes", "no"}
    BY <1>7 DEF StatusAnswered
  <2> QED
    BY <1>7, <2>2, <2>3, <2>4 DEF StatusAnswered
<1>8. CASE SetupAnswered(c, ok)
  <2>1. ~(settled /\ tab.authorized)
    BY <1>4, <1>8 DEF SetupAnswered, Working
  <2>2. CASE /\ tab' = [tab EXCEPT !.setup = "yes", !.key = calls[c].arg]
             /\ ThenRefresh(c, calls[c].arg, FALSE)
    <3>1. /\ tab' \in Tabs /\ tab'.authorized = tab.authorized
          /\ tab'.checking = tab.checking /\ tab'.loading = tab.loading
          /\ tab'.key = calls[c].arg
      BY <1>1, <1>2, <2>2 DEF Tabs
    <3>2. OpenIsChecked'
      BY <1>6, <3>1 DEF OpenIsChecked
    <3> QED
      BY <1>2, <1>5, <2>1, <2>2, <3>1, <3>2, ThenRefreshKeeps
  <2>3. CASE tab' = [tab EXCEPT !.checking = FALSE, !.loading = FALSE] /\ Done(c)
    <3>1. /\ tab' \in Tabs /\ tab'.authorized = tab.authorized
          /\ ~tab'.checking /\ tab'.key = tab.key
      BY <1>1, <2>3 DEF Tabs
    <3>2. OpenIsChecked'
      BY <3>1 DEF OpenIsChecked
    <3> QED
      BY <2>1, <2>3, <3>1, <3>2, DoneKeeps
  <2> QED
    BY <1>8, <2>2, <2>3 DEF SetupAnswered
<1>9. CASE RefreshAnswered(c, ok)
  <2>1. /\ tab' \in Tabs /\ ~tab'.checking
        /\ tab'.authorized = (tab.authorized \/ ok)
        /\ tab'.key = IF ~ok /\ ~calls[c].opened THEN NoKey ELSE tab.key
    BY <1>1, <1>3, <1>9 DEF RefreshAnswered, Tabs, GivesUpKey, Loading
  <2>2. OpenIsChecked'
    BY <2>1 DEF OpenIsChecked
  <2>3. ASSUME settled', ~tab.authorized, tab'.authorized PROVE tab'.key = Credential
    BY <1>5, <1>9, <2>1, <2>3 DEF RefreshAnswered, Opening
  <2>4. ASSUME settled', tab.authorized
        PROVE  calls[c].op # "rotate" /\ tab'.key = tab.key
    BY <1>4, <1>9, <2>1, <2>4 DEF RefreshAnswered, Working
  <2> QED
    BY <1>9, <2>1, <2>2, <2>3, <2>4, DoneKeeps DEF RefreshAnswered
<1>10. CASE RotationAnswered(c, ok)
  <2>1. /\ tab' \in Tabs /\ tab'.authorized = tab.authorized
        /\ tab'.checking = tab.checking
        /\ tab'.key = IF ok THEN calls[c].arg ELSE tab.key
    BY <1>1, <1>2, <1>10 DEF RotationAnswered, Tabs
  <2>2. OpenIsChecked'
    BY <1>6, <2>1 DEF OpenIsChecked
  <2>3. ASSUME settled', tab.authorized
        PROVE  calls[c].op = "rotate" /\ tab'.key = Credential
    BY <1>4, <1>10, <2>1, <2>3 DEF RotationAnswered, Working
  <2> QED
    BY <1>10, <2>1, <2>2, <2>3, DoneKeeps DEF RotationAnswered
<1>11. CASE ApplyAnswered(c)
  <2>1. /\ tab' \in Tabs /\ tab'.authorized = tab.authorized
        /\ tab'.checking = tab.checking /\ tab'.key = tab.key
    BY <1>1, <1>11 DEF ApplyAnswered, Tabs
  <2>2. OpenIsChecked'
    BY <1>6, <2>1 DEF OpenIsChecked
  <2> QED
    BY <1>11, <2>1, <2>2, DoneKeeps DEF ApplyAnswered
<1>12. CASE ActAnswered(c, ok)
  <2>1. ~(settled /\ ~tab.authorized)
    BY <1>5, <1>12 DEF ActAnswered, Opening
  <2>2. CASE /\ tab' = [tab EXCEPT !.loading = TRUE]
             /\ ThenRefresh(c, tab.key, calls[c].opened)
    <3>1. /\ tab' \in Tabs /\ tab'.authorized = tab.authorized
          /\ tab'.checking = tab.checking /\ tab'.key = tab.key
      BY <1>1, <2>2 DEF Tabs
    <3>2. OpenIsChecked'
      BY <1>6, <3>1 DEF OpenIsChecked
    <3>3. ASSUME settled, tab.authorized
          PROVE  calls[c].opened /\ calls[c].op # "rotate"
      BY <1>4, <1>12, <3>3 DEF ActAnswered, Working
    <3> QED
      BY <1>2, <1>3, <2>1, <2>2, <3>1, <3>2, <3>3, ThenRefreshKeeps
  <2>3. CASE tab' = tab /\ Done(c)
    <3>1. OpenIsChecked'
      BY <1>6, <2>3 DEF OpenIsChecked
    <3>2. calls[c].op # "rotate"
      BY <1>12 DEF ActAnswered
    <3> QED
      BY <1>1, <2>1, <2>3, <3>1, <3>2, DoneKeeps
  <2> QED
    BY <1>12, <2>2, <2>3 DEF ActAnswered
<1> QED
  BY <1>7, <1>8, <1>9, <1>10, <1>11, <1>12 DEF Deliver

\* An answer, or the network giving up: a rotation that failed was not carried out,
\* or unsettles the session.
LEMMA AnswerKeeps ==
  ASSUME Agreed, NEW c \in Slots, Answer(c) \/ Fail(c)
  PROVE  Agreed'
<1>1. Busy(c) /\ UNCHANGED <<server, loads>>
  BY DEF Answer, Fail
<1>2. settled \in BOOLEAN
  BY DEF Agreed, Shapes
<1>3. CASE Answer(c)
  <2>1. PICK ok \in BOOLEAN : ok = Answered(c) /\ Deliver(c, ok)
    BY <1>3 DEF Answer, Answered
  <2>2. calls[c].at \in {"yes", "no"} /\ settled' = settled
    BY <1>3 DEF Answer
  <2>3. ok => calls[c].at = "yes" \/ (calls[c].op = "status" /\ calls[c].at = "no")
    BY <2>1, <2>2 DEF Answered
  <2>4. ~ok => calls[c].at # "yes"
    BY <2>1 DEF Answered
  <2> QED
    BY <1>1, <1>2, <2>1, <2>2, <2>3, <2>4, DeliverKeeps
<1>4. CASE Fail(c)
  <2>1. /\ Deliver(c, FALSE)
        /\ settled' = (settled /\ ~(calls[c].op = "rotate" /\ calls[c].at = "yes"))
    BY <1>4 DEF Fail
  <2> QED
    BY <1>1, <1>2, <2>1, DeliverKeeps
<1> QED
  BY <1>3, <1>4

\* Nobody awaits the writes that are left over from an earlier page: they end, and
\* none is there in a settled session.
LEMMA ForgetKeeps ==
  ASSUME IInv, NEW c \in Slots, Forget(c)
  PROVE  Agreed'
<1>1. Busy(c) /\ Done(c) /\ UNCHANGED <<server, tab, loads, settled>>
  BY DEF Forget
<1>2. ~settled /\ settled \in BOOLEAN
  BY <1>1 DEF IInv, Attended, Orphan, Forget, Agreed, Shapes
<1>3. tab' \in Tabs /\ OpenIsChecked'
  BY <1>1 DEF IInv, Agreed, Shapes, Tabs, OpenIsChecked
<1> QED
  BY <1>1, <1>2, <1>3, DoneKeeps DEF IInv

-----------------------------------------------------------------------------
(* Every step.                                                             *)

\* No step leaves a call without somebody who awaits it, but a reload that finds one.
LEMMA NobodyLeaves ==
  ASSUME Shapes, [Next]_vars, Attended
  PROVE  Attended'
<1> SUFFICES ASSUME settled' PROVE \A d \in Slots : ~Orphan(d)'
  BY DEF Attended
<1>1. CASE Load
  <2>1. PICK c \in Slots :
          /\ calls'[c] = Request("status", NoKey, NoKey, FALSE)
          /\ \A d \in Slots \ {c} : calls'[d] = Idle
    BY <1>1, Reloading
  <2> QED
    BY <2>1 DEF Orphan, Busy, Request
<1> SUFFICES ASSUME ~Load
             PROVE  settled /\ \A d \in Slots : Orphan(d)' => Orphan(d)
  BY <1>1 DEF Attended
<1>2. ASSUME NEW c \in Slots, NEW op, NEW key, NEW arg, NEW opened,
             calls' = [calls EXCEPT ![c] = Request(op, key, arg, opened)]
      PROVE  \A d \in Slots : Orphan(d)' => Orphan(d)
  <2>1. calls'[c].by = "page" /\ \A d \in Slots \ {c} : calls'[d] = calls[d]
    BY <1>2 DEF Request, Shapes
  <2> QED
    BY <2>1 DEF Orphan, Busy
<1>3. ASSUME NEW c \in Slots, Done(c)
      PROVE  \A d \in Slots : Orphan(d)' => Orphan(d)
  <2>1. calls'[c] = Idle /\ \A d \in Slots \ {c} : calls'[d] = calls[d]
    BY <1>3 DEF Done, Shapes
  <2> QED
    BY <2>1 DEF Orphan, Busy
<1>4. ASSUME NEW c \in Slots, Busy(c), NEW where \in {"sent", "passed", "yes", "no"},
             At(c, where)
      PROVE  \A d \in Slots : Orphan(d)' => Orphan(d)
  <2>1. /\ calls'[c].by = calls[c].by
        /\ \A d \in Slots \ {c} : calls'[d] = calls[d]
    BY <1>4, Moving DEF At
  <2> QED
    BY <1>4, <2>1 DEF Orphan, Busy
<1>5. ASSUME calls' = Unmount
      PROVE  \A d \in Slots : Orphan(d)' => Orphan(d)
  <2>1. ASSUME NEW d \in Slots, Orphan(d)' PROVE Orphan(d)
    <3>1. CASE d \in Rotating /\ calls[d].by = "page"
      <4>1. calls'[d] = [calls[d] EXCEPT !.by = "tab"] /\ calls[d] \in Call
        BY <1>5, <3>1, SlotShapes DEF Unmount, Rotating
      <4>2. calls'[d].by = "tab"
        BY <4>1 DEF Call
      <4> QED
        BY <2>1, <4>2 DEF Orphan
    <3>2. CASE ~(d \in Rotating /\ calls[d].by = "page")
      BY <1>5, <2>1, <3>2 DEF Unmount, Orphan, Busy
    <3> QED
      BY <3>1, <3>2
  <2> QED
    BY <2>1
<1>6. CASE calls' = calls /\ settled' = settled
  BY <1>6 DEF Orphan, Busy
<1>7. CASE Submit \/ ClickRefresh \/ ApplyFilter \/ Act \/ RotateKey
  <2>1. settled
    BY <1>7 DEF Submit, ClickRefresh, ApplyFilter, Act, RotateKey
  <2>2. PICK op, key, arg, opened : Send(Request(op, key, arg, opened))
    <3>1. CASE Submit
      BY <3>1 DEF Submit
    <3>2. CASE ClickRefresh \/ ApplyFilter \/ Act
      BY <3>2 DEF ClickRefresh, ApplyFilter, Act
    <3>3. CASE RotateKey
      BY <3>3 DEF RotateKey
    <3> QED
      BY <1>7, <3>1, <3>2, <3>3
  <2> QED
    BY <1>2, <2>1, <2>2 DEF Send
<1>8. CASE LeaveSettings \/ Logout
  BY <1>5, <1>8 DEF LeaveSettings, Logout
<1>9. CASE Another
  BY <1>9 DEF Another
<1>10. CASE Restart
  <2>1. ASSUME NEW d \in Slots, Orphan(d)' PROVE Orphan(d)
    <3>1. calls'[d] = IF Busy(d) /\ calls[d].at = "passed"
                      THEN [calls[d] EXCEPT !.at = "no"] ELSE calls[d]
      BY <1>10 DEF Restart
    <3>2. CASE Busy(d) /\ calls[d].at = "passed"
      <4>1. calls'[d].by = calls[d].by
        BY <3>1, <3>2, SlotShapes DEF Call
      <4> QED
        BY <2>1, <3>2, <4>1 DEF Orphan
    <3> QED
      BY <2>1, <3>1, <3>2 DEF Orphan, Busy
  <2> QED
    BY <1>10, <2>1 DEF Restart
<1>11. ASSUME NEW c \in Slots, Serve(c)
       PROVE  settled /\ \A d \in Slots : Orphan(d)' => Orphan(d)
  <2>1. Busy(c) /\ settled
    BY <1>11 DEF Serve
  <2>2. PICK where \in {"passed", "yes", "no"} : At(c, where)
    BY <1>11 DEF Serve, ReadStatus, HandleSetup, HandleRotation, HandleOther, At
  <2> QED
    BY <1>4, <2>1, <2>2
<1>12. ASSUME NEW c \in Slots, NEW ok, Deliver(c, ok)
       PROVE  \A d \in Slots : Orphan(d)' => Orphan(d)
  <2>1. Done(c) \/ \E key, opened : ThenRefresh(c, key, opened)
    BY <1>12 DEF Deliver, StatusAnswered, SetupAnswered, RefreshAnswered,
                 RotationAnswered, ApplyAnswered, ActAnswered
  <2> QED
    BY <1>2, <1>3, <2>1 DEF ThenRefresh
<1>13. ASSUME NEW c \in Slots, Answer(c) \/ Fail(c) \/ Forget(c)
       PROVE  settled /\ \A d \in Slots : Orphan(d)' => Orphan(d)
  BY <1>3, <1>12, <1>13 DEF Answer, Fail, Forget
<1> QED
  BY <1>6, <1>7, <1>8, <1>9, <1>10, <1>11, <1>13 DEF Next, Progress, vars

\* The inductive invariant holds at the start.
LEMMA InitInvariant ==
  ASSUME SessionAssumption, Init
  PROVE  IInv
<1>1. PICK k \in AdminKeys \cup {NoKey} : server = [mem |-> k, row |-> k, setups |-> 0]
  BY DEF Init
<1>2. PICK key \in AnyKey : tab = FreshPage(key)
  BY DEF Init
<1>3. /\ tab \in Tabs /\ tab.checking /\ ~tab.authorized
  BY <1>2 DEF FreshPage, Tabs
<1>4. /\ server \in [mem : AnyKey, row : AnyKey, setups : Nat]
      /\ server.row = server.mem /\ server.setups = 0
  BY <1>1 DEF AnyKey
<1>5. loads = 1 /\ settled = TRUE /\ 1 \in 1..MaxLoads
  BY SessionAssumption DEF Init, SessionAssumption
<1> DEFINE call == Request("status", NoKey, NoKey, FALSE)
<1>6. call \in Call /\ call # Idle /\ call.op = "status" /\ call.by = "page"
  BY DEF Request, Call, Ops, AnyKey, Idle
<1>7. Idle.op = "idle"
  BY DEF Idle
<1>8. calls = [c \in Slots |-> IF c = 1 THEN call ELSE Idle]
  BY DEF Init
<1> HIDE DEF call
<1>9. /\ calls \in [Slots -> Call \cup {Idle}]
      /\ \A c \in Slots : calls[c] = IF c = 1 THEN call ELSE Idle
  BY <1>6, <1>8
<1>10. Shapes
  BY <1>3, <1>4, <1>5, <1>9 DEF Shapes, Tabs
<1>11. OnePage /\ Installing /\ Initialized /\ OpenIsChecked
  BY <1>3, <1>4, <1>6, <1>7, <1>9
     DEF OnePage, Awaited, Installing, Initialized, OpenIsChecked
<1>12. BeforeConsole /\ AtWork
  BY <1>3, <1>6, <1>9 DEF BeforeConsole, Opening, Busy, AtWork
<1>13. Attended
  BY <1>6, <1>9 DEF Attended, Orphan, Busy
<1> QED
  BY <1>10, <1>11, <1>12, <1>13 DEF IInv, Agreed

\* Every step keeps the inductive invariant.
LEMMA NextKeeps ==
  ASSUME SessionAssumption, IInv, [Next]_vars
  PROVE  IInv'
<1>1. Agreed /\ Shapes /\ Attended
  BY DEF IInv, Agreed
<1>2. Attended'
  BY <1>1, NobodyLeaves
<1>3. Agreed'
  <2>1. CASE Load
    BY <1>1, <2>1, LoadKeeps
  <2>2. CASE Submit
    BY <1>1, <2>2, SubmitKeeps
  <2>3. ASSUME InConsole, NEW c \in Slots, Free(c),
               NEW op \in {"refresh", "apply", "act"},
               calls' = [calls EXCEPT ![c] = Request(op, tab.key, NoKey, TRUE)],
               tab' \in {tab, [tab EXCEPT !.loading = TRUE]},
               UNCHANGED <<server, loads, settled>>
        PROVE  Agreed'
    BY <1>1, <2>3, ConsoleKeeps DEF InConsole, Free
  <2>4. CASE ClickRefresh
    BY <2>3, <2>4 DEF ClickRefresh, Send
  <2>5. CASE ApplyFilter
    BY <2>3, <2>5 DEF ApplyFilter, Send
  <2>6. CASE Act
    BY <2>3, <2>6 DEF Act, Send
  <2>7. CASE RotateKey
    BY <1>1, <2>7, RotateKeyKeeps
  <2>8. CASE LeaveSettings
    BY <1>1, <2>8, LeaveSettingsKeeps
  <2>9. CASE Logout
    BY <1>1, <2>9, LogoutKeeps
  <2>10. CASE Another
    BY <1>1, <2>10, AnotherKeeps
  <2>11. CASE Restart
    BY <1>1, <2>11, RestartKeeps
  <2>12. ASSUME NEW c \in Slots, Progress(c)
         PROVE  Agreed'
    BY <1>1, <2>12, ServeKeeps, AnswerKeeps, ForgetKeeps DEF Progress
  <2>13. CASE UNCHANGED vars
    <3>1. server' = server /\ tab' = tab /\ calls' = calls /\ loads' = loads
          /\ settled' = settled
      BY <2>13 DEF vars
    <3> QED
      BY <1>1, <3>1
         DEF Agreed, Shapes, OnePage, Awaited, Installing, Initialized, OpenIsChecked,
             BeforeConsole, Opening, AtWork, Working, Rotating, Busy, Credential
  <2> QED
    BY <2>1, <2>2, <2>4, <2>5, <2>6, <2>7, <2>8, <2>9, <2>10, <2>11, <2>12, <2>13
       DEF Next
<1> QED
  BY <1>2, <1>3 DEF IInv

\* The inductive invariant.
LEMMA Invariance == Spec => []IInv
<1>1. Init => IInv
  BY SessionAssumption, InitInvariant
<1>2. IInv /\ [Next]_vars => IInv'
  BY SessionAssumption, NextKeeps
<1> QED
  BY <1>1, <1>2, PTL DEF Spec

-----------------------------------------------------------------------------
(* The theorems.                                                           *)

\* The server's credential, the state of App and its requests have their shapes, and
\* the settings page awaits at most one rotation, however often it is left and opened.
THEOREM TypeCorrect == Spec => []TypeOK
<1>1. IInv => TypeOK
  <2> SUFFICES ASSUME IInv PROVE TypeOK
    OBVIOUS
  <2> DEFINE mine == {c \in Rotating : calls[c].by = "page"}
  <2>1. \A c, d \in mine : c = d
    BY DEF IInv, Agreed, OnePage, Awaited, Rotating
  <2> HIDE DEF mine
  <2>2. Cardinality(mine) \in {0, 1}
    <3>1. CASE mine = {}
      BY <3>1, FS_EmptySet
    <3>2. CASE mine # {}
      <4>1. PICK c : mine = {c}
        BY <2>1, <3>2
      <4> QED
        BY <4>1, FS_Singleton
    <3> QED
      BY <3>1, <3>2
  <2> USE DEF mine
  <2>3. Cardinality({c \in Rotating : calls[c].by = "page"}) <= 1
    BY <2>2
  <2> QED
    BY <2>3 DEF IInv, Agreed, Shapes, TypeOK
<1> QED
  BY <1>1, Invariance, PTL

\* However many setups race with each other, with the operators who rotate and with
\* restarts, the server accepts one at most (handleAdminSetup).
THEOREM OneSetup == Spec => []OneSetupWins
<1>1. IInv => OneSetupWins
  BY DEF IInv, Agreed, Initialized, OneSetupWins
<1> QED
  BY <1>1, Invariance, PTL

\* The browser follows its rotation: an open console without a rotation under way
\* stores the credential in force, in a settled session, whatever the order in which
\* refreshes, queries and other changes are answered meanwhile (handleRotateAdmin).
THEOREM FollowsRotation == Spec => []BrowserFollowsRotation
<1>1. IInv => BrowserFollowsRotation
  BY DEF IInv, Agreed, AtWork, InConsole, BrowserFollowsRotation
<1> QED
  BY <1>1, Invariance, PTL
=============================================================================
