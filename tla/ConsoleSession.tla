--------------------------- MODULE ConsoleSession ---------------------------
(***************************************************************************)
(* The session of the web console (App.tsx) and the administrator key it   *)
(* presents (admin_auth.go).                                               *)
(*                                                                         *)
(* The tab keeps the key in sessionStorage, which outlives a reload; all   *)
(* its other state belongs to the page.  A request carries the key stored  *)
(* when it is sent, and the handler that sent it goes on with what was     *)
(* true when it was rendered; nothing cancels it, neither a logout nor     *)
(* leaving the page that shows its progress.  At the server the first      *)
(* setup installs a credential, and a rotation, once authenticated,        *)
(* replaces it.                                                            *)
(***************************************************************************)
EXTENDS Naturals, FiniteSets

CONSTANTS
  AdminKeys,   \* keys the operators choose
  ConfigKey,   \* ADMIN_API_KEY, which counts until a key is set up
  NoKey,       \* the empty string; no credential
  MaxCalls,    \* bound: requests under way at one time
  MaxLoads     \* bound: page loads

ASSUME SessionAssumption ==
  /\ NoKey \notin AdminKeys \cup {ConfigKey}
  /\ MaxCalls \in Nat \ {0} /\ MaxLoads \in Nat \ {0}

VARIABLES
  server,   \* mem: the credential in force; row: admin_settings; setups: 201s given
  tab,      \* key: sessionStorage; the rest is the state of App
  calls,    \* the requests of the tab
  loads,    \* bound: page loads
  settled   \* history: nobody else wrote the credential since the page was loaded,
            \* rotations came one by one with their answers, and no logout met a call

vars == <<server, tab, calls, loads, settled>>

Slots == 1..MaxCalls
AnyKey == AdminKeys \cup {ConfigKey, NoKey}

(* What the tab asks: the setup status, a first setup, the thirteen reads  *)
(* of a refresh, a rotation of the key, a query of the usage page, or any  *)
(* change whose handler ends in a refresh.                                 *)
Ops == {"status", "setup", "refresh", "rotate", "apply", "act"}

(* key: the header; arg: the key to install; opened: `authorized` as the   *)
(* sending closure saw it; at: how far the request is; by: who awaits it,  *)
(* the page it was sent from, only App, or nobody since a reload.          *)
Call == [op : Ops, key : AnyKey, arg : AnyKey, opened : BOOLEAN,
         at : {"sent", "passed", "yes", "no"}, by : {"page", "tab", "nobody"}]
Idle == [op |-> "idle"]

Request(op, key, arg, opened) ==
  [op |-> op, key |-> key, arg |-> arg, opened |-> opened, at |-> "sent",
   by |-> "page"]

Busy(c) == calls[c] # Idle
Free(c) == ~Busy(c) /\ \A d \in Slots : d < c => Busy(d)
Rotating == {c \in Slots : Busy(c) /\ calls[c].op = "rotate"}

(* What X-Admin-Key is compared with.                                      *)
Credential == IF server.mem = NoKey THEN ConfigKey ELSE server.mem
Authenticated(call) == call.key = Credential

(* The gates of the page: a spinner, the login form, the console.          *)
AtLogin == ~tab.checking /\ ~tab.authorized
InConsole == ~tab.checking /\ tab.authorized

FreshPage(key) ==
  [key |-> key, setup |-> "unknown", authorized |-> FALSE, checking |-> TRUE,
   loading |-> FALSE]

Init ==
  /\ \E k \in AdminKeys \cup {NoKey} :
       server = [mem |-> k, row |-> k, setups |-> 0]
  /\ \E k \in AnyKey : tab = FreshPage(k)
  /\ calls = [c \in Slots |->
                IF c = 1 THEN Request("status", NoKey, NoKey, FALSE) ELSE Idle]
  /\ loads = 1
  /\ settled = TRUE

-----------------------------------------------------------------------------
(* The operator *)

Send(call) == \E c \in Slots : Free(c) /\ calls' = [calls EXCEPT ![c] = call]

(* A reload: sessionStorage survives, and so do the writes on their way to *)
(* the server, which nobody awaits any more.                               *)
Outlives(call) ==
  /\ call # Idle
  /\ call.op \in {"setup", "rotate"} /\ call.at \in {"sent", "passed"}

Load ==
  /\ loads < MaxLoads /\ loads' = loads + 1
  /\ tab' = FreshPage(tab.key)
  /\ LET kept == [c \in Slots |-> IF Outlives(calls[c])
                                  THEN [calls[c] EXCEPT !.by = "nobody"] ELSE Idle]
     IN \E c \in Slots :
          /\ kept[c] = Idle /\ \A d \in Slots : d < c => kept[d] # Idle
          /\ calls' = [kept EXCEPT ![c] = Request("status", NoKey, NoKey, FALSE)]
          /\ settled' = \A d \in Slots : kept[d] = Idle
  /\ UNCHANGED server

(* The login form: a first setup, or a login, which is only a refresh with *)
(* the key put in sessionStorage.                                          *)
Submit ==
  /\ AtLogin /\ ~tab.loading
  /\ \E k \in AnyKey \ {NoKey} :
       IF tab.setup = "yes"
       THEN /\ tab' = [tab EXCEPT !.loading = TRUE, !.key = k]
            /\ Send(Request("refresh", k, NoKey, FALSE))
       ELSE /\ tab' = [tab EXCEPT !.loading = TRUE]
            /\ Send(Request("setup", tab.key, k, FALSE))
  /\ UNCHANGED <<server, loads, settled>>

ClickRefresh ==
  /\ InConsole /\ ~tab.loading
  /\ tab' = [tab EXCEPT !.loading = TRUE]
  /\ Send(Request("refresh", tab.key, NoKey, TRUE))
  /\ UNCHANGED <<server, loads, settled>>

ApplyFilter ==
  /\ InConsole
  /\ tab' = [tab EXCEPT !.loading = TRUE]
  /\ Send(Request("apply", tab.key, NoKey, TRUE))
  /\ UNCHANGED <<server, loads, settled>>

(* A change whose handler refreshes when it is answered.                   *)
Act ==
  /\ InConsole
  /\ Send(Request("act", tab.key, NoKey, TRUE))
  /\ UNCHANGED <<server, tab, loads, settled>>

(* The form of the settings page is disabled while its rotation is under   *)
(* way, and forgets it when the operator leaves the page.                  *)
AlwaysAtRest == TRUE
FormAtRest == \A c \in Rotating : calls[c].by # "page"

RotateKey ==
  /\ InConsole /\ FormAtRest
  /\ \E k \in AnyKey \ {NoKey} : Send(Request("rotate", tab.key, k, TRUE))
  /\ settled' = (settled /\ Rotating = {})
  /\ UNCHANGED <<server, tab, loads>>

Unmount == [c \in Slots |->
  IF c \in Rotating /\ calls[c].by = "page" THEN [calls[c] EXCEPT !.by = "tab"]
                                            ELSE calls[c]]

LeaveSettings ==
  /\ InConsole /\ Unmount # calls
  /\ calls' = Unmount
  /\ UNCHANGED <<server, tab, loads, settled>>

Logout ==
  /\ InConsole
  /\ tab' = [tab EXCEPT !.key = NoKey, !.authorized = FALSE]
  /\ calls' = Unmount
  /\ settled' = (settled /\ \A c \in Slots : ~Busy(c))
  /\ UNCHANGED <<server, loads>>

-----------------------------------------------------------------------------
(* The server *)

At(c, where) == calls' = [calls EXCEPT ![c].at = where]

ReadStatus(c) ==
  /\ calls[c].op = "status" /\ calls[c].at = "sent"
  /\ calls' = [calls EXCEPT ![c].at = IF server.mem = NoKey THEN "no" ELSE "yes"]
  /\ UNCHANGED server

(* persistAdminKey, then the credential in memory, under adminMu; a write  *)
(* that fails changes nothing.                                             *)
Install(k) == server' = [server EXCEPT !.row = k, !.mem = k]

UninitializedToHolder(call) == server.mem = NoKey \/ Authenticated(call)
Uninitialized(call) == server.mem = NoKey

HandleSetup(c) ==
  /\ calls[c].op = "setup" /\ calls[c].at = "sent"
  /\ \/ /\ Uninitialized(calls[c])
        /\ server' = [server EXCEPT !.row = calls[c].arg, !.mem = calls[c].arg,
                                    !.setups = @ + 1]
        /\ At(c, "yes")
     \/ At(c, "no") /\ UNCHANGED server

HandleRotation(c) ==
  /\ calls[c].op = "rotate"
  /\ \/ /\ calls[c].at = "sent"
        /\ At(c, IF Authenticated(calls[c]) THEN "passed" ELSE "no")
        /\ UNCHANGED server
     \/ /\ calls[c].at = "passed"
        /\ \/ Install(calls[c].arg) /\ At(c, "yes")
           \/ At(c, "no") /\ UNCHANGED server

HandleOther(c) ==
  /\ calls[c].op \in {"refresh", "apply", "act"} /\ calls[c].at = "sent"
  /\ At(c, IF Authenticated(calls[c]) THEN "yes" ELSE "no")
  /\ UNCHANGED server

Serve(c) ==
  /\ Busy(c)
  /\ ReadStatus(c) \/ HandleSetup(c) \/ HandleRotation(c) \/ HandleOther(c)
  /\ UNCHANGED <<tab, loads, settled>>

(* Another operator: a setup, or an authenticated rotation.                *)
Another ==
  /\ \E k \in AdminKeys :
       /\ k # server.mem
       /\ server' = [server EXCEPT !.row = k, !.mem = k,
                       !.setups = IF server.mem = NoKey THEN @ + 1 ELSE @]
  /\ settled' = FALSE
  /\ UNCHANGED <<tab, calls, loads>>

(* A crash and restart of the server: loadAdminKey, and the requests it    *)
(* was working on are lost.                                                *)
Restart ==
  /\ server' = [server EXCEPT !.mem = server.row]
  /\ calls' = [c \in Slots |-> IF Busy(c) /\ calls[c].at = "passed"
                               THEN [calls[c] EXCEPT !.at = "no"] ELSE calls[c]]
  /\ <<server, calls>>' # <<server, calls>>
  /\ UNCHANGED <<tab, loads, settled>>

-----------------------------------------------------------------------------
(* The answers *)

Done(c) == calls' = [calls EXCEPT ![c] = Idle]
ThenRefresh(c, key, opened) ==
  calls' = [calls EXCEPT ![c] = Request("refresh", key, NoKey, opened)]

(* The boot effect goes on with a refresh when there is a key to try; a    *)
(* status that cannot be read leaves the login form as if none were set.   *)
StatusAnswered(c, ok) ==
  /\ calls[c].op = "status"
  /\ IF ok /\ calls[c].at = "yes" /\ tab.key # NoKey
     THEN /\ tab' = [tab EXCEPT !.setup = "yes", !.loading = TRUE]
          /\ ThenRefresh(c, tab.key, FALSE)
     ELSE /\ tab' = [tab EXCEPT !.setup = IF ok THEN calls[c].at ELSE @,
                                !.checking = FALSE]
          /\ Done(c)

SetupAnswered(c, ok) ==
  /\ calls[c].op = "setup"
  /\ IF ok
     THEN /\ tab' = [tab EXCEPT !.setup = "yes", !.key = calls[c].arg]
          /\ ThenRefresh(c, calls[c].arg, FALSE)
     ELSE /\ tab' = [tab EXCEPT !.checking = FALSE, !.loading = FALSE]
          /\ Done(c)

(* A refresh opens the console; one that fails gives the key up, when its  *)
(* closure was made before the console was open.                           *)
GivesUpAnyKey(call) == TRUE
GivesUpKey(call) == ~call.opened
LoadingIfFailed(ok) == ~ok
Loading(ok) == FALSE

RefreshAnswered(c, ok) ==
  /\ calls[c].op = "refresh"
  /\ tab' = [tab EXCEPT !.loading = Loading(ok), !.checking = FALSE,
               !.authorized = @ \/ ok,
               !.key = IF ~ok /\ GivesUpKey(calls[c]) THEN NoKey ELSE @]
  /\ Done(c)

RotationAnswered(c, ok) ==
  /\ calls[c].op = "rotate"
  /\ tab' = [tab EXCEPT !.key = IF ok THEN calls[c].arg ELSE @]
  /\ Done(c)

ApplyAnswered(c) ==
  /\ calls[c].op = "apply"
  /\ tab' = [tab EXCEPT !.loading = FALSE]
  /\ Done(c)

ActAnswered(c, ok) ==
  /\ calls[c].op = "act"
  /\ IF ok THEN /\ tab' = [tab EXCEPT !.loading = TRUE]
                /\ ThenRefresh(c, tab.key, calls[c].opened)
           ELSE UNCHANGED tab /\ Done(c)

Deliver(c, ok) ==
  \/ StatusAnswered(c, ok) \/ SetupAnswered(c, ok) \/ RefreshAnswered(c, ok)
  \/ RotationAnswered(c, ok) \/ ApplyAnswered(c) \/ ActAnswered(c, ok)

Answered(c) == calls[c].op = "status" \/ calls[c].at = "yes"

Answer(c) ==
  /\ Busy(c) /\ calls[c].at \in {"yes", "no"} /\ calls[c].by # "nobody"
  /\ Deliver(c, Answered(c))
  /\ UNCHANGED <<server, loads, settled>>

(* The network gives up, on the way there or on the way back.              *)
Fail(c) ==
  /\ Busy(c) /\ calls[c].at # "passed" /\ calls[c].by # "nobody"
  /\ Deliver(c, FALSE)
  /\ settled' = (settled /\ ~(calls[c].op = "rotate" /\ calls[c].at = "yes"))
  /\ UNCHANGED <<server, loads>>

(* The end of a call that nobody awaits.                                   *)
Forget(c) ==
  /\ Busy(c) /\ calls[c].by = "nobody" /\ calls[c].at # "passed"
  /\ Done(c)
  /\ UNCHANGED <<server, tab, loads, settled>>

-----------------------------------------------------------------------------
Progress(c) == Serve(c) \/ Answer(c) \/ Fail(c) \/ Forget(c)

Next ==
  \/ Load \/ Submit \/ ClickRefresh \/ ApplyFilter \/ Act \/ RotateKey
  \/ LeaveSettings \/ Logout \/ Another \/ Restart
  \/ \E c \in Slots : Progress(c)

(* Every request is answered, or the browser gives it up.                  *)
Spec == Init /\ [][Next]_vars /\ \A c \in Slots : WF_vars(Progress(c))

-----------------------------------------------------------------------------
(* The server's credential, the state of App and its requests have the     *)
(* shapes the code gives them, and the settings page awaits at most one    *)
(* rotation (adminBusy).                                                   *)
TypeOK ==
  /\ server \in [mem : AnyKey, row : AnyKey, setups : Nat]
  /\ tab \in [key : AnyKey, setup : {"unknown", "no", "yes"}, authorized : BOOLEAN,
              checking : BOOLEAN, loading : BOOLEAN]
  /\ calls \in [Slots -> Call \cup {Idle}]
  /\ loads \in 1..MaxLoads /\ settled \in BOOLEAN
  /\ Cardinality({c \in Rotating : calls[c].by = "page"}) <= 1

(* However setups race, restarts included, at most one is ever told that   *)
(* it installed the key (handleAdminSetup).                                *)
OneSetupWins == server.setups <= 1

(* "The current browser switches to the new key by itself" (SettingsPage): *)
(* in an open console with no rotation under way the stored key is the     *)
(* credential in force, unless another operator changed it, an answer of a *)
(* rotation was lost, rotations overlapped, or a logout met a call.        *)
BrowserFollowsRotation ==
  settled /\ InConsole /\ Rotating = {} => tab.key = Credential

(* The tab is never left spinning: the boot check ends, and so does every  *)
(* loading state, whatever fails and however refreshes overlap.            *)
SpinnerEnds ==
  /\ tab.checking ~> ~tab.checking
  /\ tab.loading ~> ~tab.loading
=============================================================================
