--------------------------- MODULE ConsoleEditors ---------------------------
(***************************************************************************)
(* The dialogs of the console that change one tenant key or one upstream   *)
(* account (App.tsx): KeyModal, AccountTestModal, AccountModal, and the    *)
(* switch in the rows of the accounts.                                     *)
(*                                                                         *)
(* App keeps which item a dialog is open for, with a copy of it, and sends *)
(* the requests; the dialog fills a form of its own from that item once,   *)
(* when it is mounted.  A dialog may be closed while its request is under  *)
(* way; the answer still goes to App, which may then have the dialog open  *)
(* for another item.  An account is written whole, from the copy the       *)
(* console has of it.                                                      *)
(***************************************************************************)
EXTENDS Naturals, FiniteSets

CONSTANTS
  Keys, Default,   \* tenant keys; vk-default among them
  Accounts,        \* managed upstream accounts
  MaxCalls,        \* bound: requests under way at one time
  MaxActions,      \* bound: changes and tests the operator asks for
  MaxEvents,       \* bound: changes by others, and requests that fail
  None

Dialogs == {"key", "tester", "account"}

ASSUME EditorsAssumption ==
  /\ Default \in Keys /\ Keys \cap Accounts = {}
  /\ None \notin Keys \cup Accounts \cup Dialogs
  /\ {MaxCalls, MaxActions, MaxEvents} \subseteq Nat

Slots == 1..MaxCalls
Items == Keys \cup Accounts
Models == {"all", "listed"}   \* no restriction, or what the upstream lists

(* What the server has; version counts the writes of an account.           *)
KeyRecord == [on : BOOLEAN, secret : Nat]
AccountRecord == [on : BOOLEAN, models : Models, secret : Nat, version : Nat]
Fields == {"on", "models", "secret"}

VARIABLES
  server,   \* item -> its record
  rows,     \* item -> the copy of it that the console lists
  dialog,   \* the three dialogs
  loading,  \* the refresh button
  calls,    \* requests under way
  left      \* bound: what may still happen

vars == <<server, rows, dialog, loading, calls, left>>

(* item, copy: what App has the dialog open for; form: what the form was   *)
(* filled with (tester: whose models were listed); head: the item in its   *)
(* title; crossed, history: an answer to a dialog closed before has come   *)
(* since this one was mounted.                                             *)
Closed ==
  [item |-> None, copy |-> None, form |-> None, head |-> None, busy |-> FALSE,
   synced |-> FALSE, crossed |-> FALSE]
Open(d) == dialog[d].item # None
Mounted(d, x, copy) ==
  [Closed EXCEPT !.item = x, !.copy = copy, !.head = x,
                 !.form = IF d = "tester" THEN None ELSE x]

(* body: the record to write, blank: whether its API key is left blank;    *)
(* based, meant, history: the version of the copy it was made of, and the  *)
(* fields the operator changed; from, mounted: the dialog that sent it,    *)
(* and whether it is still the same.                                       *)
Idle == [op |-> "idle"]
Sending(op, x, body, from) ==
  [op |-> op, item |-> x, body |-> body, blank |-> TRUE, based |-> 0, meant |-> {},
   from |-> from, mounted |-> TRUE, at |-> "sent", saw |-> None]
Busy(c) == calls[c].op # "idle"
Free(c) == ~Busy(c) /\ \A d \in Slots : d < c => Busy(d)
Send(call) == \E c \in Slots : Free(c) /\ calls' = [calls EXCEPT ![c] = call]

Init ==
  /\ server = [x \in Items |->
       IF x \in Keys THEN [on |-> TRUE, secret |-> 0]
       ELSE [on |-> TRUE, models |-> "all", secret |-> 0, version |-> 0]]
  /\ rows = server
  /\ dialog = [d \in Dialogs |-> Closed]
  /\ loading = FALSE
  /\ calls = [c \in Slots |-> Idle]
  /\ left = [actions |-> MaxActions, events |-> MaxEvents]

Spend(what) == left[what] > 0 /\ left' = [left EXCEPT ![what] = @ - 1]

-----------------------------------------------------------------------------
(* The operator *)

(* A dialog covers the page: nothing else can be opened or switched.       *)
AlwaysUncovered == TRUE
Uncovered == \A d \in Dialogs : ~Open(d)

OpenDialog ==
  /\ Uncovered /\ left.actions > 0
  /\ \E d \in Dialogs : \E x \in IF d = "key" THEN Keys ELSE Accounts :
       /\ d = "tester" => rows[x].on
       /\ dialog' = [dialog EXCEPT ![d] = Mounted(d, x, rows[x])]
  /\ UNCHANGED <<server, rows, loading, calls, left>>

Unmounted(d) == [c \in Slots |->
  IF Busy(c) /\ calls[c].from = d THEN [calls[c] EXCEPT !.mounted = FALSE]
                                  ELSE calls[c]]

CloseDialog ==
  /\ \E d \in Dialogs :
       /\ Open(d)
       /\ dialog' = [dialog EXCEPT ![d] = Closed]
       /\ calls' = Unmounted(d)
  /\ UNCHANGED <<server, rows, loading, left>>

Asks(d) ==
  /\ Spend("actions")
  /\ Open(d) /\ ~dialog[d].busy
  /\ dialog' = [dialog EXCEPT ![d].busy = TRUE]
  /\ UNCHANGED <<server, rows, loading>>

(* KeyModal: the form goes to the key App has the dialog open for; the     *)
(* buttons of the default key are not shown.                               *)
SaveKey ==
  /\ Asks("key")
  /\ \E on \in BOOLEAN :
       Send(Sending("save", dialog["key"].item,
                    [on |-> on \/ dialog["key"].head = Default], "key"))
RotateKey ==
  /\ Asks("key") /\ dialog["key"].head # Default
  /\ Send(Sending("rotate", dialog["key"].item, None, "key"))
RevokeKey ==
  /\ Asks("key") /\ dialog["key"].head # Default
  /\ Send(Sending("revoke", dialog["key"].item, None, "key"))

(* An account is written whole, its API key left blank: accountPayload of  *)
(* a copy, with what the operator changed.                                 *)
Changed(copy, changes) ==
  [f \in DOMAIN copy |-> IF f \in DOMAIN changes THEN changes[f] ELSE copy[f]]
EnabledPayload(x, copy, changes, from) ==
  [Sending("put", x, Changed([copy EXCEPT !.on = TRUE], changes), from) EXCEPT
     !.based = copy.version, !.meant = DOMAIN changes]
AccountPayload(x, copy, changes, from) ==
  [Sending("put", x, Changed(copy, changes), from) EXCEPT
     !.based = copy.version, !.meant = DOMAIN changes]

RunTest ==
  /\ Spend("actions")
  /\ Open("tester") /\ ~dialog["tester"].busy
  /\ dialog' = [dialog EXCEPT !["tester"].busy = TRUE, !["tester"].form = None,
                              !["tester"].synced = FALSE]
  /\ Send(Sending("test", dialog["tester"].item, None, "tester"))
  /\ UNCHANGED <<server, rows, loading>>

SyncModels ==
  LET tester == dialog["tester"] IN
    /\ tester.form # None /\ ~tester.synced
    /\ Asks("tester")
    /\ Send(AccountPayload(tester.item, tester.copy,
              [f \in {"models"} |-> "listed"], "tester"))

(* AccountModal: any fields, and a new API key when one is typed.          *)
SaveAccount ==
  LET editor == dialog["account"] IN
    /\ Asks("account")
    /\ \E meant \in SUBSET Fields : \E on \in BOOLEAN, m \in Models :
         /\ "on" \in meant <=> on # editor.copy.on
         /\ "models" \in meant <=> m # editor.copy.models
         /\ LET changes == [f \in meant \ {"secret"} |-> IF f = "on" THEN on ELSE m]
            IN Send([AccountPayload(editor.item, editor.copy, changes, "account")
                      EXCEPT !.blank = "secret" \notin meant, !.meant = meant])

(* The switch of a row, which nothing disables.                            *)
Toggle(a) ==
  /\ Uncovered /\ Spend("actions")
  /\ Send(AccountPayload(a, rows[a], [f \in {"on"} |-> ~rows[a].on], None))
  /\ UNCHANGED <<server, rows, dialog, loading>>

Reading == Sending("refresh", None, None, None)
Refresh ==
  /\ Uncovered /\ ~loading /\ Spend("actions")
  /\ loading' = TRUE /\ Send(Reading)
  /\ UNCHANGED <<server, rows, dialog>>

Operator ==
  \/ OpenDialog \/ CloseDialog \/ SaveKey \/ RotateKey \/ RevokeKey
  \/ RunTest \/ SyncModels \/ SaveAccount \/ Refresh
  \/ \E a \in Accounts : Toggle(a)

-----------------------------------------------------------------------------
(* The server *)

(* Another operator writes an account.                                     *)
Elsewhere ==
  /\ Spend("events")
  /\ \E a \in Accounts :
       \/ server' = [server EXCEPT ![a].on = ~@, ![a].version = @ + 1]
       \/ \E m \in Models \ {server[a].models} :
            server' = [server EXCEPT ![a].models = m, ![a].version = @ + 1]
  /\ UNCHANGED <<rows, dialog, loading, calls>>

(* normalizeAccountInput: a blank API key keeps the one there is.          *)
SecretOf(call) == IF call.blank THEN server[call.item].secret
                                ELSE server[call.item].secret + 1

Written(call) ==
  CASE call.op = "save"   -> [server[call.item] EXCEPT
                                !.on = call.body.on \/ call.item = Default]
    [] call.op = "rotate" -> [on |-> TRUE, secret |-> server[call.item].secret + 1]
    [] call.op = "revoke" -> [server[call.item] EXCEPT !.on = FALSE]
    [] call.op = "put"    -> [call.body EXCEPT !.secret = SecretOf(call),
                                !.version = server[call.item].version + 1]

Writes(c) ==
  /\ calls[c].op \in {"save", "rotate", "revoke", "put"} /\ calls[c].at = "sent"
  /\ calls[c].op \in {"rotate", "revoke"} => calls[c].item # Default
  /\ server' = [server EXCEPT ![calls[c].item] = Written(calls[c])]
  /\ calls' = [calls EXCEPT ![c].at = "done", ![c].saw = Written(calls[c])]

Tests(c) ==
  /\ calls[c].op = "test" /\ calls[c].at = "sent"
  /\ calls' = [calls EXCEPT ![c].at = "done"]
  /\ UNCHANGED server

(* The lists of a refresh, taken at one moment: nothing relates two items. *)
Reads(c) ==
  /\ calls[c].op = "refresh" /\ calls[c].at = "sent"
  /\ calls' = [calls EXCEPT ![c].at = "done", ![c].saw = server]
  /\ UNCHANGED server

Serve(c) ==
  /\ Busy(c)
  /\ Writes(c) \/ Tests(c) \/ Reads(c)
  /\ UNCHANGED <<rows, dialog, loading, left>>

-----------------------------------------------------------------------------
(* The answers *)

Released(d) == [dialog EXCEPT ![d].busy = FALSE]
Release(call) == IF call.from # None /\ call.mounted THEN Released(call.from)
                                                     ELSE dialog

(* setKeyEditor, setAccountTester: a dialog that is closed opens for the   *)
(* item; one that is open keeps its form.                                  *)
Retarget(d, call) ==
  IF ~Open(d) THEN [dialog EXCEPT ![d] = Mounted(d, call.item, call.saw)]
  ELSE [Release(call) EXCEPT ![d].item = call.item, ![d].copy = call.saw,
          ![d].crossed = @ \/ ~call.mounted,
          ![d].synced = @ \/ (d = "tester" /\ call.mounted),
          ![d].head = IF d = "tester" \/ call.mounted THEN call.item ELSE @]

Finish(c) == calls' = [calls EXCEPT ![c] = Idle]

(* A dialog that App closes is gone, with whatever it was open for.        *)
ThenRefresh(c, d) ==
  /\ calls' = [(IF d = None THEN calls ELSE Unmounted(d)) EXCEPT ![c] = Reading]
  /\ loading' = TRUE
StaysOpen(call) == dialog
CloseOf(call) == IF call.from = None THEN dialog
                 ELSE [dialog EXCEPT ![call.from] = Closed]

KeyAnswered(c) ==
  /\ calls[c].op \in {"save", "rotate"}
  /\ rows' = [rows EXCEPT ![calls[c].item] = calls[c].saw]
  /\ dialog' = Retarget("key", calls[c])
  /\ Finish(c) /\ UNCHANGED loading

SyncAnswered(c) ==
  /\ calls[c].op = "put" /\ calls[c].from = "tester"
  /\ rows' = [rows EXCEPT ![calls[c].item] = calls[c].saw]
  /\ dialog' = Retarget("tester", calls[c])
  /\ Finish(c) /\ UNCHANGED loading

(* onRevoke, AccountModal's onSave and onToggle.                           *)
ChangeAnswered(c) ==
  /\ \/ calls[c].op = "revoke"
     \/ calls[c].op = "put" /\ calls[c].from # "tester"
  /\ dialog' = CloseOf(calls[c])
  /\ ThenRefresh(c, calls[c].from)
  /\ UNCHANGED rows

TestAnswered(c) ==
  /\ calls[c].op = "test"
  /\ dialog' = IF calls[c].mounted
               THEN [Released("tester") EXCEPT !["tester"].form = calls[c].item]
               ELSE dialog
  /\ Finish(c) /\ UNCHANGED <<rows, loading>>

RefreshAnswered(c) ==
  /\ calls[c].op = "refresh"
  /\ rows' = calls[c].saw /\ loading' = FALSE
  /\ Finish(c) /\ UNCHANGED dialog

Answer(c) ==
  /\ Busy(c) /\ calls[c].at = "done"
  /\ \/ KeyAnswered(c) \/ SyncAnswered(c) \/ ChangeAnswered(c)
     \/ TestAnswered(c) \/ RefreshAnswered(c)
  /\ UNCHANGED <<server, left>>

GiveUp(c) ==
  /\ dialog' = Release(calls[c])
  /\ loading' = (loading /\ calls[c].op # "refresh")
  /\ Finish(c)
  /\ UNCHANGED <<server, rows>>

Fail(c) == Busy(c) /\ Spend("events") /\ GiveUp(c)

(* The default key is neither rotated nor revoked.                         *)
Refuse(c) ==
  /\ Busy(c) /\ calls[c].op \in {"rotate", "revoke"} /\ calls[c].item = Default
  /\ GiveUp(c) /\ UNCHANGED left

-----------------------------------------------------------------------------
Next ==
  \/ Operator \/ Elsewhere
  \/ \E c \in Slots : Serve(c) \/ Answer(c) \/ Fail(c) \/ Refuse(c)

Spec == Init /\ [][Next]_vars

-----------------------------------------------------------------------------
(* The records, the dialogs and the requests have the shapes the code      *)
(* gives them, and a dialog whose buttons are disabled is waited for by a  *)
(* request of its own, so that it never stays disabled.                    *)
TypeOK ==
  /\ \A k \in Keys : {server[k], rows[k]} \subseteq KeyRecord
  /\ \A a \in Accounts : {server[a], rows[a]} \subseteq AccountRecord
  /\ loading \in BOOLEAN
  /\ \A d \in Dialogs :
       /\ {dialog[d].item, dialog[d].form, dialog[d].head} \subseteq Items \cup {None}
       /\ dialog[d].busy =>
            \E c \in Slots : Busy(c) /\ calls[c].from = d /\ calls[c].mounted

(* A dialog sends its requests to the item whose form, or whose models, it *)
(* shows, unless an answer to a dialog closed before came meanwhile.       *)
TargetIsShown ==
  \A d \in Dialogs : Open(d) /\ ~dialog[d].crossed =>
    /\ dialog[d].form \in {dialog[d].item, None}
    /\ dialog[d].head = dialog[d].item

(* Though an account is written whole, a switch, a sync of its models and  *)
(* an edit change nothing of it but what the operator changed, when the    *)
(* copy they are made of is the latest; and its API key never changes when *)
(* none was typed (accountPayload, normalizeAccountInput).                 *)
OnlyWhatWasMeant ==
  [][\A c \in Slots : Busy(c) /\ calls[c].op = "put" /\ Writes(c) =>
       LET call == calls[c] IN
         \A f \in Fields \ call.meant :
           call.based = server[call.item].version \/ f = "secret" =>
             server'[call.item][f] = server[call.item][f]]_vars
=============================================================================
