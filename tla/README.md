# Verification of SeekOps

SeekOps is a proxy for the DeepSeek API, one Go process with one SQLite file. It
authenticates tenants by virtual keys, enforces their quotas, routes each request to an
upstream account of a pool, fails over once, meters what the answer cost and books it, and
gives an operator a console to manage accounts, keys, prices, alerts, backups and the
master key of the stored credentials.

This directory holds TLA+ models of it, the TLC configurations that check them on small
instances, and theorems about them whose proofs TLAPS checks for every value of the
constants. `PROJECT.json` relates each definition to the lines it models, each property to
the runs that check it, and each hazard of the code to the properties that watch it.

    tlc -workers 2 -config MCPoolAnswers.cfg MCAccountPool # one model-checking run
    tlapm MasterKeyProofs.tla                              # one module of proofs

## 1. The system

All paths are under `src/internal/proxy/` unless they say otherwise.

| component | state | operations | status |
|---|---|---|---|
| account pool: routing, slots, failover (`proxy.go`, `accounts.go`) | the list of account objects (mutex), per account atomics `active` and `blocked`, the request's `requestMeta` | route, reserve, forward, retry, mark, release; create, update, remove, probe | `AccountPool` |
| balance poller (`proxy.go`) | none of its own | polls each enabled account, marks the status it got, evaluates its alerts | part of `AccountPool` and of `Alerts` |
| session affinity (`affinity.go`) | bounded table session -> account id with expiry | `Get`, `Bind`, eviction | `Affinity`; what routing sees of it is in `AccountPool` |
| tenant keys and quotas (`proxy.go` `KeyStore`, `sqlite.go`) | keys, index of secrets by hash, usage windows, active slots, their rows | `Acquire`, `RecordUsage`, `View`, `Release`, create, update, rotate, revoke, load | `KeyQuota` |
| master key, rotation, backup (`secrets.go`, `security.go`, `backup.go`) | keyring in memory and in the key file, encrypted rows, archive | `Encrypt`, rotate, re-encrypt, drop the old keys, backup, start | `MasterKey` |
| recorder and ledger (`proxy.go` `Recorder`, `sqlite.go`) | counters, recent requests, rows of request events, daily metrics | record, load | what is booked for a request is in `AccountPool`; the rest is planned |
| usage collector (`proxy.go`) | the bytes seen of a body, the usage found | write a chunk, finish | planned |
| request preparation (`proxy.go`) | none | rewrites a body, chooses the model and the session seed | its refusal is in `KeyQuota` (`TurnAway`); not modelled further |
| usage analytics (`usage.go`) | none: SQL over the ledger | filters, sums, CSV | planned with the ledger |
| prices (`prices.go`) | rules in memory and in SQLite | seed, create, delete, resolve, cost | planned |
| alerts and webhooks (`alerts.go`) | alerts, silences, error-rate window, thresholds | evaluate, acknowledge, silence, resolve, deliver | `Alerts`, but for the delivery |
| administrator key (`admin_auth.go`) | one hash, in memory and in SQLite; the configured key until one is set | set once, check, rotate, load | `ConsoleSession` |
| console: session (`src/web/src/App.tsx`, `api.ts`, `main.tsx`) | the key in `sessionStorage`; `setup`, `authorized`, `checking`, `loading` of `App` | log in, set up, refresh, rotate, log out, reload | `ConsoleSession` |
| console: pages (`App.tsx`) | copies of the server's lists, the state of each page | refresh, poll, the handlers of the pages | `ConsoleViews`, but for the download of a backup, the rotation of the master key, the filter of the balances and the pages that only show a list |
| console: dialogs (`App.tsx`) | for which key or account a dialog is open, its form | save, rotate, revoke, test, sync, switch | `ConsoleEditors`, but for creations and the deletion of an account |
| audit (`audit.go`) | rows, never read back to decide anything | insert, list | not modelled |
| client configuration (`client_config.go`), metrics text, static files, admin routes | none | formatting and routing of calls | not modelled |
| process start (`src/cmd/proxy/main.go`, `NewServerChecked`) | -- | reads the environment, opens SQLite, loads | in `KeyQuota` (`Restart`) and `MasterKey` (`Start`) |

### How the parts interact

A client request runs in one handler goroutine: `ServeHTTP` calls `authorize` (key store),
prepares the body, calls `routeAccount` (affinity, pool), lets the reverse proxy call
`failoverTransport.RoundTrip` (pool, affinity), then `modifyResponse` or `errorHandler`
(pool), and books the request in `recordMeta` when the body of the answer is closed
(recorder, ledger, prices, key store, alerts). Deferred calls give the account's slot and
the key's slot back. Handlers share the pool (a read-write mutex and two atomics per
account), the key store (one mutex), the affinity table (one mutex), the recorder and the
alerts (a mutex each) and the SQLite connection. Admin calls and the poller run beside
them. The console is one page in a browser: every handler of it runs to its next `await`, and
what it goes on with is what its closure had when it was rendered, or, in the functional
updates, what is there when the answer comes. Nothing in memory survives a crash; what was written to SQLite and to the key file
does.

### Where it is hard, and what makes it correct

* **Account pool.** Looking at the limit and taking the slot are two steps; a failover
  holds two slots and changes the account that the deferred release gives back; an update
  *replaces* the account object under the requests that run on it; answers come in any
  order. Correct: slots are conserved, no object is over its limit, a request is sent at
  most twice and to two different accounts, each outcome is charged once to the account
  that produced it, the ledger tells the truth, every request ends, retired objects drain.
* **Keys and quotas.** The clock is read before the mutex; usage is known only at the end of
  a request; windows turn under it; memory and row can part on a failing write; keys are
  changed under their requests; a restart rebuilds the index. Correct: no request is
  admitted that the true usage leaves no room for, the overshoot is bounded, a revoked key
  stays out, a rotated secret stays dead, a secret authenticates one key.
* **Master key.** A rotation is a sequence of writes to a file and to many rows, any of
  which may fail or be the last before a crash, while admin calls and usage bookings
  encrypt and write rows. Correct: the next start can read every row, and the key file in
  a backup reads the database in it.
* **Session affinity.** The clock is read before the table is locked, so entries are stamped
  in another order than they are used; a full table gives one entry up for another. Correct:
  a session in use keeps its account, an unused one is forgotten, the table is bounded.
* **Alerts.** An evaluation takes a view of an account, then reads the settings, then raises
  or resolves, under three locks; the poller, the console and admin calls do so at the same
  time; the operator decides in between; writes are throttled and may fail; requests reach
  the error window in another order than they read the clock. Correct: the alerts of an
  account end up telling its state, the receiver of the webhook and the rows keep up with
  them, the error rate is that of the window.
* **Console and administrator key.** No request is ever cancelled: not by a logout, nor by
  another page, nor by closing a dialog, and answers come in any order. A refresh that fails
  gives the key up, or does not, by what it saw when it was sent. One flag or one string
  disables the buttons of several requests. A dialog sends to what `App` has it open for, and
  the late answer to an earlier dialog changes that. Accounts are written whole, from a copy.
  Correct: one setup wins, the tab follows its own rotations, nothing spins or stays disabled
  for ever, what is shown is what was told last, a change goes to what the dialog shows and
  changes nothing else.
* **Prices, ledger, collector**: not modelled yet. Hazards for the modules planned: the seed
  of the prices comes back at the next start when the last rule is deleted (`prices.go:119`);
  timestamps lose trailing zeros and are compared as text (`usage.go:118`); a crash between
  the ledger event and the counters of its key (`proxy.go:1857`); a usage field split over two
  reads of the body (`proxy.go:1047`).

## 2. Plan

| order | module | what it settles | state |
|---|---|---|---|
| 1 | `SlotPool`, `AccountPool`, proofs | the core: who runs on which account | done |
| 2 | `KeyQuota`, proofs | who may run, and how much | done |
| 3 | `MasterKey`, proofs | that nothing stored is ever lost to a rotation | done |
| 4 | `SessionTable`, `Affinity`, proofs | that a session in use keeps its account | done |
| 5 | `Alerts`, proofs | that alerts, rows and receiver agree, and that the error window is honest | done, but for the delivery |
| 6 | `ConsoleSession`, proofs | that one setup wins, and that a tab keeps a key that works | done |
| 7 | `ConsoleViews`, `ConsoleEditors`, proofs | that the console shows what it was told, and changes what it shows | done |
| 8 | `UsageLedger` | request event, key row and daily metrics over a crash; order of timestamps as text | next |
| 9 | `Prices` | resolution against a reference definition; seeding over restarts; order of concurrent creations | then |
| 10 | `UsageCollector` | a stream cut anywhere against the whole body | then |

Abstract specifications: `SlotPool` for `AccountPool` and `SessionTable` for `Affinity`
(both stated, checked and proved). `Affinity` and `AccountPool` are not composed: routing may lose a binding at any
time in `AccountPool`, which allows whatever `Affinity` does with it.

## 3. The modules

### AccountPool, SlotPool

| model | code |
|---|---|
| `Objects`, `ident`, `config`, `managed` | `*Account` values, their id and settings, fixed once made |
| `pool` | `Server.accounts` |
| `active`, `blocked` | the two atomics of an account |
| `bound` | `Server.affinities` |
| `pc`, `scan` | the handler's place and the locals of `selectAccount`, `pickAccount`, `poolSaturated` |
| `acct`, `next`, `meta` | `requestMeta.account`, the account that `RoundTrip` reserved second, the other fields |
| `probe` | a balance poll or an API test that waits for the upstream |
| `calls`, `charged` | history: the calls of a request, and the outcomes marked for it |
| `ledger` | the event `recordMeta` books |

One action is what a handler does between two points where another goroutine can be seen:
`PickAccount` copies the pool, each `ScanAccount` reads the atomics of *one* account,
`TryAcquire` / `LoseSlot` take the slot or see that it is gone, `MarkPrevious` and
`SwitchAccount` are the two visible halves of a failover. `tryAcquire` loops over a
compare-and-swap; it is one action since the loop has one effect, at its last iteration.
`SlotPool` says, without counters or scans, what holding a slot means; `AccountPool`
implements it under `holders[o]` = the requests with `acct` or `next` equal to `o`, and
`limit[o]` = the configured one.

Left out: the `fails` counter and balances (shown in the console only); names and URLs; the
empty-API-key test (`normalizeAccountInput` rejects one); the round-robin start of the scan,
which becomes an arbitrary order; admin calls that fail, which change nothing; a client that
hangs up while it reads the answer, which ends in the same `Close`. A request that names
no model, which every account supports (`proxy.go:108`), is left out; so is the early return for
a request that cannot be cloned (`proxy.go:924-927`), which cannot be reached: the `GetBody` set at
`proxy.go:1723` never fails. A request refused before
it is routed is not booked. An outcome without an answer is booked as the 502 it is answered
with. Retry-After, cooldowns and the clock are in ticks, `TPS` of them a second.

### KeyQuota

| model | code |
|---|---|
| `known`, `mem`, `byHash` | `KeyStore.keys` with their windows and active slots, the index by hash |
| `disk` | the rows of `virtual_keys` |
| `req[r].at` | the `now` that `authorize` and `recordMeta` evaluate *before* the call takes the mutex |
| `now` | the wall clock; its minute and day, and the month of Beijing, are functions of it |
| `tally` | history: what the key really did in the minute, day and month that `now` is in |
| `missed` | history: what of that the store need not know of (below) |
| `revoked`, `issued` | history: confirmed revocations; secrets that existed |

Each operation of the store is one action, as each runs under `KeyStore.mu` from its first
read to its write of the row. A write may fail: where the code undoes its change nothing has
happened, so there is no step; `Revoke` and `RecordUsage`, which do not undo exactly, have a
failing branch. `Restart` is crash and start at once, with another `PLATFORM_API_KEY` if the
instance gives several. `tally` is never reset but by the turn of a window. `missed` is what
`QuotaHonoured` excuses, kept apart from it: minute counters have no column and start again at
zero, so at a `Restart` what was done in the minute is missed; and what is done in a window
while somebody may still wait for the mutex who read the clock in the window before is missed
too (`Forgettable`: the first `MaxLag` ticks of a window). Usage that was not recorded before
the crash is lost with the request and not tallied. Left out: names,
prefixes, allow-lists, descriptions. `MinuteLen`, `DayLen`, `MonthLen` are lengths in ticks.

### MasterKey

| model | code |
|---|---|
| `ring`, `file` | the keyring of `SecretCipher`, and the key file |
| `rows` | for each account and virtual key, the master key its ciphertext needs |
| `managed`, `configured` | the accounts of SQLite that are in the pool; the ids of `UPSTREAM_ACCOUNTS_JSON` |
| `writing` | a writer between `Encrypt` and the write of the row |
| `rotation` | where the rotation stands, and the rows still to be written |
| `backup`, `archive` | the copy under way, the last archive |

`accountsMu`, `keys.mu` and `backupMu` are derived from where writers, rotation and backup
stand instead of being variables. The replacement of the key file is atomic (write a temporary
file, rename), and the `chmod` after it may fail, which `RotateFails` allows with either file.
Every write of a row or of the file may fail, and a crash may come between any two steps.
`Start` refuses rows it cannot read, and rewrites every row with the current key. Left out: an
external `SECRETS_MASTER_KEY` (it cannot be rotated), the plaintext rows of versions before
encryption, a key file deleted by hand, and the cipher itself.

### Affinity, SessionTable

| model | code |
|---|---|
| `entries` | `AffinityStore.entries`; `NoEntry` is a key that is not in the map |
| `calls[c].now` | the `time.Now()` of `routeAccount`, or of a failover in `RoundTrip`, read before the table's mutex is taken |
| `calls[c].at` | looking up, about to bind, routed, about to bind again |
| `touched`, `settled` | history: when a session was last found or bound, and to which account |

`Get`, `Bind` and `evictOne` run under the mutex and are one action each (`Bind` includes the
eviction). `evictOne` iterates over a Go map: which expired entry it meets first, or which of
several equally old ones, is arbitrary (`Evicted`). `MaxLag` bounds the ticks between a
`time.Now()` and the mutex. What a lookup leads to -- the account is used, another is bound,
there is none -- is open. Bound and lifetime are positive, as `NewServerChecked` makes them.
`SessionTable` is the same table without clock: a session is bound to what it was bound to
last, or to nothing; it implements it under `binding[s] = entries[s].account`.

### Alerts

| model | code |
|---|---|
| `center.alerts`, `center.rows` | `AlertStore.bySource` with status, severity, `SilencedUntil`, `LastSeenAt`; the rows of `alerts` |
| `center.missed`, `center.told` | history: alerts whose last write failed; what `notifyLocked` handed over last for each |
| `window` | `outcomes`, `outcomeStart`, `outcomeErrors` |
| `recorded` | history: the outcomes this process gave the window, how many events there were when it started, and the latest cutoff |
| `reading` | per account object the balance it shows (`accountView`), per key its usage against its quota, in levels |
| `upstream` | what the balance endpoint would answer |
| `work` | where the poller and each admin or client handler stand: its view, its copy of a setting, its `now` |
| `settings`, `events` | the alert settings; the rows of `usage_events` |

What a view means is abstracted to a level: `fine`, `near` (over one of two thresholds the
operator may choose), `high`, `full`, `unknown` (no answer), `off` (disabled). `Grade` gives
the severity or the recovery that `EvaluateAccount` and `evaluateQuotaValue` derive. Taking
the view (`TakeView`), reading the settings (`ReadSettings`) and raising or resolving
(`Judge`) are steps of their own, one `Judge` for each alert of the subject, so other
evaluations come in between. `List` and `RecordRequest` are one action each: one lock is held
throughout. `NextSubject` is the loop of `PollBalancesOnce` and `refreshAlerts`, whose
accounts come in any order and whose keys are viewed at once by `KeyStore.List`. `Restart`
loads the rows, and the outcomes of the recent events in the order of their times (`Recent`,
`Orders`, `Loaded`; arbitrary within a tick, as the query orders by `created_at` only). An event
is booked with the start of its request and recorded with its end, so `recorded` keeps the two
apart: `given` are the outcomes of the new process alone, and of the events it found `WindowHonest`
asks what a start time can tell.
Left out: the delivery of a notification by its own goroutine, with its last status; wording; a failing write of the settings or of an operator's decision,
which the code undoes; what the recorder and the key store do besides.

### ConsoleSession

| model | code |
|---|---|
| `server.mem`, `server.row` | `Server.adminKey`, the row of `admin_settings` |
| `server.setups` | history: how often `POST /admin/setup` said 201 |
| `tab.key` | `sessionStorage`, the only thing that survives a reload |
| `tab.setup`, `authorized`, `checking`, `loading` | the state of `App` of these names |
| `calls[c]` | a request: the key in its header, the key it installs, `authorized` as its closure had it, how far it is, who awaits it |
| `settled` | history: none of the things has happened after which the stored key may lawfully be wrong |

A handler is cut at its `await`s: what comes before sends a request (`Submit`, `RotateKey`),
what comes after is the action of the answer (`SetupAnswered`, `RotationAnswered`), which may
send the next (`ThenRefresh`). The thirteen reads of a refresh are one request, since the
session asks only whether all of them succeeded. Changes whose handler ends in a refresh are
`Act`. Authentication and installation are two steps of a rotation at the server, as
`adminMu` is released in between (`passed`); setup tests and installs under one lock. The
empty answer of a lost connection (`Fail`) may come before or after the server acted.

### ConsoleViews

| model | code |
|---|---|
| `server` | alerts, alert settings, backup check, price rules: a version, or whether the rule is there |
| `shown` | `alerts`, `alertSettings`, `backup`, `prices`, `usage`, `usageSummary` of `App`; of a rule, how often it is in the list |
| `view`, `draft`, `busy` | the page that is mounted, the draft of `AlertsPage`, the flags of the pages that disable buttons |
| `calls[c]` | a request with the reads still unanswered, what they saw, the `backup` its closure had, whether the page that sent it is still there |
| `told` | history: of an alert, the settings and the backup check the newest version an answer told of, of a rule and the usage what the latest answer said |
| `tangled` | history: the cells whose last news met another request about the same cell |

Each read of a refresh is answered at a moment of its own (`Read`), and all are applied
together (`Promise.all`). `Init` is the open console after its first refresh. Alerts change at
the server when it evaluates them, when settings are saved and when an account is checked or
changed.

A refresh puts back the backup check that its closure had. The button's closure is that of the
page as it is (`Refresh`); a handler that changes an account or a key and then calls `refresh()`
has the closure of the page as it was when the handler began (`App.tsx:271`, `272`, `318`, `332`,
`338`). So `Change` is a request that is about the backup from its click on, and is followed by a
refresh with the same check and the same marks (`NextCall`). Two requests that put back a check do
not disturb each other, as neither has news of it (`Common`).

Of the nine pages the five with handlers or timers are kept. The changes of accounts stand for
those of keys; the page that is opened after the first healthy account (`:339`) is a `Go`; what a
change does to the buttons of its dialog is in `ConsoleEditors`. Left out besides: the rotation of
the master key, whose page shows its answer.

### ConsoleEditors

| model | code |
|---|---|
| `rows` | the copies of keys and accounts in `App` |
| `dialog[d].item`, `copy` | `keyEditor`, `accountTester`, `accountEditor` |
| `dialog[d].form`, `head` | what the form was filled from at mount, and whom the title names (`current` in `KeyModal`) |
| `dialog[d].crossed` | history: the answer to an earlier dialog has come under this one |
| `calls[c].body`, `blank`, `from` | what is written, whether the API key is left blank, and the dialog that sent it |
| `calls[c].based`, `meant` | history: the version of the copy it was made of, and the fields the operator changed |

A record keeps whether it is enabled, its secret, and for an account its models and a version;
names, limits and quotas are written like these. The dialogs cover the page
(`.modal-backdrop`), so that one is open at a time and no row is switched under it.

## 4. Model checking

| run | instance | shows |
|---|---|---|
| `pool_answers` | 2 requests, every status class, 2 models, a body that cannot be replayed, hang-ups, 3 clock values, hints above and below the cap | `TypeOK`, `LedgerTellsTheTruth`, `ChargedOnce` |
| `pool_operator` | 2 requests (one with a session), 1 operator, 3 objects over 2 ids | `SlotConservation`, `NoOverAdmission`, `OneRetryElsewhere`, `MigratesOnFailover` through creation, replacement, disabling, removal and probes |
| `pool_live` | 2 requests (one with a session), 1 operator, 2 objects of one id with one slot each, fair handlers | that `AccountPool` implements `SlotPool`; `EveryRequestEnds`, `RetiredDrains` |
| `key_admin` | 3 requests, 2 keys, 4 secrets, all admin calls, usage writes that fail, one restart with either of two default secrets | `TypeOK`, `KeySlotsConserved`, `OneSecretPerKey`, `RevokedStaysOut`, `RotatedStaysDead` |
| `key_windows` | 2 requests, 2 keys, a limit per minute of requests and tokens, one per day with one slot, one per month, turns of all three windows, clocks read a tick before the mutex, revocations that fail, one crash, 6 clock values | `QuotaHonoured`, `OvershootBounded` |
| `affinity_table` | 3 sessions (symmetric), a table of 2, a lifetime of 3 ticks, 2 callers that may be a tick late | `TypeOK`, `WorkingSetKept`, `ExpiryHonoured`, and that `Affinity` implements `SessionTable` |
| `alert_center` | 1 account, 2 objects of it, the poller and 1 handler, 3 answers of the endpoint, 2 settings, a best-effort write that may fail, 3 clock values (an evaluation ends in the tick in which it read the clock), 2 events | `TypeOK`, `ReceiverKnows`, `RowsFollow`; with fair goroutines `AccountAlertsSettle` |
| `alert_errors` | 1 key, 2 handlers (symmetric), windows of 1 and 2 ticks, compaction at 1, 4 clock values and calls a tick late, 3 events | `WindowHonest` |
| `console_session` | 2 keys and the configured one, 2 requests of the tab, 1 reload, another operator, restarts of the server | `TypeOK`, `OneSetupWins`, `BrowserFollowsRotation`; with requests that end, `SpinnerEnds` |
| `console_views` | 2 alerts, 2 price rules, settings, backup check, usage; 2 requests, 2 actions of the operator (changes that end in a refresh among them), any number of polls, 1 change by others or failed request | `TypeOK`, `ToldIsShown`, `NoFormStuck`; with requests that end and a timer that goes on, `AlertsCatchUp` |
| `console_editors` | the default key and another, 2 accounts (symmetric), 2 requests, 3 actions, 1 change by others or failed request | `TypeOK`, `TargetIsShown`, `OnlyWhatWasMeant` |
| `master_rotate` | 2 accounts, 2 keys, 3 master keys (2 rotations), 2 writers, backups, a crash at any point | `TypeOK`, `Readable`, `BackupRestorable` |

**Disagreements.** Where the code does not do what a document or a comment says, the property
is checked under the condition that makes it true, and the difference is told here. Of the
server:

* an updated account starts with no slot taken while its old object still runs requests, so
  its id runs up to twice its limit (`accounts.go:421`; the comment at `proxy.go:80`);
* a `now` read before a window's turn and used after it moves the window back and zeroes the
  counters of the new one (`proxy.go:497`), so what a key did in the first `MaxLag` ticks of a
  window may be forgotten: without that excuse (`IfUnsettled` always 0) TLC finds
  `QuotaHonoured` violated in `key_windows`;
* requests and tokens per minute are counted since the process started: after a restart a key
  may make as many again in the same minute (`proxy.go:498`, whose counters have no column,
  `sqlite.go:464`; `README.md:142` counts by the minute and refuses for the rest of it). Without
  the excuse (`missed` left alone by `Restart`) TLC finds `QuotaHonoured` violated;
* a row hidden by an account of the environment is not re-encrypted by a rotation, which then
  drops its key (`security.go:81`; `README.md:158`): with `Environments <-
  ShadowingEnvironment` in `MCMasterRotate.cfg` TLC finds `Readable`
  violated;
* a client that hangs up makes the proxy send the request to a second healthy account under
  the same dead context and cool both down (`proxy.go:947`; `docs/PLAN.md:64` retries network
  errors only);
* a success that answers a request sent before a 429 ends the cooldown of that 429
  (`proxy.go:131`; `README.md:138` cools the account down for the Retry-After);
* a balance check that fails leaves no balance, and a low-balance alert is recorded as
  recovered although nothing is known of the balance (`alerts.go:639`; `README.md:132`
  records a recovery when the fault is gone);
* a poll under way while its account is disabled or removed raises the alert again after the
  call resolved it, and no later poll visits the account (`proxy.go:2080`);
* the error rate counts a request when it ends, with the time of its end (`proxy.go:1868`,
  `alerts.go:675`), but after a restart when it started, as its event has the time of its start
  (`proxy.go:1856`, `alerts.go:156`): a long request that ended within the window is forgotten
  by a restart if it started before it, and one that was booked before a crash and not yet
  recorded counts after it. `WindowHonest` holds the two kinds apart;
* a request that took its view of a key before another one exhausted the quota resolves the
  quota alert the other has raised, until the key is evaluated again (`proxy.go:1862`);
* a pool that is full when it is scanned, and has a free slot when `poolSaturated` looks
  again, is reported as "no healthy account" (503) instead of as busy (429)
  (`proxy.go:1491`);
* a 402 is sent again to another account (`proxy.go:954`), which `docs/PLAN.md:64` excludes;
* a cooldown of one second is stored in whole seconds and can be over at once
  (`proxy.go:163`);
* a second revocation of a key whose write fails enables the key (`proxy.go:611`): with
  `"revoke"` among `Failing` in `MCKeyAdmin.cfg`, TLC finds `RevokedStaysOut` violated;
* a usage write that fails, and a crash after it, forget usage that memory had counted
  (`proxy.go:486`): what `key_windows`, which has a crash, leaves out of `Failing`.

Of the console (`App.tsx`):

* the settings page says that the browser switches to a new key by itself (`App.tsx:423`): it
  does not when the answer of the rotation is lost, and the key in `sessionStorage` is then
  one that never works again; when two rotations overlap, because the page was left and
  entered again, it keeps the key whose answer came last;
* a logout does not cancel what is under way: a refresh that succeeds after it opens the
  console again without a key, and a rotation answered after it stores the new key (`App.tsx:142`,
  `:201`);
* when the setup status cannot be read, the form that logs in sets up instead, which the
  server refuses, until a reload (`App.tsx:160`, `:181`);
* the answer to a dialog that was closed opens it again, or changes what the dialog now open
  for another key or account sends to, under a form that shows the other one (`App.tsx:322`,
  `:327`, `:344`): the form of one key is then written to another; and the late answer of an
  account's editor closes the editor that is open for another account (`:337`);
* an account is written whole from a copy, so a switch or a sync undoes what another operator
  changed since the copy was read (`App.tsx:271`, `:342`);
* a refresh puts back the backup check its closure had (`App.tsx:126`, `:150`): over a check that
  was answered while it ran and, when it is called at the end of a handler (`:271`, `:272`, `:318`,
  `:332`, `:338`), over one that was answered while the change before it was pending, which the
  refresh itself never met. `ToldIsShown` excuses both; without the mark of `Change`
  (`cells |-> {}` for its request) TLC finds the second one;
* a new price is shown twice, and a deleted one again, when a refresh
  overlaps (`:306`); an older list of alerts that arrives later undoes a newer row until the next
  poll (`:169`); of two filters of the usage the last one answered is shown (`:294`);
* a dialog that creates a key shows nothing of a creation that failed (`App.tsx:791`), and the
  secret of a creation whose dialog was closed in the next one (`:318`).

**Bounds.** `MaxTime` stops the clock, `Objects` bounds how often the operator may create or
update, `MasterKeys` the rotations, `MaxCrashes` the crashes, `Requests` the concurrent
handlers (reused in `AccountPool`, one-shot in `KeyQuota`), `MaxLag` the wait for a mutex,
`MaxEvents` how often calls, changes of a balance, decisions and crashes happen in `Alerts`.
In the console `MaxCalls` bounds the requests of the tab under way, `MaxLoads` its loads,
`MaxActions` what the operator asks for, `MaxEvents` the changes by others and the requests
that fail; two requests under way are enough for one to overtake the other, or to come to what
the other left. They are large enough to reach every action and every disjunct of the next-state relations,
and each property fails in its run when one definition is changed as a plausible bug would
(`mutants` in `PROJECT.json`): the state the property speaks about is reached.
`AccountPool`, `Affinity` and `MasterKey` have no deadlock to hide and are checked for it.
The `MCKey*` instances serve a fixed number of requests, and the `MCAlert*` instances a
fixed number of events on a pool that may become empty: they do stop and switch that check
off, and so does `MCConsoleEditors`, whose operator may stop when nothing is under way.
Symmetry is used in runs without liveness properties only.

**Fairness.** `pool_live` assumes weak fairness of `Serve(r)`, the next step of a request in
flight. A handler never waits for another: it takes no lock across
a call, every upstream call ends by `REQUEST_TIMEOUT` (10 minutes unless configured), a body
is closed whether the client reads it or goes away, and the scheduler runs every goroutine.
`alert_center` assumes weak fairness of `PollBalancesOnce`, which a ticker starts again for
as long as the process runs (`proxy.go:2051`), and of the next step of each goroutine: a poll
ends within 15 seconds, answered or not. `console_session` and `console_views` assume that each
request makes its next step: the server answers it, or the browser gives it up (`fetch`
rejects), which is `Fail`; and `console_views` that the thirty-second timer goes on, which
only closing the console stops (`App.tsx:168`). Arrivals, the clock, the operator and the affinity
table are under no obligation.

## 5. Proofs

`AccountPoolProofs` proves, for any number of requests, objects, operators and sessions and
any cooldowns:

* `TypeCorrect`: `TypeOK` always holds; a slot counter never becomes negative.
* `SlotsConserved`: a slot counter is the number of requests that hold one of its slots.
* `NeverOverAdmitted`: no object runs more requests than its limit.
* `ImplementsSlotPool`: every behaviour of `AccountPool` is one of `SlotPool`.

`SlotConservation` is not inductive. To count a request once, the two slots of a failover
must be of different objects (`Elsewhere`: of different *ids*, which is what the code
excludes); to give back a slot that is held, the locals of a handler must agree with its
location (`Placement`); a new object must be held by nobody, so whatever a request refers to
is allocated (`Allocated`). `IInv` is the conjunction of these with `TypeOK`, and `TypeOK`
needs `SlotConservation` in turn: `active[o] - 1` is a natural number because somebody holds
the slot. Steps of handlers are treated once for a single request (`Handles`) with a frame
lemma for the others, and admin calls, clock and table together (`Outside`).
Assumed: `PoolAssumption`, which the constants of a run must meet and TLC evaluates.

On top of `IInv`, and under no further assumption:

* `ChargedToItsAccount`: `ChargedOnce` always holds.
* `LedgerTrue`: `LedgerTellsTheTruth` always holds.
* `RetriedOnceElsewhere`: `OneRetryElsewhere` always holds.
* `SessionMigrates`: `MigratesOnFailover` always holds.

These are about the history of a request, and the ledger reads `requestMeta`. `Story` says for
each place of a handler what the history is there: nothing before an account is reserved
(`Untold`), a first call (`Attempt`), a call that came back and is being left for another
account (`Leaving`), a second call after one whose outcome allows it (`Prior`); and which of
its outcomes is charged already. It ties `meta` and `acct` to the history, so that what is
marked and booked is what happened. `SessionMigrates` adds `Follows`: while a session's only
request makes its second call, its binding is to the account of that call or to nothing, since
nobody else binds that session (`Alone`).

`MasterKeyProofs` proves, for any number of accounts, keys, writers, rotations and crashes:

* `CredentialsReadable`: `Readable` always holds;
* `ArchivesRestorable`: `BackupRestorable` always holds;
* `TypeCorrect`: `TypeOK` always holds;

the first two under `NoShadowing`: no environment configures an id that SQLite holds. The
hypothesis is needed: section 4 tells what happens without it. `Readable` alone is not inductive
for two reasons. What is about to be written must be readable as well (`WritersReadable`).
And dropping the old keys is safe only because, when the rotation comes to it, each row has
the current key, and so has whatever is about to be written: `RotationAdvances` says so row
by row for the stages a rotation has passed, `RotationRuns` that no writer of a class of rows
is under way while that class is rewritten, `PoolComplete` that the pool lists all the
accounts there are, `FileCovers` that the file reads what memory reads.

`AffinityProofs` proves, for any number of sessions, accounts and callers, any bound, any
lifetime and any lag:

* `StaysWithItsAccount`: `WorkingSetKept` always holds;
* `ImplementsSessionTable`: every behaviour of `Affinity` is one of `SessionTable`;
* `TypeCorrect`: `TypeOK` always holds;
* `RoutedAfresh`: `ExpiryHonoured` holds of every step.

`WorkingSetKept` is about the history, an eviction about the stamps in the table: `Stamped`
ties the two together up to the lag, `Punctual` says that no caller is later than that, and
`Bounded` that a full table holds exactly `MaxEntries`. The least recently used session of a
full table is then outside of the working set, since all the others and the newcomer were
used since (`EvictedIsUnused`), and an expired one was not used within its lifetime
(`ExpiredIsUnused`).

`KeyQuotaProofs` proves, for any number of requests, keys, secrets and crashes, any quotas and
any lengths of the windows:

* `TypeCorrect`, `SlotsConserved`, `SecretsAgree`: `TypeOK`, `KeySlotsConserved` and
  `OneSecretPerKey` always hold;
* `RotatedOutForever`: `RotatedStaysDead` holds of every step;
* `RevokedForever`: `RevokedStaysOut` always holds, if no write of a revocation fails
  (`"revoke" \notin Failing`);
* `UsageWithinQuota`: `QuotaHonoured` holds of every step, if usage is written (`"usage" \notin
  Failing`), whatever the lag and the crashes;
* `OvershootOfSlots`: `OvershootBounded` always holds, if moreover no quota is updated
  (`"update" \notin Admin`) and there is a most that a request may use (`Priced`).

The first four suppose nothing but `QuotaAssumption`. `IInv` ties the type of the slot counters
to their meaning, as in the pool (`Placed`), and `Index` says of secrets what the index alone
does not: each was issued, those of tenants are never values of `PLATFORM_API_KEY`, and a key
that does not exist is blank. The hypotheses of the others are disagreements of section 4:
a revocation whose write fails may enable the key; usage that was not written is forgotten in a
crash. `QuotaHonoured` compares the counters of the key with what it really did (`tally`) less
what is excused (`missed`): `Honest` says that every key and every row has counted at least that,
in the windows the clock is in, and is not ahead of the clock; `Prompt` that whoever waits for
the mutex read the clock at most `MaxLag` ticks ago; and `Young` that nothing is due of a window
as long as somebody may wait who read the clock before it. A stale reading can turn a window back
only then, when there is nothing due to forget. The overshoot is bounded by counting ahead: what was used
today and the most that each request in flight may still use stay below the limit and the most
for each slot (`Within`); an update while requests are in flight could raise the slots, or lower
the limit, under that sum.

`AlertsProofs` proves, for any number of accounts, keys and goroutines, any settings and
silences, any best-effort writes that fail, any lag and any restarts:

* `TypeCorrect`: `TypeOK` always holds;
* `ReceiverKnowsAlways`: `ReceiverKnows` always holds;
* `RowsFollowAlways`: `RowsFollow` always holds;
* `WindowIsHonest`: `WindowHonest` always holds.

`ReceiverKnows` speaks of the alert in memory, and a crash puts the row in its place. So
`Coherent` says of each alert that its row is the same but for its severity, which a row may
have higher, and that the receiver has heard of the row too, both unless a write of it was
missed; and that only a silenced alert has an end of silence. `Known` adds what the goroutines
hold. The window is a list that is cut at its front and compacted: `TellsTrue` says that it holds as many
outcomes of each tick and kind as are expected since the latest cutoff (`Held`), none that had
left the window when the last cut was made but for the lag (`NotPast`), and that they are in
order but for the lag (`InOrder`), which is what makes cutting at the front enough; `Timed`
bounds how late a goroutine is. `Expected` adds up what the window should hold, the outcomes of
this process by their ends and the loaded ones by their starts, and `RecordedOK` says that the
loaded events are the first ones of the ledger, which only grows. The lemmas about counting in a list (`Count`) carry it through
appending, cutting, compacting and loading. Assumed: `AlertsAssumption`; a subject of quota
alerts has at least one kind of quota.

`ConsoleEditorsProofs` proves, for any keys and accounts, any number of requests, actions,
changes by others and failures:

* `TypeCorrect`: `TypeOK` always holds;
* `TargetIsAlwaysShown`: `TargetIsShown` always holds;
* `NothingElseIsWritten`: `OnlyWhatWasMeant` holds of every step.

`OnlyWhatWasMeant` is about the step that writes, but what is written was decided when the
dialog was opened. `Copies`, `DialogsOK` and `CallsOK` follow a copy from the server to the list,
to the dialog, into the request: wherever it is, it is no newer than the account, and tells the
same of it when it is as new (`Faithful`); a request that was made of it differs from it in what
the operator changed only (`Agrees`). A request of an open dialog is about the item of that
dialog, unless an answer has crossed it (`Aimed`), and a disabled dialog is awaited (`Awaited`).

`ConsoleViewsProofs` proves, for any alerts, rules and queries, any number of requests, actions,
changes by others and failures:

* `TypeCorrect`: `TypeOK` always holds;
* `ToldIsAlwaysShown`: `ToldIsShown` always holds;
* `NoFormIsStuck`: `NoFormStuck` always holds.

A refresh puts back the backup check its closure had, and a created price is added to the list
as it is when the answer comes: the one is right because nobody else was told of the check
meanwhile, the other because nobody else added the rule. `Marked` says that two requests about
the same thing are both marked so, but for two that put back a check, and `CurrentAll` that for
an unmarked one the check is still what its handler had when it began, and the rule still
missing; a mark goes from a change to the refresh that follows it. That what is shown is not
only the last news but the newest ever needs `FreshAll`: what a request has read is not older
than what the console was told, unless by a marked one, and nothing is newer than the server.
`Held` and `LoadingOK` say which request waits for
each disabled button. Assumed: `EditorsAssumption` and `ViewsAssumption`, that the names of
things are distinct.

`ConsoleSessionProofs` proves, for any keys, any number of requests under way and any number
of reloads:

* `TypeCorrect`: `TypeOK` always holds; the settings page never awaits two rotations.
* `OneSetup`: `OneSetupWins` always holds.
* `FollowsRotation`: `BrowserFollowsRotation` always holds.

`OneSetupWins` needs that no credential means no setup yet (`Initialized`), which needs that
nobody installs an empty key (`Installing`) and that a restart reads back what is in memory.
`BrowserFollowsRotation` is about the open console, but what makes it true begins before it is
open and depends on what is under way. Before the console opens, a settled session has one
request at a time, and a refresh that was accepted was accepted with the key that is stored
(`BeforeConsole`). In the console every refresh was sent by a closure that saw the console
open, so a failure does not give the key up, and at most one rotation is under way; the stored
key is the credential until the server installs the new one, and the new one is from then on
(`AtWork`). A reload leaves behind writes that nobody awaits, and a session that has some is
not settled (`Attended`). The steps of the server are treated by whether the credential stays
(`StayingKeeps`) or changes (`InstallingKeeps`), the answers by whether a refresh follows
(`ThenRefreshKeeps`) or not (`DoneKeeps`). Assumed: `SessionAssumption`, that no key is the
empty string.

Every invariant and every action property that a run checks is the subject of a theorem.
Only model-checked are the five liveness properties: `EveryRequestEnds`, `RetiredDrains`,
`AccountAlertsSettle`, `SpinnerEnds` and `AlertsCatchUp`. The prover has no rule here for
weak fairness, which needs `ENABLED`.

## 6. Not modelled

Formatting, HTTP parsing, audit rows and metrics text, since nothing decides on them; of the
console the layout, the pages that only show a list, creation dialogs, downloads, and React's
own scheduling (an answer is applied in one step, as React batches the updates of one
callback); the contents of bodies, as `request preparation` is a function of one body; SQLite
itself, whose single statements are atomic and durable once they return; the clock going
backwards. Components marked planned above are listed in `PROJECT.json` with their hazards.
