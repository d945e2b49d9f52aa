# A TLA+ development of the mihomo control plane

The program is one Go process with an SQLite database and a React client. It
keeps a *draft* of a mihomo configuration (tables, or a raw text), publishes it
to the file of a running mihomo, and around that manages subscriptions, counts
traffic against quotas and scores every node's egress through isolated mihomo
instances. This directory models the parts of it where several actors share
state, and the web client's pages where requests overlap, checks them with TLC
and proves with TLAPS, for every value of the constants, every safety invariant
that the runs check; the liveness properties stay with TLC.

Paths below are relative to `internal/` unless they start with `web/` or `cmd/`.

## Files

| file | what it is |
|---|---|
| `NodeScoring.tla` | the durable score queue, statement by statement |
| `ProbeLease.tla` | what the queue promises about probes, abstractly |
| `NodeScoringProofs.tla` | theorems about the queue |
| `MCNodeScoring.tla`, `scoring_*.cfg` | its instances for TLC |
| `Publish.tla` | publish, rollback, discard, import and the editors |
| `AtomicPublish.tla` | what publishing promises to one administrator |
| `PublishProofs.tla` | theorems about publishing |
| `RunningProofs.tla` | theorem that what runs is the latest success |
| `MCPublish.tla`, `publish_*.cfg` | its instances for TLC |
| `Subscriptions.tla` | the server's subscriptions, mutations under the lock and refreshes outside it |
| `SubscriptionsProofs.tla` | theorems about them |
| `SubscriptionForm.tla`, `SubscriptionsPage.tla` | the form and the page over that server |
| `SubscriptionsPageProofs.tla` | theorems about the page over the server |
| `MCSubscriptions.tla`, `web_subscriptions.cfg` | their instance for TLC |
| `Traffic.tla` | polling, flushing, quota alerts, traffic providers |
| `TrafficProofs.tla` | theorems about them |
| `TrafficPage.tla` | the traffic page over that service |
| `CrudPage.tla` | what the four inventory pages share: list, form and confirm dialogs, the server's rows |
| `ProxiesPage.tla`, `GroupsPage.tla`, `RulesPage.tla`, `RuleProvidersPage.tla` | what each of them adds |
| `NodeInventory.tla` | the proxies page's merged table, a pure function |
| `WebInventory.tla`, `MCWebInventory.tla`, `web_inventory.cfg` | the inventory pages and the traffic page together, and the instance |
| `WebInventoryProofs.tla` | theorems about them, and that the traffic page runs the service of `Traffic` |
| `ItemForms.tla` | the dialogs that edit proxies, groups, rules and rule providers |
| `SettingsPages.tla` | settings, users, raw configuration editor, system configuration |
| `PublishPage.tla` | the publish page, the header's poll, the draft store |
| `Session.tla` | login, logout, the 401 hook, other tabs |
| `WebConsole.tla`, `MCWebConsole.tla`, `web_console.cfg`, `web_settings.cfg` | these four together, and the instances |
| `WebConsoleProofs.tla` | theorems about these four |
| `PROJECT.json` | components, runs, mutants, map to the source, findings, hazards, theorems |

`tlc -config <run>.cfg <module>` repeats a run (the modules are the `MC…`
ones); `tlapm <X>Proofs.tla` repeats the proofs of a module.

## Inventory

For each component: its state, its operations, whom it meets, what is hard, and
what makes it correct.

**Node scoring queue** (`service/scoring_service.go`, `store/node_score_store.go`,
`handler/scores.go`). State: the table `node_scores`, which is both result list
and queue (status, fingerprint, `next_due`, `manual_request`), the cooldown, the
provider cache and its generation. Operations: startup recovery, inventory scan,
dispatch, one probe, enqueue and removal of a proxy, manual refresh. Handlers,
`go` statements, the scheduler and the probes write the same rows without a lock
across two statements; the process can restart at any point. Correct: one probe
per node, `testing` never orphaned, the queue converges on the inventory, a
disabled subscription is quiet and starves nobody, requests are served.

**Publishing** (`service/publish_service.go`, `handler/publish.go`,
`handler/import_handler.go`, `service/import_service.go`,
`service/config_service.go`, `service/config_file.go`, `store/publish_store.go`,
`store/config_store.go`). State: the draft, the file, what mihomo runs, the
publish history. Operations: publish, rollback, discard, import, edits of tables,
system configuration and raw draft. Hard: no lock orders requests; the write, the
reload, the restore and the record are separate; mihomo restarts by itself.
Correct: only checked renderings are published; after the last request the latest
success runs; a failure leaves no trace but its record.

**Vendor scoring and egress-IP cache** (`scoring_service.go` 784-907,
`service/netcoffee.go`). State: cached scores per egress IP, flights in progress.
Hard: one fetch per IP and set of sources at a time, waiters share the leader's
result and error, a 429 of the second vendor, partial answers. Correct: a cached
entry has all sources it is used for; no 429 is swallowed.

**Isolated probe** (`service/egress.go`). State: a temporary directory, a port, a
child process. Hard: the port is free only when picked, the child can die, every
exit must clean up. Correct: what is measured is the node under test.

**Structural validation** (`service/validator.go`). Pure: names, targets, group
cycles. Correct: a cycle is reported exactly when there is one.

**Subscriptions** (`service/subscription_service.go`,
`store/subscription_store.go`, `service/vendor_fetch.go`,
`service/proxy_provider_view.go`). State: subscription rows, the provider entries
inside the draft, usage snapshots. Operations: create, update, delete, refresh,
list. Hard: slow fetches race edits; `mutateMu` orders subscriptions but not the
other writers of the draft. Correct: a snapshot belongs to the URL and provider
it was fetched from; unknown usage is never shown as zero; row and draft agree.

**Traffic and alerts** (`service/traffic_service.go`, `store/traffic_store.go`,
`service/notify_service.go`). State: baselines of live connections, pending
counters, hourly rows, alerts. Hard: counter resets, failed flushes, shutdown.
Correct: a byte is counted once; an alert fires once per cycle and threshold.

**Billing cycle** (`service/cycle.go`). Pure calendar arithmetic with clamping,
time zones and daylight saving. Correct: `now` lies in the cycle it gives.

**Inventory CRUD** (`handler/{proxy,proxy_group,rule,rule_provider}.go` and
stores). Hard: names are references, and read-then-write of group rows. Correct:
no edit of one entity loses another one's or leaves a dangling reference.

**Authentication** (`service/auth_service.go`, `handler/auth.go`,
`middleware/auth.go`): first-user bootstrap, roles inside tokens. **Settings**
(`handler/settings.go`): merge-puts. **Native precheck**: one stateless request.
**Store and migrations** (`store/db.go`, `store/migrations.go`): versioned
statements around a crash. **Runtime proxying** (`handler/runtime.go`,
`service/mihomo_client.go`): pass-through. **Server and process**
(`server/server.go`, `cmd/mihomo-cp/main.go`): wiring, shutdown. 
**Web: inventory pages** (`web/src/pages/{proxies,proxy-groups,rules,rule-providers}.tsx`,
`components/{proxies,proxy-groups,rules}`, `lib/node-inventory.ts`). State: the
list as last fetched, filters, a form dialog, a confirm dialog, per-row delays
and spinners, the text editor of a rule provider. Nothing is cancelled or
sequenced: each handler awaits its own request and applies the reply whenever it
arrives. Correct: a dialog acts on what it names, a spinner waits for something,
the catch-all rule stays last.

**Web: item forms** (`proxy-form.tsx`, `group-form.tsx`, `group-member-list.tsx`,
`rule-form.tsx`). State: the inputs. Hard: switching the type after other inputs
were filled. Correct: what is sent belongs to the type it is sent for.

**Web: subscriptions** (`pages/subscriptions.tsx`, `subscription-form.tsx`).
State: three polled lists, a form that was filled from one of them. Correct: a
save changes what was typed and nothing else.

**Web: traffic** (`pages/traffic.tsx`), **settings and system configuration**
(`pages/settings.tsx`, `pages/system-config.tsx`), **publish** (`pages/publish.tsx`,
the poll of `components/layout/header.tsx`, `stores/draft.ts`), **session**
(`pages/login.tsx`, `stores/auth.ts`, `api/client.ts`, `routes.tsx`). Hard: replies
that overtake each other, time-outs of requests that are executed all the same,
several tabs over one `localStorage`. Correct: a save never clears what its page
did not load, flags come down, the badge converges, an expired session ends.

**Web: monitoring pages** (overview, runtime, connections, logs, node scores) and
**layout, texts and widgets**: polled views, wording and formatting.

Interactions that cross components: a subscription's switch, deletion and edits
change what the queue scans and dispatches; proxy handlers enqueue and remove;
discard and import replace what the queue's scans read; subscriptions, the
system-configuration page, discard and import all write the draft; traffic and
subscriptions share vendor fetches.

The hazards that matter most are in `PROJECT.json`, each at its line, with the
properties that cover it or the reason none does.

## NodeScoring

State and code:

| model | code |
|---|---|
| `rows` | the table: status, `fp` (fingerprint), `manual`, `score` (through which configuration the last success was measured; `NoConfig` before any) |
| `due`, `before` | which rows have `next_due <= now`, and which of two fell due first |
| `inv`, `draft`, `paused` | proxies and provider cache files, providers in the draft, disabled subscriptions |
| `cache` | `providerCache` of the current `provGen`; a stored snapshot or nothing |
| `pc`, `batch`, `order`, `skip`, `late`, `progressed` | where `Run` and `dispatch` are, and their local variables |
| `work` | a token of the semaphore and the goroutine holding it, with the row `ListDue` returned and the configuration it materialised |
| `scan`, `call` | calls of `ScanAndEnqueue` and of the handlers, between two of their statements |
| `cool`, `owed` | `coolUntil`; `owed` is a history variable, the longest `Retry-After` still running |

SQLite runs on one connection, so one statement is one action. What the code
reads and later writes back is two actions with the read value carried in
`scan`, `call` or `work`: `EnsureNodeWithFP` is `ScanGet`/`ScanPut` and
`CallGet`/`CallPut`; a probe writes over the row it was listed with. A dispatch
is `DispatchStart` (cooldown, disabled providers), `DispatchList`,
`DispatchClaim` or `DispatchMiss` row by row in due order, `DispatchCapped` when
no token is left, `DispatchWait` (the join). `Crash` loses all of memory and
keeps the table. `late` says which rows fell due after `dispatch` took its own
`now`, which is taken once and used by every `ListDue` of that dispatch.

Left out: errors of single database statements (they are logged and skipped),
the retry back-off's length (any future stamp; `Elapse` passes it), the vendor
calls (four outcomes: success, failure with or without a configuration, 429).

Properties that hold: `OneProbePerNode`, `TestingIsOwned`, `ImplementsLease`
(refinement of `ProbeLease`), `TestingEnds`, `ManualIsServed`, `DueIsProbed`,
`PausedQuiesces`, `QueueConverges`. `IInv` is the inductive invariant.
`ManualIsServed` says that a request is consumed, and the end of a probe that began
before the request consumes it; `TestingEnds` that a probe ends, also by a restart
(`scoring_paused`); that what a full semaphore drops is listed again is
`DueIsProbed` in `scoring_capped`. `QueueConverges` meets the late enqueue and the
handler's lost edit of a static proxy in `scoring_static`, and deletions and
stale provider files in `scoring_paused`.

## Publish

| model | code |
|---|---|
| `db` | the entity tables and the system configuration, a set per table |
| `raw` | `raw_config_draft`, which takes precedence when it is set |
| `file`, `running` | the file, and what mihomo runs (`Down` when it does not) |
| `history` | `publish_history` in order of insertion |
| `job` | the requests in flight: operation, next statement, local variables |

Every request is a sequence of actions, one per statement or file operation:
`renderDraft` reads the raw draft, then one table after the other; the check
judges the slices that were read; `TakeVersion`, `Backup`, `WriteNew`, `Reload`,
`Restore`, `Rereload`, `Save`, `ClearRaw`. Discard and import parse a file,
empty the tables one by one, fill them one by one (an import stops at a name
that was taken meanwhile) and replace the system configuration; discard then
clears the raw draft, renders and rewrites the file without a reload. A write can
fail, a reload can fail with or without having taken effect (a lost reply), the
record can fail to be saved (`SaveFails`: the file and mihomo are changed, there is
no record and no draft is cleared), together at most `MaxFaults` times; mihomo
restarts on the file it finds at any moment.

A rendered text is the function from tables to sets it was rendered from;
`Parse`, `Accepted` (by mihomo) and `Valid` (by the validator) are constants, so
the proofs hold for every parser, every mihomo and every validator. Left out:
file modes and ownership, database errors other than that of the record, the change
of day in version numbers.

Properties that hold: `OnlyCheckedIsPublished` for any number of concurrent
requests; `LatestSuccessRuns`, `VersionsCount` (a conjunct of `SerialInv`) and
`PublishIsAtomic` (refinement of `AtomicPublish`) for one request at a time, which is
what one administrator does. A record that cannot be saved is to `AtomicPublish`
what a death between the reload and the commit is. All are proved; `IInv`, `SerialInv` and `RunInv` are the inductive invariants.

## Subscriptions

| model | code |
|---|---|
| `subs`, `born` | the subscription rows; ids are uuids and not given twice |
| `draft` | the `proxy-providers` of the draft's system configuration, by name, with their URL |
| `tps` | the traffic providers a traffic source may be bound to |
| `fetches` | refreshes that talk to the vendor: the row and source they were started for |
| `seen`, `phase`, `gets` | the page: its three lists as last set, and the `fetchAll` calls in flight |
| `form`, `saving`, `save` | the form dialog, its flag and its request |
| `deleting`, `removal`, `refreshing`, `asks` | the confirm dialog, deletions in flight, refresh buttons and their requests |

`mutateMu` is held from a mutation's checks to its write, so create, update and
delete (native and traffic) are one action each. A refresh reads its row, leaves
the lock, talks to the vendor and takes the lock again: `RefreshStart` and
`RefreshEnd`, with rebinds, URL edits and deletions in between. `snap` and
`failure` name the source whose usage and whose error a row shows.
`SubscriptionForm` translates what the dialog keeps of the row it was opened for
and which fields its request carries or omits; `SubscriptionsPage` composes it
with the page, another administrator, the traffic page, the draft editor and
background refreshes. The four server properties are about
concurrent administrators; `UntouchedSurvive` and `LinksKeepUrls` relate what one
user typed to what the row holds by the time of the save.

## Traffic

| model | code |
|---|---|
| `conns`, `moved` | mihomo's connections and what each node has moved (external) |
| `lastSeen`, `baseline`, `pending` | the service's baselines and pending counters, under its lock |
| `taken` | what a flush took out of `pending` and has not written yet, per flusher |
| `hourly` | the hourly rows, summed up by billing cycle |
| `accounts`, `channel`, `fired`, `notified` | providers, notification channel, alert rows and their mark |
| `loop` | where the one goroutine is: idle, flushing, or in `checkAlerts` |
| `counted`, `given`, `deleting`, `delivered` | history variables the properties speak about |

One goroutine polls, flushes and checks; every summary a page asks for flushes
as well, so two flushes overlap with each other and with polls. A flush is two
actions: `Take` under the lock, `Write` outside it, which succeeds or puts back
(`PutBack` adds to what came in meanwhile). `checkAlerts` is read, insert, send,
mark, each of which may fail; a send may fail after the message was delivered.
`DeleteProvider` is three statements without a transaction. `Restart` keeps the
tables. A failed poll drops the baselines. `TrafficPage` puts the page on top:
loads that are all or nothing, the provider dialog, the alert settings; its
requests execute at the service in any order, some after the client gave up.

## The rest of the web client

Every page is modelled alike. A request is a record in `calls` or `wire`, with
the operation, its argument, and whether it is sent, answered, or given up by the
client (`lost`, which the server may still execute). The server serves one
request per action; the reply is applied by the handler that awaited it, in any
order, to whatever the page shows by then. A failure is an answer the handler's
`catch` meets. State setters of one handler that run without an `await` between
them are one action.

`CrudPage` is the core of the four inventory pages: `db` and `ord` are the
server's rows and their `sort_order`, `rows`, `loading`, `form` and `confirm` the
page's. The server may leave rows out of a list whose page filters there (`hide`);
the groups' handler ignores `search` and `type`. `ProxiesPage` adds delay tests with
their spinners, the test-all they belong to (`batch`), and the merged table
(`NodeInventory`, a pure function of the two lists, translated from
`lib/node-inventory.ts`), `GroupsPage` the question who refers to a group,
`RulesPage` drag and drop, `RuleProvidersPage` the text editor. `WebInventory`
composes them with `TrafficPage`: the router mounts one page at a time, so a
behaviour belongs to one page, and one view runs the traffic service alone.
Rows are listed by `sort_order` and then by id (`Listed`), whatever order they
came in (`FirstOrd`). `disordered` remembers that the server wrote `sort_order`s
that disregard those of the other rows: a saved rule (always 0), or the order of a
list that was shorter than the table. Until then drags keep MATCH last.

`ItemForms` are the dialogs as pure state: filled, changed input by input, and
made into a request. A stored row need not have a type the dialog offers, and an
imported group may list a member twice: the dialog opens on it all the same, and
what it sends is distinct when the row was (`MembersAreDistinct`). `SettingsPages` are the settings page's cards and the system
configuration over the server's settings row, users and configuration. A settings
put is two statements: it reads the stored row when an isolation field came empty
(`ReadStored`, what it holds is in `handling`), then writes the row. A read may fail
(`MaxUnread` times, counted in `unread`), and the put goes on with what was sent.
`PublishPage` is the publish page, the header's poll and the draft store;
`Session` is one tab beside others that change `localStorage`. `WebConsole` lets a
behaviour open one of the four.

## Runs

| run | expects | shows |
|---|---|---|
| `scoring_static` | pass | a static proxy with two configurations, two tokens, two edits or refreshes, a restart: `OneProbePerNode`, the lease refinement, convergence in spite of late enqueues and lost edits, no deadlock |
| `scoring_paused` | pass | a provider node whose subscription is switched, deleted and refreshed, a restart: `IInv`, ownership of `testing`, which ends, quiet when paused, convergence, manual requests served |
| `scoring_capped` | pass | two proxies and one token beside a handler: a row cut from its batch by the semaphore is listed again and probed |
| `scoring_backlog` | pass | a disabled subscription's backlog before a static node, batch of one: no starvation |
| `publish_serial` | pass | three requests, one at a time, edits between their statements: the latest success runs |
| `publish_atomic` | pass | any two requests one after the other, two faults, a restart: versions, file against stage, refinement of `AtomicPublish` |
| `publish_checked` | pass | two requests of any kind at once, a fault: only checked renderings are recorded |
| `publish_concurrent` | violation | a failing publish restores its backup over another one's success |
| `web_inventory` | pass | each inventory page over the server, and the traffic page over its service: dialogs delete what they name, drags keep MATCH last, nothing waits in vain, traffic is counted once, alerts go out once |
| `web_subscriptions` | pass | the subscriptions page over the server, another administrator and background refreshes: one manager per provider, one tracker per traffic provider, usage of its own source, untouched fields survive a save, links keep URLs |
| `web_console` | pass | forms send what belongs to their type, members are distinct, system-configuration saves keep what was loaded, isolation settings survive puts that can read them, flags come down, the badge converges, an expired session ends |
| `web_settings` | violation | what is typed in the settings card is not stored: the form's field names are not the server's |

Each violation contradicts a sentence of the repository that the finding in
`PROJECT.json` quotes. The web runs switch the deadlock check off, because a
user may stop clicking; the server's runs keep it.

### Bounds

The interesting cases of the queue need a second actor between a read and its
write, a second token, a row left in a batch, and a restart in any of these
places. Two edits (`MaxEdits`) put one handler call inside another actor's
statement pair and leave one more for what follows; with one restart
(`MaxCrashes`) every state is a state recovery may meet. `scoring_static` has one
node and two tokens, so that a second dispatch finds a free token while a probe of
the same node runs, and an edit or a deletion between a handler's `CallGet` and
`CallPut`. Two static nodes with one token (`scoring_capped`) are the least at which
a batch is cut; one token and one node suffice for the liveness of a single row,
because rows interact only through the tokens and through the batch limit, which
`scoring_backlog` checks with a limit of one. That run has no requests (`Callers` is
empty): it is about a switch thrown and a second change. Two configurations tell an
edited row from an unedited one. `MaxCool = 1` tells a running window from an elapsed
one. No run uses symmetry.

For publishing: two requests show every pair race; three in sequence show a
rollback across a failure. One item per table with three tables (system
configuration, groups with unique names, rules that need a group) is the least
at which a half-read draft is structurally wrong, a document is rejected by
mihomo though structurally right (no system configuration), and an import meets
a taken name. One raw text parses, the other does not and mihomo rejects it.

For the inventory pages: two or three requests of the user (`MaxSends`), two in
flight on the pages where replies race (`MaxCalls`), is what a late reply to an
earlier click needs; two rules and a MATCH that is not the newest row give a drag something to
pass over and `sort_order` something to say, and both rules can be filtered away; one
delay test per row beside the test-alls (`MaxTests`) makes tests overlap, two
editor loads (`MaxLoads`) overtake. For traffic: one connection id that is used
again, one node and one provider, quota 2 with threshold 50, so that one or two
units cross it or not, a vendor that reports nothing or the quota, and two
cycles. `MaxMoved` is 2: one unit on each side of a failed poll or a reused id.
One click of the user runs beside the interval loads.

For subscriptions: two rows (one native, one traffic source), a provider nobody
manages, two URLs, two quotas, schedules and expiries. `Budgets` lists the mixes of inputs, saves, other
administrators, polls, refreshes and faults of one behaviour: each pair that can
race is in one of them, all of them together in none. For the console pages:
three clicks (a load, a save and one beside them), four inputs in a form (fill,
switch the type, fill, switch back), two logins, three records, and
one failing request on the publish page and in the session (on the settings
pages any may fail), and one put that cannot read the settings row.

### Fairness

`NodeScoring!FairSpec` is weakly fair to what a goroutine does next: recovery,
the scans, dispatch, each probe (bounded by `ProbeTimeout`), each handler (a
bounded number of statements), and to time passing (`Elapse`, `CoolTick`).
`Run` waits in a `select` whose ready channels Go chooses among at random, so
neither the reconcile ticker nor the dispatch ticker is starved: strong fairness
of `ScanTick` and `DispatchStart`, which disable each other. A scan reads a
provider's file again and again, so a provider that is infinitely often readable
is visited (strong fairness of `ScanProvider` for the loop). Users, restarts and
upstream answers owe nothing: a 429 or a failure may be the outcome each time.

`WebConsole!Fairness`: the header's interval fires again and again (weak fairness
of `Poll` and `PollStatus`), and the browser and the server answer the status
requests it sends (`ServeStatus`, `StatusAnswered`, `LeaveForLogin`). Two are
strong, `ServeCall("status")` and `PollAnswered`: other tabs change what a request
meets, and a login page disables them for a while, but an interval that asks
again and again is answered now and then. Nothing is assumed of users.

`Publish`, `Subscriptions` and `Traffic` have no fairness: the controller client
and the vendors may never answer, and the code promises only what holds if a
request ends.

## Proofs

All of these hold for every value of the constants satisfying the named
assumptions (sentinels are distinct from values, bounds are naturals, constants
have their types); the only bounds in them are the constants themselves.

`NodeScoringProofs`. `Invariance` proves `Spec => []IInv`, and `TypeCorrect`,
`ProbesAreExclusive` and `TestingHasAnOwner` follow. Exclusion is not inductive:
an edit sets a claimed row back to `pending` while its probe runs, so the row's
status does not protect the node. What does is the shape of `dispatch`. It lists
only after the join, when no probe runs (`JoinedOutsideBatch`), each node is in a
batch once, and a claim takes it out (`ClaimedLeftBatch`). For `TestingIsOwned`
no read-modify-write may write a status it has read: a stored `got` is always
overwritten with `pending`, and the row a probe was given is always finished
(`RowsWritten`). `ScanCarriesNodes` and `CallCarriesRow` say what is complete
between two statements. The proof has one lemma per group of actions and one
step per action. `QueueImplementsLease` then maps every step to a step of
`ProbeLease` or a stutter, through `IInv`.

`PublishProofs`. `Invariance` proves `IInv`: past the check a request carries a
text that may be published (`CarriesChecked`), which does not depend on the
tables, so concurrency cannot break it; `PublishedIsChecked` follows. Under
`OneCaller` (at most one request in flight, with editors, mihomo, faults and
restarts still free) `VersionsAreCounted` proves `SerialInv`: the file is what
the stage and the backup say, and the taken version is the next one. From it
`PublishesAtomically` proves the refinement: the file in doubt stands for its
backup until `Save`, which is the commit; a `Save` that fails loses the request and commits
nothing. `OneCaller` is necessary, as
`publish_concurrent` shows. `VersionsAreUnique` reads `VersionsCount` off `SerialInv`.

`RunningProofs`. `LatestRuns` needs, beside `OneCaller`, `Undisturbed`: no fault
the model does not explain, no restart of the control plane, and no discard, which
rewrites the file without a reload. What mihomo rejects, restarts of mihomo at any
moment, imports, rollbacks and edits are still there (`publish_serial` checks the
same case). On top of `SerialInv` the induction is `RunInv`: with nothing in doubt
the file is the latest success, acceptable to mihomo, and mihomo runs it or is
down (`Steady`); while a publish is in doubt its backup is what may come back
(`Awaits`). `FailureKeepsForce` and `SuccessTakesForce` say what a new record does
to the latest success, `NothingInForce` that without a backup there was none, so
the restore has nothing to bring back.

`SubscriptionsProofs`. Theorems of `ServerSpec`, the server alone with any mix of
requests, from `ValuesAssumption` (the empty value and the omitted field are no
names, URLs or ids). `Invariance` proves `ServerTypeOK`, `OneManager`,
`OneTracker`, `TrafficStateIsOwn` and `FetchesAreOfRows` together, because they
need each other: a refresh reads the draft entry of its row, which is there
because the row has its one manager, and what it brings stays with its source
because an id is not used twice. `ProvidersHaveOneManager`, `TpsHaveOneTracker`
and `UsageIsOwn` follow. `WriteRow` is the lemma behind every mutation: which row
may be written without disturbing the others.

`TrafficProofs`. Theorems of `TrafficSpec`, from `TrafficAssumption` (there is a
cycle, bounds are naturals). Its next-state relation has every step of the
service that `web_inventory` takes, and requests at any time. `IInv` splits into
counting (`CountInv`) and checking (`CheckInv`), which meet only where the goroutine
is.
`AccountingIsExact` needs that the goroutine holds nothing but between a flush's
two steps (`HoldsOnlyToWrite`): without it a second `Take` would drop the first.
`AlertsOnce` needs that what is about to be sent is recorded and unsent
(`SendsTheUnsent`), that a sent alert stays recorded while its provider is not
being deleted (`SentIsFired`); `MarksAreTrue` that only a sent one is marked
(`MarksTheSent`).

`NothingIsInvented` is `CountedWasMoved`. What is counted alone is not inductive:
a poll adds what it finds. `MovedInv` adds `Uncounted`, what the next poll would
find on the open connections of a node, to what was counted there, and holds both
below what the node moved. A byte that moves makes both sides one larger, or the
left one smaller when an id that is used again just reaches its old counter; a
good poll turns `Uncounted` into counted; a failed one and a restart drop it, and a
restart also what was not written (from `CountedIsKept`). The sums are folds over
finite sets. No rule of induction with a predicate can be instantiated here, so
`Subsets` states it with a *set* of good subsets and proves it from the
well-foundedness of the strict subsets of a finite set; from it follow that the
fold is defined (`AddsExist`), does not depend on the order of its elements
(`SumTakesOut`) and is monotone (`SumGrows`, `SumGrowsBy`).

`SubscriptionsPageProofs`. `PageStepsAreServerSteps`: whatever the page, the other
administrator and the background do is a step of `ServerSpec` or none, so `IInv` of
`SubscriptionsProofs` holds behind the page. `PageInvariance` adds to it `PInv`:
the types of what the page holds, that each button that waits has a request
(`WaitingMeansWork`), and that a save in flight says nothing of a field its user
did not type in (`SavesSayWhatWasTyped`, which needs `DirtyIsTouched` of the open
form). `SavesKeepUntouched` and `LinkingKeepsUrls` are then properties of one step
of the server, whatever happened between the form's opening and it. They assume
`PageAssumption`: the initial rows are well-typed and consistent, `"all"` is no id.

`WebConsoleProofs`. The four parts share no variable, so `ConsoleInv` is a
conjunction and each part has its own lemmas. For the dialogs the induction is on
what is *entered*: a configuration either is still the row's or has only fields
of the selected type, a payload was entered for the selected type or is empty, and
what was sent is what the dialog shows. For the settings every request on the
wire is in order, whenever it is answered: what the handlers of settings puts hold
between their two statements keeps the isolation field as long as none failed to
read it (`HandlersKeep`), the configuration differs from the loaded one only
in the paths that were set, and a flag has a request that its handler still awaits.
Assumptions: rows, keys and bounds have their types (`FormsAssumption`,
`UsersAssumption`, `PublishPageAssumption`, `SessionAssumption`).

`WebInventoryProofs`. `WebInv` puts the inventory pages beside the traffic page.
`ConfirmNamesTarget` is almost inductive, since late answers set text and target
together. `SpinnerMeansTest` needs which of the overlapping tests of a row is its
own (`mine`). `DragsKeepMatchLast` is about the server, until its order is `disordered`, and has to
be carried through everything that travels: MATCH is behind every row there (`MatchIsLast`), at the end
of the list on screen, of every list in an answer and of every order in a reorder
request (`MatchArgs`), and `ArrayMoved` says that moving one row past others that
are not MATCH leaves it there, for lists of any length. Assumptions: ids and orders
are naturals, at the start MATCH exists and is behind the other rules
(`CrudAssumption`, `OrderAssumption`, `MatchAssumption`), no flag is the sentinel
(`TrafficPageAssumption`). `PageRunsTheService` is a refinement: seen through the
service's variables, the page is `TrafficSpec`, because each request is executed as
one of its steps. What `TrafficProofs` says therefore holds behind the page
(`ServiceStaysRight`).

`KeysNeverCollide` is the comment of `buildNodeRows`: no two rows of the proxies
table share a key, whatever the native providers report, so that what is kept per
key (a delay, a spinner) is kept for one row. A suffix nobody has is always within
reach, since fewer keys are taken than suffixes are tried (`KeyIsFree`, the pigeonhole
principle). `PushKeeps` says what one row adds, and `FoldKeeps` carries it over the
list: what a fold computes is unfolded over the subsets of its positions, by
induction on a set of numbers (`UpTo`) instead of a predicate. No run states it; it
needs that the runtime API answers with lists (`InventoriesAssumption`).

Model-checked only: the liveness properties `TestingEnds`, `ManualIsServed`,
`DueIsProbed`, `QueueConverges`, `PausedQuiesces`, `BadgeConverges` and `ExpiredEnds`
(the prover has no rules for fairness).

## Found while modelling

Two disagreements with what the repository says are runs: `publish_concurrent`
and `web_settings`. A third has none of its own: `UpdateSettings` says that clients
which submit the whole settings object "cannot silently clear" the isolation fields
(`handler/settings.go:35`), but when the read of the stored row fails it skips the
merge, writes them empty and answers 200 (`handler/settings.go:46`). The model does
so in `ReadStored`; without its condition `unread = 0`, `IsolationSurvives` is
violated in `web_console`.

The following are in the models or were met on the way; no text of the repository
promises otherwise, so no run calls them wrong.

Publishing
- A version number is the day's record count plus one and repeats when two
  publishes overlap (`store/publish_store.go:64`).
- Discard and import delete everything and insert again without a transaction
  (`handler/publish.go:289`).
- A publish whose record cannot be saved answers with an error, but the new file
  stays and mihomo runs it (`service/publish_service.go:192`).
- A raw draft saved while a publish runs is cleared by it; one saved while a
  discard runs wins over the tables (`handler/publish.go:238`).
- A rollback after a success publishes again what runs already
  (`service/publish_service.go:201`), whichever record's button was clicked.
- The status names the newest record as the running version, also a failed one
  (`handler/publish.go:394`); the client types the version a number, the server
  sends a string.
- The controller client has no time-out (`service/mihomo_client.go:24`).

Node scoring
- The cooldown is read once per dispatch: the rest of a batch is probed inside a
  `Retry-After` window (`service/scoring_service.go:1021`).
- A manual request made while its node is being probed is consumed by the end of
  that probe, which may have measured the node before the request.
- The success of a probe that ends between the two statements of
  `EnsureNodeWithFP` is written back away.

Subscriptions and traffic
- A traffic source that takes the name of a linked provider cannot be saved.
- The native form sends back a schedule, a traffic provider and a switch that
  nobody touched, as they were when it opened; the reply of a save closes
  whatever form is open by then.
- What moved between a failed poll and the next one is never counted, and the
  last flush is not awaited at exit. An alert whose send failed is never sent.
- An alert may go out again, or leave a row behind, when its provider is being
  deleted during a check.
- `Summary` starts the cycle from the reset day alone, without the hour, minute
  and time zone; reset day 31 gives an empty cycle in February.
- Only administrators can load the traffic page: one of its requests is theirs
  alone, and the page needs all of them. The minute's load overwrites alert
  settings that are being typed; a quota of zero cannot be saved, others are
  rounded to 0.01 GB.

Web client
- A drag in a filtered list sends the order of the rows shown, which become 0, 1, 2
  and so on, while the hidden ones keep theirs (`rules.tsx:90`, `rule_store.go:91`):
  a hidden rule can end behind MATCH, where it never matches. The list refuses drags
  over MATCH (`rule-list.tsx:135`), and the validator warns (`validator.go:141`).
- Editing a rule writes `sort_order` 0: the rule jumps to the front
  (`rule-form.tsx:106`).
- The rule-provider editor keeps the last provider's text when a load fails or is
  late, and saves it into the other file (`rule-providers.tsx:203`).
- A group or rule provider saved from its form loses configuration keys the form
  does not know; a vmess proxy keeps the cipher chosen for ss
  (`proxy-form.tsx:130`); the group form admits cycles.
- A settings save after a failed load blanks the configuration path; the
  isolation fields survive if the server can read them, because it merges those.
- A system-configuration save after a failed load replaces the stored configuration
  by the keys typed since (`system-config.tsx:119`); `SavesWhatWasLoaded` compares
  with what was loaded, which is then nothing, and does not flag it.
- Saving and clearing the configuration draft at once may leave the badge at
  "draft" without one. An administrator can take the role from themselves.
- A login whose second request fails leaves the old user beside the new token; a
  401 of a request sent before a logout can end the next session.
- Preview and validation stay on screen when the draft changes again.

## Not modelled

- *Vendor scoring and egress-IP cache, isolated probe*: what happens inside one
  probe. The queue takes its outcome; the cache changes how often a vendor is
  asked, the child process is the operating system's.
- *Structural validation, billing cycle*: functions without state. `Publish` takes
  the validator's verdict as a constant, so its theorems hold for any.
- *Native precheck, vendor fetch and provider view, runtime proxying*: one
  stateless request each.
- *Migrations*: run once, at start-up, before anything else does. *Wiring and
  shutdown*: what a shutdown loses is the restart of each module.
- *Monitoring pages*: polled views; what node scores asks of the server is in
  `NodeScoring`. *Layout, texts and widgets*: wording and formatting.
- Inside modelled components: errors of single database statements (except the
  flush, the alert and its mark, the publish record and the read of a settings put), password hashing, file modes and ownership, the
  text of YAML and of diffs, the change of day in version numbers; in traffic the
  vendor's fetch, attribution by patterns, the daily history, the pruning after
  90 days and edits of the reset day; in the inventory the references between
  tables, and in authentication the first administrator, roles inside tokens and
  the refresh endpoint, which the client never calls.
