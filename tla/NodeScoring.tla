---------------------------- MODULE NodeScoring ----------------------------
(***************************************************************************)
(* The durable node-score queue of internal/service/scoring_service.go     *)
(* over the node_scores table of internal/store/node_score_store.go.       *)
(*                                                                         *)
(* The table is both the result list and the queue: a row carries a        *)
(* status, the fingerprint of the node configuration and a next_due stamp. *)
(* Four kinds of process share it and none of them holds a lock across two *)
(* statements:                                                             *)
(*   - the scheduler goroutine Run: ResetTesting, then scans and dispatch; *)
(*   - the probe goroutines dispatch starts, at most `concurrency` of them *)
(*     (the tokens of its semaphore are the model's Slots);                *)
(*   - scans (ScanAndEnqueue), by Run and by subscription handlers;        *)
(*   - HTTP callers: proxy create/update/delete and manual refresh.        *)
(* SQLite runs on one connection, so one statement is one step here, and   *)
(* every read followed by a write is two.                                  *)
(*                                                                         *)
(* Abstractions.  A configuration and its fingerprint are one value, the   *)
(* stored measurement (scores, egress IP, last_success_at) is the          *)
(* configuration it was taken through.  next_due is reduced to which rows  *)
(* are due and which fell due before which; Elapse passes future stamps.   *)
(***************************************************************************)
EXTENDS Naturals, FiniteSetsExt

CONSTANTS
  StaticNodes,    \* names of static proxies (keys static/<name>)
  ProviderNodes,  \* names of provider nodes (keys provider/<prov>/<name>)
  Providers,      \* proxy-provider names
  ProviderOf,     \* the provider of each provider node
  Configs,        \* node configurations
  NoConfig,       \* no configuration: an absent node, "" or a missing result
  NoRow,          \* node_scores has no such key
  Idle,           \* an unused slot, caller or scanner
  Slots,          \* semaphore tokens of one dispatch (DefaultConcurrency)
  Callers,        \* HTTP handlers and goroutines that can be in flight
  Scanners,       \* concurrent ScanAndEnqueue calls; Loop is Run's own
  Loop,
  BatchLimit,     \* LIMIT of ListDue
  MaxCool,        \* longest Retry-After, in cooldown ticks
  MaxEdits,       \* bound: user and environment changes
  MaxCrashes      \* bound: process restarts

ASSUME NodesAssumption ==
  /\ StaticNodes \cap ProviderNodes = {}
  /\ ProviderOf \in [ProviderNodes -> Providers]
  /\ NoConfig \notin Configs \cup StaticNodes \cup ProviderNodes
ASSUME BoundsAssumption ==
  /\ Loop \in Scanners
  /\ BatchLimit \in Nat \ {0}
  /\ MaxCool \in Nat \ {0}
  /\ MaxEdits \in Nat /\ MaxCrashes \in Nat

Nodes == StaticNodes \cup ProviderNodes
Config == Configs \cup {NoConfig}
Claimable == {"pending", "failed", "ok"}

\* The columns the queue logic reads: a row of node_scores.
Row == [status : {"pending", "testing", "ok", "failed"},
        fp     : Config,     \* Fingerprint
        manual : BOOLEAN,    \* ManualRequest
        score  : Config]     \* what the last success measured
ASSUME SentinelAssumption ==
  /\ NoRow \notin Row
  /\ Idle \notin [node : Nodes, row : Row, cfg : Config]

VARIABLES
  inv,      \* node |-> its current configuration, NoConfig when absent
  draft,    \* providers in the system-config draft
  paused,   \* providers whose subscription is disabled
  rows,     \* node_scores
  due,      \* nodes whose row has next_due <= now
  before,   \* pairs of due nodes with a smaller and a larger next_due
  cool,     \* ticks until coolUntil
  owed,     \* ticks until every Retry-After received has elapsed (history)
  pc,       \* control state of Run and dispatch
  batch,    \* rows of the current ListDue, by node
  order,    \* the order of its rows by next_due
  skip,     \* providers dispatch excludes
  late,     \* nodes whose next_due is later than dispatch's own now
  progressed,
  work,     \* slot |-> the probe goroutine holding that token
  scan,     \* scanner |-> its ScanAndEnqueue call
  cache,    \* provider |-> cached effective nodes of this generation
  call,     \* caller |-> its in-flight handler
  edits, crashes

queueVars == <<rows, due, before>>
envVars   == <<inv, draft, paused>>
coolVars  == <<cool, owed>>
loopVars  == <<batch, order, skip, progressed>>
boundVars == <<edits, crashes>>
dataVars  == <<envVars, queueVars, coolVars>>
runVars   == <<pc, loopVars, late>>
vars == <<inv, draft, paused, rows, due, before, cool, owed, pc, batch, order, skip,
          late, progressed, work, scan, cache, call, edits, crashes>>

-----------------------------------------------------------------------------
(* Helpers over the table. *)

Among(S, e) == e[1] \in S \/ e[2] \in S

\* next_due = now for the nodes of S: due after every row that is due already.
FallDue(S) ==
  /\ due' = due \cup S
  /\ before' = {e \in before : ~Among(S, e)} \cup ((due \ S) \X S)

\* next_due is in the future, or the row is gone.
NotDue(S) ==
  /\ due' = due \ S
  /\ before' = {e \in before : ~Among(S, e)}

Dispatching == pc \in {"list", "claim", "capped"}

\* Upsert of a full row that is due now.  The writer took its stamp at some
\* time before the statement, so before or after dispatch took its own.
Enqueue(n, r) ==
  /\ rows' = [rows EXCEPT ![n] = r]
  /\ FallDue({n})
  /\ late' \in IF Dispatching THEN {late \ {n}, late \cup {n}} ELSE {late}

Delete(n) ==
  /\ rows' = [rows EXCEPT ![n] = NoRow]
  /\ NotDue({n})
  /\ UNCHANGED late

EnsuredKeepingStatus(got, fp) ==
  IF got = NoRow
  THEN [status |-> "pending", fp |-> fp, manual |-> FALSE, score |-> NoConfig]
  ELSE [got EXCEPT !.fp = fp]

\* The row EnsureNodeWithFP writes for fingerprint fp when it has read got.
Ensured(got, fp) ==
  IF got = NoRow
  THEN [status |-> "pending", fp |-> fp, manual |-> FALSE, score |-> NoConfig]
  ELSE [got EXCEPT !.fp = fp, !.status = "pending"]

\* As IsCurrent for a caller that asks only whether there is a row.
IsPresent(got, fp) == got # NoRow

\* EnsureNodeWithFP returns early: the fingerprint is unchanged.
IsCurrent(got, fp) == got # NoRow /\ got.fp = fp

\* The row RefreshNodes writes.
Requested(got) == [got EXCEPT !.status = "pending", !.manual = TRUE]

\* The rows the three outcomes of processNode write over the row it was
\* given, which is the one ListDue returned before the claim.
Succeeded(r, cfg) == [r EXCEPT !.status = "ok", !.manual = FALSE, !.score = cfg]
FailedUnconsumed(r) == [r EXCEPT !.status = "failed"]
Failed(r) == [r EXCEPT !.status = "failed", !.manual = FALSE]
Deferred(r) == [r EXCEPT !.status = "pending", !.manual = FALSE]

NodesOf(p) == {n \in ProviderNodes : ProviderOf[n] = p}
Busy == {s \in Slots : work[s] # Idle}
BusyNodes == {work[s].node : s \in Busy}
Present(snap) == {n \in DOMAIN snap : snap[n] # NoConfig}

-----------------------------------------------------------------------------
(* Run: startup, and the choice between scanning and dispatching. *)

Init ==
  /\ inv \in [Nodes -> Config]
  /\ draft = Providers /\ paused = {}
  /\ rows = [n \in Nodes |-> NoRow] /\ due = {} /\ before = {}
  /\ cool = 0 /\ owed = 0
  /\ pc = "boot"
  /\ batch = [n \in Nodes |-> NoRow] /\ order = {}
  /\ skip = {} /\ late = {} /\ progressed = FALSE
  /\ work = [s \in Slots |-> Idle]
  /\ scan = [x \in Scanners |-> Idle]
  /\ cache = [p \in Providers |-> Idle]
  /\ call = [k \in Callers |-> Idle]
  /\ edits = 0 /\ crashes = 0

\* ResetTesting: testing rows become pending, due now.
IsTesting(n) == rows[n] # NoRow /\ rows[n].status = "testing"
StuckUnrequested == {n \in Nodes : IsTesting(n) /\ ~rows[n].manual}
Stuck == {n \in Nodes : IsTesting(n)}

ResetTesting ==
  /\ pc = "boot"
  /\ rows' = [n \in Nodes |-> IF n \in Stuck
                              THEN [rows[n] EXCEPT !.status = "pending"]
                              ELSE rows[n]]
  /\ FallDue(Stuck)
  /\ pc' = "scan"
  /\ UNCHANGED <<envVars, coolVars, loopVars, late, work, scan, cache, call,
                 boundVars>>

-----------------------------------------------------------------------------
(* ScanAndEnqueue.  A scan is a record: its phase, the providers still to   *)
(* visit, the inventory snapshot of the section it is in, the nodes still   *)
(* to ensure, the row EnsureNodeWithFP has read, the rows to prune.         *)

\* provGen is bumped: no cached snapshot is of the new generation.
SameGeneration == cache
NextGeneration == [p \in Providers |-> Idle]

ScanAt(x, phase) == scan[x] # Idle /\ scan[x].phase = phase

\* The scan of Run starts when the loop reaches it; a handler's at any time.
\* The cache generation is bumped before anything is read.
ScanBegin(x) ==
  /\ scan[x] = Idle
  /\ IF x = Loop
     THEN pc = "scan" /\ UNCHANGED edits
     ELSE edits < MaxEdits /\ edits' = edits + 1
  /\ cache' = NextGeneration
  /\ scan' = [scan EXCEPT ![x] =
       [phase |-> "static", part |-> "static", rest |-> {}, live |-> {},
        disabled |-> paused, seen |-> [n \in {} |-> NoConfig], todo |-> {}, node |-> NoConfig,
        got |-> NoRow, victims |-> {}]]
  /\ UNCHANGED <<dataVars, runVars, work, call, crashes>>

\* Enter a section: remember the inventory it will ensure and prune against.
Section(x, snap) ==
  [scan[x] EXCEPT !.phase = "ensure", !.seen = snap, !.todo = Present(snap)]

ScanStatic(x) ==
  /\ ScanAt(x, "static")
  /\ scan' = [scan EXCEPT ![x] = Section(x, [n \in StaticNodes |-> inv[n]])]
  /\ UNCHANGED <<dataVars, runVars, work, cache, call, boundVars>>

\* loadEffectiveNodes: the cached snapshot of this generation, or the file.
EffectiveNodes(p) ==
  IF cache[p] # Idle THEN cache[p] ELSE [n \in NodesOf(p) |-> inv[n]]

ScanProvider(x, p) ==
  /\ ScanAt(x, "pick") /\ p \in scan[x].rest \ scan[x].disabled
  /\ cache' = [cache EXCEPT ![p] = EffectiveNodes(p)]
  /\ scan' = [scan EXCEPT ![x] =
       [Section(x, EffectiveNodes(p)) EXCEPT !.rest = @ \ {p}]]
  /\ UNCHANGED <<dataVars, runVars, work, call, boundVars>>

\* A provider is passed over when its subscription is disabled, or when its
\* cache file is not readable.
ScanSkip(x, p) ==
  /\ ScanAt(x, "pick") /\ p \in scan[x].rest
  /\ scan' = [scan EXCEPT ![x].rest = @ \ {p}]
  /\ UNCHANGED <<dataVars, runVars, work, cache, call, boundVars>>

\* EnsureNodeWithFP, first statement.
ScanGet(x, n) ==
  /\ ScanAt(x, "ensure") /\ n \in scan[x].todo
  /\ scan' = [scan EXCEPT ![x] =
       IF IsCurrent(rows[n], scan[x].seen[n])
       THEN [scan[x] EXCEPT !.todo = @ \ {n}]
       ELSE [scan[x] EXCEPT !.todo = @ \ {n}, !.phase = "put", !.node = n,
                            !.got = rows[n]]]
  /\ UNCHANGED <<dataVars, runVars, work, cache, call, boundVars>>

\* EnsureNodeWithFP, second statement.
ScanPut(x) ==
  /\ ScanAt(x, "put")
  /\ LET n == scan[x].node
     IN Enqueue(n, Ensured(scan[x].got, scan[x].seen[n]))
  /\ scan' = [scan EXCEPT ![x] = [@ EXCEPT !.phase = "ensure", !.node = NoConfig,
                                           !.got = NoRow]]
  /\ UNCHANGED <<envVars, coolVars, pc, loopVars, work, cache, call, boundVars>>

\* List the rows of the section and pick the ones the snapshot lacks.
ScanRows(x) ==
  /\ ScanAt(x, "ensure") /\ scan[x].todo = {}
  /\ scan' = [scan EXCEPT ![x] =
       [@ EXCEPT !.phase = "prune",
                 !.victims = {n \in DOMAIN scan[x].seen :
                                rows[n] # NoRow /\ scan[x].seen[n] = NoConfig}]]
  /\ UNCHANGED <<dataVars, runVars, work, cache, call, boundVars>>

ScanPrune(x, n) ==
  /\ \/ ScanAt(x, "prune")
     \/ ScanAt(x, "orphans")
  /\ n \in scan[x].victims
  /\ Delete(n)
  /\ scan' = [scan EXCEPT ![x].victims = @ \ {n}]
  /\ UNCHANGED <<envVars, coolVars, pc, loopVars, work, cache, call, boundVars>>

\* After the static section the draft is read once; every provider in it is
\* a section of its own.
ScanNext(x) ==
  /\ ScanAt(x, "prune") /\ scan[x].victims = {}
  /\ scan' = [scan EXCEPT ![x] =
       IF scan[x].part = "static"
       THEN [@ EXCEPT !.phase = "pick", !.part = "provider", !.rest = draft,
                      !.live = draft, !.seen = [n \in {} |-> NoConfig]]
       ELSE [@ EXCEPT !.phase = "pick", !.seen = [n \in {} |-> NoConfig]]]
  /\ UNCHANGED <<dataVars, runVars, work, cache, call, boundVars>>

\* Rows of providers that were not in the draft.
ScanOrphans(x) ==
  /\ ScanAt(x, "pick") /\ scan[x].rest = {}
  /\ scan' = [scan EXCEPT ![x] =
       [@ EXCEPT !.phase = "orphans",
                 !.victims = {n \in ProviderNodes :
                                /\ rows[n] # NoRow
                                /\ ProviderOf[n] \notin scan[x].live}]]
  /\ UNCHANGED <<dataVars, runVars, work, cache, call, boundVars>>

ScanEnd(x) ==
  /\ ScanAt(x, "orphans") /\ scan[x].victims = {}
  /\ scan' = [scan EXCEPT ![x] = Idle]
  /\ pc' = IF x = Loop THEN "idle" ELSE pc
  /\ UNCHANGED <<dataVars, loopVars, late, work, cache, call, boundVars>>

\* The reconcile ticker.
ScanTick ==
  /\ pc = "idle"
  /\ pc' = "scan"
  /\ UNCHANGED <<dataVars, loopVars, late, work, scan, cache, call, boundVars>>

-----------------------------------------------------------------------------
(* dispatch *)

\* The cooldown is read once, as are the disabled subscriptions.
DispatchStart ==
  /\ pc = "idle" /\ cool = 0
  /\ pc' = "list"
  /\ skip' = paused
  /\ late' = {}
  /\ UNCHANGED <<dataVars, batch, order, progressed, work, scan, cache, call,
                 boundVars>>

\* The WHERE clause of ListDue: claimable rows whose next_due has passed,
\* without the automatic work of paused subscriptions.
Awaits(n) == n \in due \ late /\ rows[n] # NoRow /\ rows[n].status \in Claimable
ExcludedNever(n) == FALSE
Excluded(n) == n \in ProviderNodes /\ ProviderOf[n] \in skip /\ ~rows[n].manual

\* ORDER BY next_due ASC LIMIT BatchLimit: the batch holds the rows that fell
\* due first; rows with equal stamps come in any order.
Oldest(B, found) ==
  /\ B \subseteq found
  /\ Cardinality(B) = Min({BatchLimit, Cardinality(found)})
  /\ \A e \in before : e[2] \in B /\ e[1] \in found => e[1] \in B
ListDueThenExclude(B) ==
  \E C \in SUBSET due : /\ Oldest(C, {n \in due : Awaits(n)})
                       /\ B = {n \in C : ~Excluded(n)}
ListDue(B) == Oldest(B, {n \in due : Awaits(n) /\ ~Excluded(n)})

DispatchList ==
  /\ pc = "list"
  /\ \E B \in SUBSET due :
       /\ ListDue(B)
       /\ batch' = [n \in Nodes |-> IF n \in B THEN rows[n] ELSE NoRow]
       /\ order' = {e \in before : e[1] \in B /\ e[2] \in B}
  /\ progressed' = FALSE
  /\ pc' = "claim"
  /\ UNCHANGED <<dataVars, skip, late, work, scan, cache, call, boundVars>>

Listed == {n \in Nodes : batch[n] # NoRow}

\* The listed row that is next: none still listed fell due before it.
NextListed(n) == n \in Listed /\ \A m \in Listed : <<m, n>> \notin order

\* Claim and start a probe goroutine with the row ListDue returned.
DispatchClaim(n, s) ==
  /\ pc = "claim" /\ NextListed(n)
  /\ work[s] = Idle
  /\ rows[n] # NoRow /\ rows[n].status \in Claimable
  /\ rows' = [rows EXCEPT ![n].status = "testing"]
  /\ work' = [work EXCEPT ![s] = [node |-> n, row |-> batch[n], cfg |-> NoConfig]]
  /\ batch' = [batch EXCEPT ![n] = NoRow]
  /\ progressed' = TRUE
  /\ UNCHANGED <<envVars, due, before, coolVars, pc, order, skip, late, scan,
                 cache, call, boundVars>>

\* The row was deleted since it was listed: Claim changes no row.
DispatchMiss(n) ==
  /\ pc = "claim" /\ NextListed(n)
  /\ Busy # Slots
  /\ ~(rows[n] # NoRow /\ rows[n].status \in Claimable)
  /\ batch' = [batch EXCEPT ![n] = NoRow]
  /\ UNCHANGED <<dataVars, pc, order, skip, late, progressed, work, scan, cache,
                 call, boundVars>>

\* As DispatchCapped when the rows without a token count as served by this batch.
DispatchCappedServed ==
  /\ pc = "claim" /\ Listed # {} /\ Busy = Slots
  /\ pc' = "capped"
  /\ rows' = [n \in Nodes |-> IF n \in Listed /\ rows[n] # NoRow
                              THEN [rows[n] EXCEPT !.status = "ok"] ELSE rows[n]]
  /\ NotDue(Listed)
  /\ batch' = [n \in Nodes |-> NoRow]
  /\ UNCHANGED <<envVars, coolVars, order, skip, late, progressed, work,
                 scan, cache, call, boundVars>>

\* No token left: drop the rest of the batch, wait, return.
DispatchCapped ==
  /\ pc = "claim" /\ Listed # {} /\ Busy = Slots
  /\ pc' = "capped"
  /\ batch' = [n \in Nodes |-> NoRow]
  /\ UNCHANGED <<dataVars, order, skip, late, progressed, work, scan, cache,
                 call, boundVars>>

\* wg.Wait.
Detached == TRUE
Joined == Busy = {}

\* Wait, then list again after progress, else return.
DispatchWait ==
  /\ \/ pc = "claim" /\ Listed = {}
     \/ pc = "capped"
  /\ Joined
  /\ IF pc = "claim" /\ progressed
     THEN pc' = "list" /\ UNCHANGED <<order, skip, late, progressed>>
     ELSE /\ pc' = "idle" /\ progressed' = FALSE
          /\ order' = {} /\ skip' = {} /\ late' = {}
  /\ UNCHANGED <<dataVars, batch, work, scan, cache, call, boundVars>>

-----------------------------------------------------------------------------
(* processNode *)

\* materialize: the configuration the isolated instance will run.
ProbeMaterialize(s) ==
  /\ work[s] # Idle /\ work[s].cfg = NoConfig
  /\ LET n == work[s].node
     IN IF n \in StaticNodes
        THEN /\ inv[n] # NoConfig
             /\ work' = [work EXCEPT ![s].cfg = inv[n]]
             /\ UNCHANGED cache
        ELSE LET p == ProviderOf[n]
             IN /\ p \in draft
                /\ EffectiveNodes(p)[n] # NoConfig
                /\ work' = [work EXCEPT ![s].cfg = EffectiveNodes(p)[n]]
                /\ cache' = [cache EXCEPT ![p] = EffectiveNodes(p)]
  /\ UNCHANGED <<dataVars, runVars, scan, call, boundVars>>

\* The outcome is one Upsert over the row the goroutine was started with, with
\* a next_due in the future; the token is returned.
ProbeFinish(s, row) ==
  /\ rows' = [rows EXCEPT ![work[s].node] = row]
  /\ NotDue({work[s].node})
  /\ work' = [work EXCEPT ![s] = Idle]
  /\ UNCHANGED <<envVars, runVars, scan, cache, call, boundVars>>

ProbeOk(s) ==
  /\ work[s] # Idle /\ work[s].cfg # NoConfig
  /\ ProbeFinish(s, Succeeded(work[s].row, work[s].cfg))
  /\ UNCHANGED coolVars

\* Any failure: nothing to materialize, no prober, no egress, upstream error.
ProbeFail(s) ==
  /\ work[s] # Idle
  /\ ProbeFinish(s, Failed(work[s].row))
  /\ UNCHANGED coolVars

\* 429 with a Retry-After of d; coolGlobal overwrites the cooldown.
ProbeRateLimited(s, d) ==
  /\ work[s] # Idle /\ work[s].cfg # NoConfig
  /\ ProbeFinish(s, Deferred(work[s].row))
  /\ cool' = d
  /\ owed' = Max({owed, d})

-----------------------------------------------------------------------------
(* HTTP callers.  A call is a record: the operation, the node, the          *)
(* fingerprint it computed and the row it has read, and its next statement. *)

CallAt(k, stage) == call[k] # Idle /\ call[k].stage = stage

Begin(k, op, n, stage) ==
  /\ call[k] = Idle
  /\ edits < MaxEdits /\ edits' = edits + 1
  /\ call' = [call EXCEPT ![k] =
       [op |-> op, node |-> n, stage |-> stage, fp |-> NoConfig, got |-> NoRow]]

\* Create or Update of a proxy, then `go EnqueueStaticProxy(name)`.
ProxySave(k, n, c) ==
  /\ Begin(k, "enqueue", n, "name")
  /\ inv' = [inv EXCEPT ![n] = c]
  /\ UNCHANGED <<draft, paused, queueVars, coolVars, runVars, work, scan, cache,
                 crashes>>

\* Delete of a proxy; RemoveStaticProxy is the next statement.
ProxyDelete(k, n) ==
  /\ Begin(k, "remove", n, "drop")
  /\ inv[n] # NoConfig
  /\ inv' = [inv EXCEPT ![n] = NoConfig]
  /\ UNCHANGED <<draft, paused, queueVars, coolVars, runVars, work, scan, cache,
                 crashes>>

\* RefreshNodes, for one key.
RefreshNodes(k, n) ==
  /\ Begin(k, "refresh", n, "get")
  /\ UNCHANGED <<dataVars, runVars, work, scan, cache, crashes>>

\* EnqueueStaticProxy: GetByName; a missing proxy leaves the fingerprint "".
CallName(k) ==
  /\ CallAt(k, "name")
  /\ call' = [call EXCEPT ![k].fp = inv[call[k].node], ![k].stage = "get"]
  /\ UNCHANGED <<dataVars, runVars, work, scan, cache, boundVars>>

\* Get, and the early returns: an unchanged fingerprint for an enqueue; an
\* unknown (skipped) or testing (running) row for a refresh.
CallGet(k) ==
  LET got  == rows[call[k].node]
      done == IF call[k].op = "enqueue"
              THEN IsCurrent(got, call[k].fp)
              ELSE got = NoRow \/ got.status = "testing"
  IN /\ CallAt(k, "get")
     /\ call' = [call EXCEPT ![k] =
          IF done THEN Idle ELSE [@ EXCEPT !.got = got, !.stage = "put"]]
     /\ UNCHANGED <<dataVars, runVars, work, scan, cache, boundVars>>

CallPut(k) ==
  /\ CallAt(k, "put")
  /\ LET n == call[k].node
         r == IF call[k].op = "enqueue"
              THEN Ensured(call[k].got, call[k].fp)
              ELSE Requested(call[k].got)
     IN Enqueue(n, r)
  /\ call' = [call EXCEPT ![k] = Idle]
  /\ UNCHANGED <<envVars, coolVars, pc, loopVars, work, scan, cache, boundVars>>

CallDrop(k) ==
  /\ CallAt(k, "drop")
  /\ Delete(call[k].node)
  /\ call' = [call EXCEPT ![k] = Idle]
  /\ UNCHANGED <<envVars, coolVars, pc, loopVars, work, scan, cache, boundVars>>

-----------------------------------------------------------------------------
(* Subscriptions, mihomo's own provider downloads, time, restarts. *)

Edit == edits < MaxEdits /\ edits' = edits + 1

\* The inventory changes and the queue is not told: mihomo rewrites a provider
\* cache file, a proxy is copied, a configuration is imported.
InventoryChange(n, c) ==
  /\ Edit
  /\ inv' = [inv EXCEPT ![n] = c]
  /\ UNCHANGED <<draft, paused, queueVars, coolVars, runVars, work, scan, cache,
                 call, crashes>>

\* The enabled switch of a subscription.
SubscriptionPause(p) ==
  /\ Edit
  /\ paused' = IF p \in paused THEN paused \ {p} ELSE paused \cup {p}
  /\ UNCHANGED <<inv, draft, queueVars, coolVars, runVars, work, scan, cache,
                 call, crashes>>

\* Delete of a native subscription: its score rows first, then its own row
\* (which ends the pause), then the draft entry and the cache generation.
SubscriptionDelete(k, p) ==
  /\ p \in draft
  /\ call[k] = Idle /\ Edit
  /\ rows' = [n \in Nodes |-> IF n \in NodesOf(p) THEN NoRow ELSE rows[n]]
  /\ NotDue(NodesOf(p))
  /\ call' = [call EXCEPT ![k] = [op |-> "unsubscribe", node |-> p,
                stage |-> "unpause", fp |-> NoConfig, got |-> NoRow]]
  /\ UNCHANGED <<envVars, coolVars, runVars, work, scan, cache, crashes>>

CallUnpause(k) ==
  /\ CallAt(k, "unpause")
  /\ paused' = paused \ {call[k].node}
  /\ call' = [call EXCEPT ![k].stage = "undraft"]
  /\ UNCHANGED <<inv, draft, queueVars, coolVars, runVars, work, scan, cache,
                 boundVars>>

CallUndraft(k) ==
  /\ CallAt(k, "undraft")
  /\ draft' = draft \ {call[k].node}
  /\ cache' = NextGeneration
  /\ call' = [call EXCEPT ![k] = Idle]
  /\ UNCHANGED <<inv, paused, queueVars, coolVars, runVars, work, scan, boundVars>>

\* A row's next_due passes.
Elapse(n) ==
  /\ rows[n] # NoRow /\ n \notin due
  /\ FallDue({n})
  /\ late' = IF Dispatching THEN late \cup {n} ELSE late
  /\ UNCHANGED <<envVars, rows, coolVars, pc, loopVars, work, scan, cache, call,
                 boundVars>>

CoolTick ==
  /\ cool + owed > 0
  /\ cool' = IF cool > 0 THEN cool - 1 ELSE 0
  /\ owed' = IF owed > 0 THEN owed - 1 ELSE 0
  /\ UNCHANGED <<envVars, queueVars, runVars, work, scan, cache, call,
                 boundVars>>

\* The process dies: the database survives, everything in memory is lost.
Crash ==
  /\ crashes < MaxCrashes /\ crashes' = crashes + 1
  /\ pc' = "boot"
  /\ batch' = [n \in Nodes |-> NoRow] /\ order' = {}
  /\ skip' = {} /\ late' = {} /\ progressed' = FALSE
  /\ cool' = 0
  /\ work' = [s \in Slots |-> Idle]
  /\ scan' = [x \in Scanners |-> Idle]
  /\ cache' = [p \in Providers |-> Idle]
  /\ call' = [k \in Callers |-> Idle]
  /\ UNCHANGED <<envVars, queueVars, owed, edits>>

-----------------------------------------------------------------------------
ScanStep(x) ==
  \/ ScanBegin(x) \/ ScanStatic(x)
  \/ \E p \in Providers : ScanProvider(x, p) \/ ScanSkip(x, p)
  \/ \E n \in Nodes : ScanGet(x, n) \/ ScanPrune(x, n)
  \/ ScanPut(x) \/ ScanRows(x) \/ ScanNext(x) \/ ScanOrphans(x) \/ ScanEnd(x)

DispatchStep ==
  \/ DispatchStart \/ DispatchList \/ DispatchCapped \/ DispatchWait
  \/ \E n \in Nodes : DispatchMiss(n) \/ \E s \in Slots : DispatchClaim(n, s)

ProbeEnd(s) ==
  \/ ProbeOk(s) \/ ProbeFail(s)
  \/ \E d \in 1..MaxCool : ProbeRateLimited(s, d)

CallStep(k) ==
  CallName(k) \/ CallGet(k) \/ CallPut(k) \/ CallDrop(k)
  \/ CallUnpause(k) \/ CallUndraft(k)

Request(k) ==
  \/ \E n \in StaticNodes : ProxyDelete(k, n) \/ \E c \in Configs : ProxySave(k, n, c)
  \/ \E n \in Nodes : RefreshNodes(k, n)
  \/ \E p \in Providers : SubscriptionDelete(k, p)

Environment ==
  \/ \E n \in Nodes, c \in Config : InventoryChange(n, c)
  \/ \E p \in Providers : SubscriptionPause(p)
  \/ \E n \in Nodes : Elapse(n)
  \/ CoolTick
  \/ Crash

Next ==
  \/ ResetTesting \/ ScanTick \/ DispatchStep
  \/ \E x \in Scanners : ScanStep(x)
  \/ \E s \in Slots : ProbeMaterialize(s) \/ ProbeEnd(s)
  \/ \E k \in Callers : CallStep(k) \/ Request(k)
  \/ Environment

Spec == Init /\ [][Next]_vars

(***************************************************************************)
(* Fairness.  The goroutines of the process keep running; a probe is bound *)
(* to ProbeTimeout, a handler has a bounded number of statements, the      *)
(* stored due dates pass.  Run selects among its ready channels at random, *)
(* so neither the ticker, the wake channel nor the reconcile ticker is     *)
(* starved (SF).  Users, crashes and 429 answers owe nothing.              *)
(***************************************************************************)
Fairness ==
  /\ WF_vars(ResetTesting)
  /\ SF_vars(ScanTick) /\ SF_vars(DispatchStart)
  /\ WF_vars(DispatchStep)
  /\ \A x \in Scanners : WF_vars(scan[x] # Idle /\ ScanStep(x))
  /\ WF_vars(ScanStep(Loop))
  /\ \A p \in Providers : SF_vars(ScanProvider(Loop, p))
  /\ \A s \in Slots : WF_vars(ProbeMaterialize(s)) /\ WF_vars(ProbeEnd(s))
  /\ \A k \in Callers : WF_vars(CallStep(k))
  /\ \A n \in Nodes : WF_vars(Elapse(n))
  /\ WF_vars(CoolTick)

FairSpec == Spec /\ Fairness

-----------------------------------------------------------------------------
(* Properties *)

Snapshot == UNION {[S -> Config] : S \in SUBSET Nodes}
Scan == [phase : {"static", "ensure", "put", "prune", "pick", "orphans"},
         part : {"static", "provider"},
         rest : SUBSET Providers, live : SUBSET Providers,
         disabled : SUBSET Providers, seen : Snapshot, todo : SUBSET Nodes,
         node : Nodes \cup {NoConfig}, got : Row \cup {NoRow},
         victims : SUBSET Nodes]
NodeCall == [op : {"enqueue", "remove", "refresh"}, node : Nodes,
             stage : {"name", "get", "put", "drop"},
             fp : Config, got : Row \cup {NoRow}]
ProviderCall == [op : {"unsubscribe"}, node : Providers, stage : {"unpause", "undraft"},
                 fp : Config, got : Row \cup {NoRow}]
Work == [node : Nodes, row : Row, cfg : Config]

EnvTypeOK ==
  /\ inv \in [Nodes -> Config]
  /\ draft \subseteq Providers /\ paused \subseteq Providers
  /\ cool \in 0..MaxCool /\ owed \in 0..MaxCool
  /\ edits \in 0..MaxEdits /\ crashes \in 0..MaxCrashes
QueueTypeOK ==
  /\ rows \in [Nodes -> Row \cup {NoRow}]
  /\ due \subseteq Nodes /\ before \subseteq Nodes \X Nodes
LoopTypeOK ==
  /\ pc \in {"boot", "scan", "idle", "list", "claim", "capped"}
  /\ batch \in [Nodes -> Row \cup {NoRow}] /\ order \subseteq Nodes \X Nodes
  /\ skip \subseteq Providers /\ late \subseteq Nodes /\ progressed \in BOOLEAN
WorkTypeOK == work \in [Slots -> Work \cup {Idle}]
ScanTypeOK == scan \in [Scanners -> Scan \cup {Idle}]
CacheTypeOK ==
  /\ DOMAIN cache = Providers
  /\ \A p \in Providers : cache[p] \in [NodesOf(p) -> Config] \cup {Idle}
CallTypeOK == call \in [Callers -> NodeCall \cup ProviderCall \cup {Idle}]

TypeOK == /\ EnvTypeOK /\ QueueTypeOK /\ LoopTypeOK /\ WorkTypeOK
          /\ ScanTypeOK /\ CacheTypeOK /\ CallTypeOK

\* Two probe goroutines never test the same node: its isolated instances and
\* its vendor requests are never doubled, although a claimed row may be set
\* back to pending, deleted and re-created while its probe runs.
OneProbePerNode ==
  \A s, t \in Slots : work[s] # Idle /\ work[t] # Idle /\ s # t
                         => work[s].node # work[t].node

\* Once ResetTesting has run, a row in "testing" has a live probe: no
\* interleaving of read-modify-write callers leaves a row in a status that
\* neither ListDue nor a manual refresh ever picks up again.
TestingIsOwned ==
  pc # "boot" => \A n \in Nodes : IsTesting(n) => n \in BusyNodes

\* The inductive invariant behind the two: the loop is joined wherever it
\* lists or scans, a claimed node has left the batch, and what the scans and
\* the callers carry between two statements is complete.
JoinedOutsideBatch == pc \notin {"claim", "capped"} => \A s \in Slots : work[s] = Idle
LoopIsScanning == scan[Loop] # Idle => pc = "scan"
ClaimedLeftBatch ==
  \A s \in Slots : work[s] # Idle => batch[work[s].node] = NoRow
ScanCarriesNodes ==
  \A x \in Scanners : scan[x] # Idle =>
    /\ scan[x].todo \subseteq DOMAIN scan[x].seen
    /\ scan[x].phase = "put" => scan[x].node \in DOMAIN scan[x].seen
    /\ scan[x].phase \notin {"ensure", "put"} => scan[x].todo = {}
CallCarriesRow ==
  \A k \in Callers : call[k] # Idle =>
    /\ call[k].stage = "put" => call[k].op \in {"enqueue", "refresh"}
    /\ call[k].stage = "get" => call[k].op \in {"enqueue", "refresh"}
    /\ call[k].stage = "name" => call[k].op = "enqueue"
    /\ call[k].op = "refresh" /\ call[k].stage = "put" => call[k].got # NoRow

IInv == /\ TypeOK /\ JoinedOutsideBatch /\ LoopIsScanning /\ ClaimedLeftBatch
        /\ OneProbePerNode /\ TestingIsOwned /\ ScanCarriesNodes /\ CallCarriesRow

HasRow(n) == rows[n] # NoRow
Tracked(n) == inv[n] # NoConfig /\ (n \in ProviderNodes => ProviderOf[n] \in draft)
Scanned(n) == n \in ProviderNodes => ProviderOf[n] \notin paused

\* When users stop editing, the queue settles on the inventory whatever was
\* lost, resurrected or overwritten on the way: an edit that a probe wrote over,
\* a row that a probe or a late enqueue brought back, a stale cache snapshot.
\* Every present node has a row with its current fingerprint and no row
\* survives its node.  (Nodes of a disabled subscription are left alone.)
QueueConverges ==
  <>[](\A n \in Nodes : Scanned(n) =>
         IF Tracked(n) THEN HasRow(n) /\ rows[n].fp = inv[n] ELSE ~HasRow(n))

\* The switch of a subscription works: while its provider stays disabled and
\* no manual request is pending, its nodes stop being probed, also when the
\* switch was thrown after dispatch had listed or claimed them.
PausedQuiesces ==
  \A n \in ProviderNodes :
    <>[](ProviderOf[n] \in paused /\ ~(HasRow(n) /\ rows[n].manual))
      => <>[](n \notin BusyNodes)

\* A probe always ends, also when the process dies while it runs.
TestingEnds ==
  \A n \in Nodes : IsTesting(n) ~> ~IsTesting(n)

\* A persisted manual request is eventually consumed (or its node goes away),
\* across restarts, cooldowns and a disabled subscription.  The end of a probe
\* that began before the request consumes it too: it is not a new probe that
\* is promised.
ManualIsServed ==
  \A n \in Nodes : (HasRow(n) /\ rows[n].manual) ~> ~(HasRow(n) /\ rows[n].manual)

\* A due node of no subscription is eventually tested or leaves: neither the
\* backlog of a disabled subscription starves it behind the batch limit, nor is
\* it forgotten when a full semaphore drops the rest of its batch.
DueIsProbed ==
  \A n \in StaticNodes : (HasRow(n) /\ n \in due)
                           ~> (~HasRow(n) \/ IsTesting(n))

-----------------------------------------------------------------------------
(* The queue implements the lease protocol of ProbeLease. *)

Lease == INSTANCE ProbeLease WITH
  Tokens <- Slots, Items <- Nodes, None <- NoConfig,
  holder <- [s \in Slots |-> IF work[s] = Idle THEN NoConfig ELSE work[s].node],
  marked <- {n \in Nodes : IsTesting(n)},
  recovering <- pc = "boot"

\* Every step of the queue is a step of the lease protocol or changes neither
\* a lease nor a mark: in particular no step but a claim marks a row, and a
\* process that restarts leases nothing before it has recovered.
ImplementsLease == Lease!Spec

=============================================================================
