------------------------------- MODULE Traffic -------------------------------
(***************************************************************************)
(* Traffic accounting and quota alerts (service/traffic_service.go over    *)
(* store/traffic_store.go).                                                *)
(*                                                                         *)
(* One goroutine polls mihomo's connections, flushes what it counted and   *)
(* checks the quotas; every summary a page asks for flushes as well.  The  *)
(* database is written without the lock, a write can fail, and the process *)
(* may stop anywhere: main does not wait for the last flush.               *)
(*                                                                         *)
(* Upload and download are one number, and the hourly rows are summed up   *)
(* by the billing cycle they lie in.  What a vendor reports is any of      *)
(* Reports; pruning (90 days) reaches no cycle of the model.               *)
(***************************************************************************)
EXTENDS Naturals, Functions

CONSTANTS
    Conns,          \* connection ids of mihomo; an id may be used again
    Nodes,          \* outbound nodes, all matched by every provider's patterns
    Accounts,       \* ids of traffic providers, each given once
    Quotas,         \* quotas a provider may have, 0 for none
    Thresholds,     \* percentages of the alert settings
    Reports,        \* usage a vendor may report (0 when it reports nothing)
    MaxCycles,      \* bound: billing cycles
    MaxMoved,       \* bound: what moves through one node
    None

ASSUME TrafficAssumption ==
    /\ MaxCycles \in Nat \ {0} /\ MaxMoved \in Nat /\ Quotas \subseteq Nat
    /\ None \notin Nat /\ None \notin [node : Nodes, bytes : Nat]
    /\ None \notin [quota : Quotas, enabled : BOOLEAN]

VARIABLES
    conns,          \* mihomo: the open connections, [node, bytes]
    moved,          \* by node, all that ever moved (observed only)
    lastSeen,       \* counter of each connection at the last good poll
    baseline,       \* whether a poll set them since the start or a failure
    pending,        \* counted, not yet written
    taken,          \* by flusher, what it took out of pending and writes
    hourly,         \* table traffic_hourly
    counted,        \* all that was counted and no restart lost (observed only)
    cycle,          \* the billing cycle it is now
    accounts,       \* table traffic_providers
    given,          \* ids used so far
    deleting,       \* providers somebody began to delete (observed only)
    channel,        \* table traffic_settings: "" or a channel
    fired, notified,\* table traffic_alerts, and the rows marked as notified
    delivered,      \* by alert, how often it was sent (observed only)
    loop            \* the goroutine: [pc, todo, alert, channel]

counters == <<lastSeen, baseline, pending, taken, counted>>
tables == <<hourly, accounts, channel, fired, notified>>
mihomoSide == <<conns, moved>>
observed == <<given, deleting, delivered>>
trafficVars == <<counters, tables, mihomoSide, observed, cycle, loop>>

Flushers == {"loop", "page"}
Buckets == (1..MaxCycles) \X Nodes
Alerts == Accounts \X (1..MaxCycles) \X Thresholds
Account == [quota : Quotas, enabled : BOOLEAN]

Zero == [b \in Buckets |-> 0]
NothingTaken == [f \in Flushers |-> Zero]
NeverSeen == [c \in Conns |-> None]
Plus(f, g) == [b \in Buckets |-> f[b] + g[b]]

AlertsOf(p) == {a \in Alerts : a[1] = p}
Exists(p) == accounts[p] # None

-----------------------------------------------------------------------------
(* mihomo (external): connections open, move bytes and close, all of them  *)
(* when it restarts.                                                       *)

Open == {c \in Conns : conns[c] # None}

ConnOpens ==
    /\ \E c \in Conns \ Open, n \in Nodes : conns' = [conns EXCEPT ![c] = [node |-> n, bytes |-> 0]]
    /\ UNCHANGED <<counters, tables, moved, observed, cycle, loop>>

ConnMoves ==
    /\ \E c \in Open :
          /\ moved[conns[c].node] < MaxMoved
          /\ conns' = [conns EXCEPT ![c].bytes = @ + 1]
          /\ moved' = [moved EXCEPT ![conns[c].node] = @ + 1]
    /\ UNCHANGED <<counters, tables, observed, cycle, loop>>

ConnCloses ==
    /\ \E c \in Open : conns' = [conns EXCEPT ![c] = None]
    /\ UNCHANGED <<counters, tables, moved, observed, cycle, loop>>

-----------------------------------------------------------------------------
(* poll and ingest.                                                        *)

(* As Fresh when only a counter that went back tells a new connection. *)
FreshUnbased(c) ==
    IF lastSeen[c] = None \/ conns[c].bytes < lastSeen[c] THEN conns[c].bytes
    ELSE conns[c].bytes - lastSeen[c]

(* What the snapshot shows of c since the last one: nothing before there   *)
(* is a baseline, all of it when the connection is new or its counter went *)
(* back (the id was used again).                                           *)
Fresh(c) ==
    IF ~baseline THEN 0
    ELSE IF lastSeen[c] = None \/ conns[c].bytes < lastSeen[c] THEN conns[c].bytes
    ELSE conns[c].bytes - lastSeen[c]

OpenOn(n) == {c \in Open : conns[c].node = n}
Uncounted(n) == SumFunction([c \in OpenOn(n) |-> Fresh(c)])

Deltas == [b \in Buckets |-> IF b[1] # cycle THEN 0 ELSE Uncounted(b[2])]

(* One round of the ticker; MaxMoved bounds what it can find.              *)
PollConnections ==
    /\ loop.pc = "idle"
    /\ \/ /\ Deltas \in [Buckets -> 0..MaxMoved]
          /\ pending' = Plus(pending, Deltas) /\ counted' = Plus(counted, Deltas)
          /\ lastSeen' = [c \in Conns |-> IF c \in Open THEN conns[c].bytes ELSE None]
          /\ baseline' = TRUE
       \/ /\ lastSeen' = NeverSeen /\ baseline' = FALSE
          /\ UNCHANGED <<pending, counted>>
    /\ UNCHANGED <<taken, tables, mihomoSide, observed, cycle, loop>>

-----------------------------------------------------------------------------
(* flush, by the goroutine (from its ticker or a check) or a page's        *)
(* summary: what is pending is taken under the lock, written in one        *)
(* transaction, and put back when that fails.                              *)

Take(f) ==
    /\ taken' = [taken EXCEPT ![f] = pending] /\ pending' = Zero
    /\ UNCHANGED <<lastSeen, baseline, counted>>

Commit(f) ==
    /\ hourly' = Plus(hourly, taken[f]) /\ taken' = [taken EXCEPT ![f] = Zero]
    /\ UNCHANGED pending

(* As PutBack when what was counted meanwhile is overwritten. *)
PutBackOver(f) ==
    /\ pending' = [b \in Buckets |-> IF taken[f][b] > 0 THEN taken[f][b] ELSE pending[b]]
    /\ taken' = [taken EXCEPT ![f] = Zero]
    /\ UNCHANGED hourly

PutBack(f) ==
    /\ pending' = Plus(pending, taken[f]) /\ taken' = [taken EXCEPT ![f] = Zero]
    /\ UNCHANGED hourly

Write(f) ==
    /\ Commit(f) \/ PutBack(f)
    /\ UNCHANGED <<lastSeen, baseline, counted, accounts, channel, fired, notified>>

LoopFlush ==
    /\ loop.pc = "idle" /\ pending # Zero
    /\ Take("loop") /\ loop' = [loop EXCEPT !.pc = "flush"]
    /\ UNCHANGED <<tables, mihomoSide, observed, cycle>>

LoopWrite ==
    /\ loop.pc \in {"flush", "check"}
    /\ Write("loop")
    /\ loop' = [loop EXCEPT !.pc = IF loop.pc = "flush" THEN "idle" ELSE "summary"]
    /\ UNCHANGED <<mihomoSide, observed, cycle>>

-----------------------------------------------------------------------------
(* checkAlerts.                                                            *)

CheckStart ==
    /\ loop.pc = "idle"
    /\ \/ pending # Zero /\ Take("loop") /\ loop' = [loop EXCEPT !.pc = "check"]
       \/ pending = Zero /\ UNCHANGED counters /\ loop' = [loop EXCEPT !.pc = "summary"]
    /\ UNCHANGED <<tables, mihomoSide, observed, cycle>>

(* As Local when the flush before counts, but not what failed to be        *)
(* written; with the vendor's figure when that is larger.                  *)
Local == SumFunction([n \in Nodes |-> hourly[<<cycle, n>>]])
Usage(reported) == IF reported > Local THEN reported ELSE Local

Crossed(p, th, reported) ==
    /\ Exists(p) /\ accounts[p].enabled /\ accounts[p].quota > 0
    /\ Usage(reported) * 100 >= th * accounts[p].quota

(* The summary and the settings are read; the providers are worked through *)
(* as they were then.                                                      *)
CheckReads ==
    /\ loop.pc = "summary"
    /\ \E reported \in Reports :
          loop' = [loop EXCEPT !.pc = "alerts", !.channel = channel,
                               !.todo = {a \in Alerts : a[2] = cycle /\ Crossed(a[1], a[3], reported)}]
    /\ UNCHANGED <<counters, tables, mihomoSide, observed, cycle>>

(* As InsertAlert when the row is replaced instead of ignored. *)
InsertOrReplace(a) ==
    /\ fired' = fired \cup {a}
    /\ loop' = [loop EXCEPT !.todo = @ \ {a}, !.pc = "send", !.alert = a]

(* INSERT OR IGNORE: only the first alert of this provider, cycle and      *)
(* threshold goes on to be sent; none does when the statement fails.       *)
InsertAlert(a) ==
    \/ UNCHANGED fired /\ loop' = [loop EXCEPT !.todo = @ \ {a}]
    \/ /\ a \notin fired /\ fired' = fired \cup {a}
       /\ loop' = [loop EXCEPT !.todo = @ \ {a}, !.pc = "send", !.alert = a]

CheckInserts ==
    /\ loop.pc = "alerts"
    /\ \E a \in loop.todo : InsertAlert(a)
    /\ UNCHANGED <<counters, hourly, accounts, channel, notified, mihomoSide, observed, cycle>>

(* delivered counts to two, which is one too many. *)
Delivered(a) == delivered' = [delivered EXCEPT ![a] = IF @ < 2 THEN @ + 1 ELSE 2]

(* As CheckSends when an error is only logged. *)
CheckSendsOn ==
    /\ loop.pc = "send"
    /\ \/ loop.channel # "" /\ Delivered(loop.alert)
       \/ UNCHANGED delivered
    /\ loop' = [loop EXCEPT !.pc = IF loop.channel # "" THEN "mark" ELSE "alerts"]
    /\ UNCHANGED <<counters, tables, mihomoSide, given, deleting, cycle>>

(* No channel: nothing is sent and nothing marked.  An error, which may    *)
(* come after the message was delivered: not marked.                       *)
CheckSends ==
    /\ loop.pc = "send"
    /\ \/ /\ loop.channel # "" /\ Delivered(loop.alert)
          /\ \E pc \in {"mark", "alerts"} : loop' = [loop EXCEPT !.pc = pc]
       \/ UNCHANGED delivered /\ loop' = [loop EXCEPT !.pc = "alerts"]
    /\ UNCHANGED <<counters, tables, mihomoSide, given, deleting, cycle>>

(* An error of the statement is ignored. *)
CheckMarks ==
    /\ loop.pc = "mark"
    /\ notified' \in {notified, notified \cup ({loop.alert} \cap fired)}
    /\ loop' = [loop EXCEPT !.pc = "alerts"]
    /\ UNCHANGED <<counters, hourly, accounts, channel, fired, mihomoSide, observed, cycle>>

(* Also when the summary or the settings cannot be read. *)
CheckEnds ==
    /\ loop.pc = "summary" \/ (loop.pc = "alerts" /\ loop.todo = {})
    /\ loop' = [loop EXCEPT !.pc = "idle", !.alert = None]
    /\ UNCHANGED <<counters, tables, mihomoSide, observed, cycle>>

-----------------------------------------------------------------------------
(* Requests of pages.  A summary flushes first; one is under way at a time. *)

SummaryFlush ==
    /\ pending # Zero /\ taken["page"] = Zero
    /\ Take("page")
    /\ UNCHANGED <<tables, mihomoSide, observed, cycle, loop>>

SummaryWrite ==
    /\ taken["page"] # Zero
    /\ Write("page")
    /\ UNCHANGED <<mihomoSide, observed, cycle, loop>>

Stored(p, a) ==
    /\ accounts' = [accounts EXCEPT ![p] = a]
    /\ UNCHANGED <<counters, hourly, channel, fired, notified, mihomoSide, deleting, delivered, cycle, loop>>

CreateProvider(p, a) == p \notin given /\ given' = given \cup {p} /\ Stored(p, a)
UpdateProvider(p, a) == Exists(p) /\ UNCHANGED given /\ Stored(p, a)

(* DeleteProvider is three statements: what the vendor reported, the       *)
(* alerts, and only then the row, which may fail.                          *)
DeleteAlerts(p) ==
    /\ Exists(p)
    /\ deleting' = deleting \cup {p}
    /\ fired' = fired \ AlertsOf(p) /\ notified' = notified \ AlertsOf(p)
    /\ UNCHANGED <<counters, hourly, accounts, channel, mihomoSide, given, delivered, cycle, loop>>

DeleteRow(p) ==
    /\ p \in deleting /\ Exists(p)
    /\ accounts' = [accounts EXCEPT ![p] = None]
    /\ UNCHANGED <<counters, hourly, channel, fired, notified, mihomoSide, observed, cycle, loop>>

UpdateChannel(c) ==
    /\ channel' = c
    /\ UNCHANGED <<counters, hourly, accounts, fired, notified, mihomoSide, observed, cycle, loop>>

-----------------------------------------------------------------------------
NextCycle ==
    /\ cycle < MaxCycles /\ cycle' = cycle + 1
    /\ UNCHANGED <<counters, tables, mihomoSide, observed, loop>>

IdleLoop == [pc |-> "idle", todo |-> {}, alert |-> None, channel |-> ""]

(* A restart keeps the tables and nothing else, whatever the last flush    *)
(* managed to write.                                                       *)
Restart ==
    /\ lastSeen' = NeverSeen /\ baseline' = FALSE /\ pending' = Zero /\ taken' = NothingTaken
    /\ counted' = hourly /\ loop' = IdleLoop
    /\ UNCHANGED <<tables, mihomoSide, observed, cycle>>

(* A start of the process, after some traffic was counted. *)
TrafficInit ==
    /\ conns = [c \in Conns |-> None] /\ moved \in [Nodes -> 0..MaxMoved]
    /\ lastSeen = NeverSeen /\ baseline = FALSE /\ pending = Zero /\ taken = NothingTaken
    /\ hourly = [b \in Buckets |-> IF b[1] = 1 THEN moved[b[2]] ELSE 0] /\ counted = hourly
    /\ cycle = 1 /\ accounts \in [Accounts -> Account \cup {None}] /\ channel \in {"", "ntfy"}
    /\ fired = {} /\ notified = {} /\ loop = IdleLoop
    /\ given = {p \in Accounts : Exists(p)} /\ deleting = {} /\ delivered = [a \in Alerts |-> 0]

CheckNext ==
    CheckStart \/ CheckReads \/ CheckInserts \/ CheckSends \/ CheckMarks \/ CheckEnds

LoopNext == PollConnections \/ LoopFlush \/ LoopWrite \/ CheckNext

TrafficNext ==
    \/ ConnOpens \/ ConnMoves \/ ConnCloses \/ LoopNext \/ NextCycle \/ Restart
    \/ SummaryFlush \/ SummaryWrite
    \/ \E p \in Accounts, a \in Account : CreateProvider(p, a) \/ UpdateProvider(p, a)
    \/ \E p \in Accounts : DeleteAlerts(p) \/ DeleteRow(p)
    \/ \E c \in {"", "ntfy"} : UpdateChannel(c)

TrafficSpec == TrafficInit /\ [][TrafficNext]_trafficVars

-----------------------------------------------------------------------------
Pcs == {"idle", "flush", "check", "summary", "alerts", "send", "mark"}

TrafficTypeOK ==
    /\ conns \in [Conns -> [node : Nodes, bytes : Nat] \cup {None}] /\ moved \in [Nodes -> Nat]
    /\ lastSeen \in [Conns -> Nat \cup {None}] /\ baseline \in BOOLEAN
    /\ pending \in [Buckets -> Nat] /\ hourly \in [Buckets -> Nat] /\ counted \in [Buckets -> Nat]
    /\ taken \in [Flushers -> [Buckets -> Nat]]
    /\ cycle \in 1..MaxCycles
    /\ accounts \in [Accounts -> Account \cup {None}]
    /\ given \subseteq Accounts /\ deleting \subseteq given /\ {p \in Accounts : Exists(p)} \subseteq given
    /\ channel \in {"", "ntfy"}
    /\ fired \subseteq Alerts /\ notified \subseteq fired
    /\ delivered \in [Alerts -> 0..2]
    /\ loop \in [pc : Pcs, todo : SUBSET Alerts, alert : Alerts \cup {None}, channel : {"", "ntfy"}]

(* What was counted is in the table, waiting, or being written, once:      *)
(* however the two flushers, failed writes and polls overlap, nothing is   *)
(* lost or written twice.                                                  *)
CountedIsKept ==
    \A b \in Buckets : counted[b] = hourly[b] + pending[b] + taken["loop"][b] + taken["page"][b]

CountedOn(n) == SumFunction([k \in 1..MaxCycles |-> counted[<<k, n>>]])

(* No byte is counted twice or invented: not after a failed poll, not when *)
(* an id is used again, not across a restart.                              *)
CountedWasMoved == \A n \in Nodes : CountedOn(n) <= moved[n]

(* "threshold alerts (once per cycle)", README.md: over restarts, failed   *)
(* and repeated checks, falling and rising usage and edits of the quota,   *)
(* unless somebody begins to delete the provider: then a check under way   *)
(* may send one again.                                                     *)
AlertsGoOutOnce ==
    \A a \in Alerts : a[1] \notin deleting => delivered[a] <= 1

(* An alert the page does not show as "not notified" was delivered:        *)
(* whatever failed, was deleted or restarted between recording, sending    *)
(* and marking it.                                                         *)
NotifiedWasSent == \A a \in notified : delivered[a] > 0
=============================================================================
