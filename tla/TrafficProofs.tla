---------------------------- MODULE TrafficProofs ----------------------------
(***************************************************************************)
(* What Traffic promises for any connections, nodes, providers and         *)
(* thresholds.  The accounting needs that the goroutine holds nothing      *)
(* between two flushes; the alerts need that what is about to be sent was  *)
(* just recorded, and that what was sent is recorded still.  That nothing  *)
(* is counted that did not move takes what the open connections moved      *)
(* since the last poll into account, and lemmas about sums.                *)
(***************************************************************************)
EXTENDS Traffic, FiniteSetTheorems, TLAPS

(* What the goroutine took is written or put back before it does anything  *)
(* else.                                                                   *)
HoldsOnlyToWrite == loop.pc \notin {"flush", "check"} => taken["loop"] = Zero

Kept(p) == p \notin deleting

(* The alerts of a provider nobody deletes: what was sent is recorded, and *)
(* what is about to be sent is recorded and not sent.                      *)
SentIsFired == \A a \in Alerts : Kept(a[1]) /\ delivered[a] > 0 => a \in fired

SendsTheUnsent ==
    loop.pc = "send" => /\ loop.alert \in Alerts
                        /\ Kept(loop.alert[1]) => loop.alert \in fired /\ delivered[loop.alert] = 0

MarksTheSent == loop.pc = "mark" => loop.alert \in Alerts /\ delivered[loop.alert] > 0

(* The types of what is counted, and of what is checked.                   *)
CountTypes ==
    /\ conns \in [Conns -> [node : Nodes, bytes : Nat] \cup {None}] /\ moved \in [Nodes -> Nat]
    /\ lastSeen \in [Conns -> Nat \cup {None}] /\ baseline \in BOOLEAN
    /\ pending \in [Buckets -> Nat] /\ hourly \in [Buckets -> Nat] /\ counted \in [Buckets -> Nat]
    /\ taken \in [Flushers -> [Buckets -> Nat]]

LoopType == [pc : Pcs, todo : SUBSET Alerts, alert : Alerts \cup {None}, channel : {"", "ntfy"}]

CheckTypes ==
    /\ cycle \in 1..MaxCycles
    /\ accounts \in [Accounts -> Account \cup {None}]
    /\ given \subseteq Accounts /\ deleting \subseteq given /\ {p \in Accounts : Exists(p)} \subseteq given
    /\ channel \in {"", "ntfy"}
    /\ fired \subseteq Alerts /\ notified \subseteq fired
    /\ delivered \in [Alerts -> 0..2]
    /\ loop \in LoopType

CountInv == CountTypes /\ CountedIsKept /\ HoldsOnlyToWrite

AlertsInv == AlertsGoOutOnce /\ SentIsFired /\ SendsTheUnsent /\ MarksTheSent /\ NotifiedWasSent

CheckInv == CheckTypes /\ AlertsInv

IInv == CountInv /\ CheckInv

LEMMA TypesInTwo == TrafficTypeOK <=> CountTypes /\ CheckTypes
BY DEF TrafficTypeOK, CountTypes, CheckTypes, LoopType

LEMMA BucketFunctions ==
    /\ Zero \in [Buckets -> Nat] /\ \A b \in Buckets : Zero[b] = 0
    /\ \A f, g \in [Buckets -> Nat] : /\ Plus(f, g) \in [Buckets -> Nat]
                                      /\ \A b \in Buckets : Plus(f, g)[b] = f[b] + g[b]
    /\ NothingTaken \in [Flushers -> [Buckets -> Nat]]
    /\ \A f \in Flushers : NothingTaken[f] = Zero
    /\ "loop" \in Flushers /\ "page" \in Flushers
BY DEF Zero, Plus, NothingTaken, Flushers

LEMMA LoopStarts == IdleLoop \in LoopType /\ IdleLoop.pc = "idle"
BY DEF IdleLoop, Pcs, LoopType

LEMMA InitHolds == TrafficInit => IInv
<1> SUFFICES ASSUME TrafficInit PROVE IInv
    OBVIOUS
<1>1. 0..MaxMoved \subseteq Nat /\ 1 \in 1..MaxCycles
      BY TrafficAssumption
<1>2. moved \in [Nodes -> Nat]
  <2>1. moved \in [Nodes -> 0..MaxMoved]
        BY DEF TrafficInit
  <2>2. QED  BY <1>1, <2>1
<1>3. hourly \in [Buckets -> Nat] /\ counted = hourly
  <2>1. \A b \in Buckets : b[2] \in Nodes
        BY DEF Buckets
  <2>2. hourly = [b \in Buckets |-> IF b[1] = 1 THEN moved[b[2]] ELSE 0] /\ counted = hourly
        BY DEF TrafficInit
  <2>3. QED  BY <1>2, <2>1, <2>2
<1>4. delivered = [a \in Alerts |-> 0] /\ fired = {} /\ notified = {} /\ loop = IdleLoop
      BY DEF TrafficInit
<1>5. pending = Zero /\ taken = NothingTaken
      BY DEF TrafficInit
<1>6. TrafficTypeOK
  <2>1. conns \in [Conns -> [node : Nodes, bytes : Nat] \cup {None}]
        BY DEF TrafficInit
  <2>2. lastSeen \in [Conns -> Nat \cup {None}] /\ baseline \in BOOLEAN
        BY DEF TrafficInit, NeverSeen
  <2>3. /\ cycle \in 1..MaxCycles /\ accounts \in [Accounts -> Account \cup {None}] /\ channel \in {"", "ntfy"}
        BY <1>1 DEF TrafficInit
  <2>4. given \subseteq Accounts /\ deleting \subseteq given /\ {p \in Accounts : Exists(p)} \subseteq given
        BY DEF TrafficInit
  <2>5. delivered \in [Alerts -> 0..2]
        BY <1>4
  <2>6. pending \in [Buckets -> Nat] /\ taken \in [Flushers -> [Buckets -> Nat]]
        BY <1>5, BucketFunctions
  <2>7. loop \in LoopType
        BY <1>4, LoopStarts
  <2>8. CountTypes
        BY <1>2, <1>3, <2>1, <2>2, <2>6 DEF CountTypes
  <2>9. CheckTypes
        BY <1>4, <2>3, <2>4, <2>5, <2>7 DEF CheckTypes
  <2>10. QED  BY <2>8, <2>9, TypesInTwo
<1>7. CountedIsKept
  <2>1. pending = Zero /\ taken["loop"] = Zero /\ taken["page"] = Zero
        BY <1>5, BucketFunctions
  <2> SUFFICES ASSUME NEW b \in Buckets
               PROVE  counted[b] = hourly[b] + pending[b] + taken["loop"][b] + taken["page"][b]
      BY DEF CountedIsKept
  <2>2. Zero[b] = 0 /\ hourly[b] \in Nat
        BY <1>3, BucketFunctions
  <2>3. QED  BY <1>3, <2>1, <2>2
<1>8. HoldsOnlyToWrite
      BY <1>5, BucketFunctions DEF HoldsOnlyToWrite
<1>9. AlertsInv
  <2>1. \A a \in Alerts : delivered[a] = 0
        BY <1>4
  <2>2. AlertsGoOutOnce /\ SentIsFired /\ NotifiedWasSent
        BY <1>4, <2>1 DEF AlertsGoOutOnce, SentIsFired, NotifiedWasSent
  <2>3. SendsTheUnsent /\ MarksTheSent
        BY <1>4, LoopStarts DEF SendsTheUnsent, MarksTheSent
  <2>4. QED  BY <2>2, <2>3 DEF AlertsInv
<1>10. QED  BY <1>6, <1>7, <1>8, <1>9, TypesInTwo DEF IInv, CountInv, CheckInv

-----------------------------------------------------------------------------
(* Counting. *)

(* Nothing is counted or written, and the goroutine takes nothing. *)
LEMMA CountsNothing ==
    ASSUME CountInv, UNCHANGED <<pending, taken, counted, hourly, moved>>,
           conns' \in [Conns -> [node : Nodes, bytes : Nat] \cup {None}],
           lastSeen' \in [Conns -> Nat \cup {None}], baseline' \in BOOLEAN,
           loop'.pc \notin {"flush", "check"} => loop.pc \notin {"flush", "check"}
    PROVE  CountInv'
BY DEF CountInv, CountTypes, CountedIsKept, HoldsOnlyToWrite

LEMMA LeavesCounts ==
    ASSUME CountInv, UNCHANGED <<counters, hourly, mihomoSide>>,
           loop'.pc \notin {"flush", "check"} => loop.pc \notin {"flush", "check"}
    PROVE  CountInv'
BY CountsNothing DEF CountInv, CountTypes, counters, mihomoSide

(* mihomo's own steps. *)
LEMMA ConnsKeepCounts ==
    ASSUME CountInv, ConnOpens \/ ConnMoves \/ ConnCloses
    PROVE  CountInv'
<1>0. conns \in [Conns -> [node : Nodes, bytes : Nat] \cup {None}] /\ moved \in [Nodes -> Nat]
      BY DEF CountInv, CountTypes
<1>1. /\ UNCHANGED <<pending, taken, counted, hourly, lastSeen, baseline, loop>>
      BY DEF ConnOpens, ConnMoves, ConnCloses, counters, tables
<1>2. CASE ConnOpens
  <2>1. PICK c \in Conns \ Open, n \in Nodes : conns' = [conns EXCEPT ![c] = [node |-> n, bytes |-> 0]]
        BY <1>2 DEF ConnOpens
  <2>2. conns' \in [Conns -> [node : Nodes, bytes : Nat] \cup {None}]
        BY <1>0, <2>1
  <2>3. moved' = moved
        BY <1>2 DEF ConnOpens
  <2>4. QED  BY <1>1, <2>2, <2>3, CountsNothing DEF CountInv, CountTypes
<1>3. CASE ConnMoves
  <2>1. PICK c \in Open : /\ conns' = [conns EXCEPT ![c].bytes = @ + 1]
                          /\ moved' = [moved EXCEPT ![conns[c].node] = @ + 1]
        BY <1>3 DEF ConnMoves
  <2>2. c \in Conns /\ conns[c] \in [node : Nodes, bytes : Nat]
        BY <1>0 DEF Open
  <2>3. [conns[c] EXCEPT !.bytes = @ + 1] \in [node : Nodes, bytes : Nat]
        BY <2>2
  <2>4. conns' \in [Conns -> [node : Nodes, bytes : Nat] \cup {None}]
        BY <1>0, <2>1, <2>2, <2>3
  <2>5. conns[c].node \in Nodes
        BY <2>2
  <2>6. moved' \in [Nodes -> Nat]
        BY <1>0, <2>1, <2>5
  <2>7. QED  BY <1>1, <2>4, <2>6 DEF CountInv, CountTypes, CountedIsKept, HoldsOnlyToWrite
<1>4. CASE ConnCloses
  <2>1. PICK c \in Open : conns' = [conns EXCEPT ![c] = None]
        BY <1>4 DEF ConnCloses
  <2>2. conns' \in [Conns -> [node : Nodes, bytes : Nat] \cup {None}]
        BY <1>0, <2>1
  <2>3. moved' = moved
        BY <1>4 DEF ConnCloses
  <2>4. QED  BY <1>1, <2>2, <2>3, CountsNothing DEF CountInv, CountTypes
<1>5. QED  BY <1>2, <1>3, <1>4

(* A poll adds the same to what was counted and what is pending. *)
LEMMA PollKeepsCounts ==
    ASSUME CountInv, PollConnections
    PROVE  CountInv'
<1>0. CountTypes /\ UNCHANGED <<taken, hourly, conns, moved, loop>>
      BY DEF CountInv, PollConnections, tables, mihomoSide
<1>1. CASE /\ Deltas \in [Buckets -> 0..MaxMoved]
           /\ pending' = Plus(pending, Deltas) /\ counted' = Plus(counted, Deltas)
           /\ lastSeen' = [c \in Conns |-> IF c \in Open THEN conns[c].bytes ELSE None]
           /\ baseline' = TRUE
  <2>1. Deltas \in [Buckets -> Nat]
    <3>1. 0..MaxMoved \subseteq Nat
          BY TrafficAssumption
    <3>2. QED  BY <1>1, <3>1
  <2>2. pending' \in [Buckets -> Nat] /\ counted' \in [Buckets -> Nat]
        BY <1>0, <1>1, <2>1, BucketFunctions DEF CountTypes
  <2>3. \A c \in Open : conns[c].bytes \in Nat
        BY <1>0 DEF Open, CountTypes
  <2>4. lastSeen' \in [Conns -> Nat \cup {None}]
        BY <1>1, <2>3
  <2>5. CountTypes'
        BY <1>0, <1>1, <2>2, <2>4 DEF CountTypes
  <2>6. CountedIsKept'
    <3> SUFFICES ASSUME NEW b \in Buckets
                 PROVE  counted'[b] = hourly'[b] + pending'[b] + taken'["loop"][b] + taken'["page"][b]
        BY DEF CountedIsKept
    <3>1. counted'[b] = counted[b] + Deltas[b] /\ pending'[b] = pending[b] + Deltas[b]
          BY <1>0, <1>1, <2>1, BucketFunctions DEF CountTypes
    <3>2. counted[b] = hourly[b] + pending[b] + taken["loop"][b] + taken["page"][b]
          BY DEF CountInv, CountedIsKept
    <3>3. /\ counted[b] \in Nat /\ hourly[b] \in Nat /\ pending[b] \in Nat /\ Deltas[b] \in Nat
          /\ taken["loop"][b] \in Nat /\ taken["page"][b] \in Nat
          BY <1>0, <2>1, BucketFunctions DEF CountTypes
    <3>4. QED  BY <1>0, <3>1, <3>2, <3>3
  <2>7. QED  BY <1>0, <2>5, <2>6 DEF CountInv, HoldsOnlyToWrite
<1>2. CASE lastSeen' = NeverSeen /\ baseline' = FALSE /\ UNCHANGED <<pending, counted>>
  <2>1. lastSeen' \in [Conns -> Nat \cup {None}]
        BY <1>2 DEF NeverSeen
  <2>2. QED  BY <1>0, <1>2, <2>1, CountsNothing DEF CountTypes
<1>3. QED  BY <1>1, <1>2 DEF PollConnections

(* Taking, for a flusher that holds nothing. *)
LEMMA TakeKeepsCounts ==
    ASSUME CountInv, NEW f \in Flushers, taken[f] = Zero, Take(f), UNCHANGED <<hourly, mihomoSide>>,
           f = "loop" => loop'.pc \in {"flush", "check"},
           f = "page" => loop' = loop
    PROVE  CountInv'
<1>0. CountTypes /\ UNCHANGED <<lastSeen, baseline, counted, hourly, conns, moved>>
      BY DEF CountInv, Take, mihomoSide
<1>1. taken' = [taken EXCEPT ![f] = pending] /\ pending' = Zero
      BY DEF Take
<1>2. CountTypes'
      BY <1>0, <1>1, BucketFunctions DEF CountTypes
<1>3. CountedIsKept'
  <2> SUFFICES ASSUME NEW b \in Buckets
               PROVE  counted'[b] = hourly'[b] + pending'[b] + taken'["loop"][b] + taken'["page"][b]
      BY DEF CountedIsKept
  <2>1. counted[b] = hourly[b] + pending[b] + taken["loop"][b] + taken["page"][b]
        BY DEF CountInv, CountedIsKept
  <2>2. /\ counted[b] \in Nat /\ hourly[b] \in Nat /\ pending[b] \in Nat
        /\ taken["loop"][b] \in Nat /\ taken["page"][b] \in Nat /\ Zero[b] = 0
        BY <1>0, BucketFunctions DEF CountTypes
  <2>3. taken[f][b] = 0 /\ taken'[f][b] = pending[b]
        BY <1>0, <1>1, <2>2 DEF CountTypes
  <2>4. \A g \in Flushers : g # f => taken'[g] = taken[g]
        BY <1>0, <1>1 DEF CountTypes
  <2>5. CASE f = "loop"
        BY <1>0, <1>1, <2>1, <2>2, <2>3, <2>4, <2>5, BucketFunctions
  <2>6. CASE f = "page"
        BY <1>0, <1>1, <2>1, <2>2, <2>3, <2>4, <2>6, BucketFunctions
  <2>7. QED  BY <2>5, <2>6 DEF Flushers
<1>4. HoldsOnlyToWrite'
  <2>1. CASE f = "loop"
        BY <2>1 DEF HoldsOnlyToWrite
  <2>2. CASE f = "page"
        BY <1>0, <1>1, <2>2, BucketFunctions DEF CountInv, CountTypes, HoldsOnlyToWrite
  <2>3. QED  BY <2>1, <2>2 DEF Flushers
<1>5. QED  BY <1>2, <1>3, <1>4 DEF CountInv

(* Writing what was taken, or putting it back. *)
LEMMA WriteKeepsCounts ==
    ASSUME CountInv, NEW f \in Flushers, Write(f), UNCHANGED mihomoSide,
           f = "page" => loop' = loop
    PROVE  CountInv'
<1>0. CountTypes /\ UNCHANGED <<lastSeen, baseline, counted, conns, moved>>
      BY DEF CountInv, Write, mihomoSide
<1>1. /\ taken' = [taken EXCEPT ![f] = Zero]
      /\ \/ hourly' = Plus(hourly, taken[f]) /\ pending' = pending
         \/ hourly' = hourly /\ pending' = Plus(pending, taken[f])
      BY DEF Write, Commit, PutBack
<1>2. taken[f] \in [Buckets -> Nat]
      BY <1>0 DEF CountTypes
<1>3. CountTypes'
  <2>1. hourly' \in [Buckets -> Nat] /\ pending' \in [Buckets -> Nat]
    <3>1. Plus(hourly, taken[f]) \in [Buckets -> Nat] /\ Plus(pending, taken[f]) \in [Buckets -> Nat]
          BY <1>0, <1>2, BucketFunctions DEF CountTypes
    <3>2. QED  BY <1>0, <1>1, <3>1 DEF CountTypes
  <2>2. taken' \in [Flushers -> [Buckets -> Nat]]
        BY <1>0, <1>1, BucketFunctions DEF CountTypes
  <2>3. QED  BY <1>0, <2>1, <2>2 DEF CountTypes
<1>4. CountedIsKept'
  <2> SUFFICES ASSUME NEW b \in Buckets
               PROVE  counted'[b] = hourly'[b] + pending'[b] + taken'["loop"][b] + taken'["page"][b]
      BY DEF CountedIsKept
  <2>1. counted[b] = hourly[b] + pending[b] + taken["loop"][b] + taken["page"][b]
        BY DEF CountInv, CountedIsKept
  <2>2. /\ counted[b] \in Nat /\ hourly[b] \in Nat /\ pending[b] \in Nat
        /\ taken["loop"][b] \in Nat /\ taken["page"][b] \in Nat /\ Zero[b] = 0
        BY <1>0, BucketFunctions DEF CountTypes
  <2>3. taken'[f][b] = 0
        BY <1>0, <1>1, <2>2 DEF CountTypes
  <2>4. \A g \in Flushers : g # f => taken'[g] = taken[g]
        BY <1>0, <1>1 DEF CountTypes
  <2>5. hourly'[b] + pending'[b] = hourly[b] + pending[b] + taken[f][b]
    <3>1. /\ Plus(hourly, taken[f])[b] = hourly[b] + taken[f][b]
          /\ Plus(pending, taken[f])[b] = pending[b] + taken[f][b]
          BY <1>0, <1>2, BucketFunctions DEF CountTypes
    <3>2. taken[f][b] \in Nat
          BY <1>2
    <3>3. QED  BY <1>1, <2>2, <3>1, <3>2
  <2>6. hourly'[b] \in Nat /\ pending'[b] \in Nat
        BY <1>3 DEF CountTypes
  <2>7. CASE f = "loop"
        BY <1>0, <2>1, <2>2, <2>3, <2>4, <2>5, <2>6, <2>7, BucketFunctions
  <2>8. CASE f = "page"
        BY <1>0, <2>1, <2>2, <2>3, <2>4, <2>5, <2>6, <2>8, BucketFunctions
  <2>9. QED  BY <2>7, <2>8 DEF Flushers
<1>5. HoldsOnlyToWrite'
  <2>1. CASE f = "loop"
        BY <1>0, <1>1, <2>1, BucketFunctions DEF CountTypes, HoldsOnlyToWrite
  <2>2. CASE f = "page"
        BY <1>0, <1>1, <2>2, BucketFunctions DEF CountInv, CountTypes, HoldsOnlyToWrite
  <2>3. QED  BY <2>1, <2>2 DEF Flushers
<1>6. QED  BY <1>3, <1>4, <1>5 DEF CountInv

LEMMA RestartKeepsCounts ==
    ASSUME CountInv, Restart
    PROVE  CountInv'
<1>0. /\ CountTypes /\ UNCHANGED <<hourly, conns, moved>>
      /\ lastSeen' = NeverSeen /\ baseline' = FALSE /\ pending' = Zero /\ taken' = NothingTaken
      /\ counted' = hourly
      BY DEF CountInv, Restart, tables, mihomoSide
<1>1. CountTypes'
      BY <1>0, BucketFunctions DEF CountTypes, NeverSeen
<1>2. CountedIsKept'
  <2>1. pending' = Zero /\ taken'["loop"] = Zero /\ taken'["page"] = Zero
        BY <1>0, BucketFunctions
  <2> SUFFICES ASSUME NEW b \in Buckets
               PROVE  counted'[b] = hourly'[b] + pending'[b] + taken'["loop"][b] + taken'["page"][b]
      BY DEF CountedIsKept
  <2>2. Zero[b] = 0 /\ hourly[b] \in Nat
        BY <1>0, BucketFunctions DEF CountTypes
  <2>3. QED  BY <1>0, <2>1, <2>2
<1>3. HoldsOnlyToWrite'
      BY <1>0, BucketFunctions DEF HoldsOnlyToWrite
<1>4. QED  BY <1>1, <1>2, <1>3 DEF CountInv

-----------------------------------------------------------------------------
(* Checking. *)

(* The goroutine moves, but not to send or to mark. *)
LEMMA LeavesAlerts ==
    ASSUME CheckInv, UNCHANGED <<cycle, accounts, channel, fired, notified, observed>>,
           loop' \in LoopType, loop'.pc \notin {"send", "mark"}
    PROVE  CheckInv'
<1>1. UNCHANGED <<given, deleting, delivered>>
      BY DEF observed
<1>2. CheckTypes'
      BY <1>1 DEF CheckInv, CheckTypes, Exists
<1>3. SendsTheUnsent' /\ MarksTheSent'
      BY DEF SendsTheUnsent, MarksTheSent
<1>4. AlertsGoOutOnce' /\ SentIsFired' /\ NotifiedWasSent'
      BY <1>1 DEF CheckInv, AlertsInv, AlertsGoOutOnce, SentIsFired, NotifiedWasSent, Kept
<1>5. QED  BY <1>2, <1>3, <1>4 DEF CheckInv, AlertsInv

(* The tables of providers and settings change, not those of alerts. *)
LEMMA TablesChange ==
    ASSUME CheckInv, UNCHANGED <<fired, notified, deleting, delivered, loop>>,
           cycle' \in 1..MaxCycles, accounts' \in [Accounts -> Account \cup {None}], channel' \in {"", "ntfy"},
           given' \subseteq Accounts, given \subseteq given', {p \in Accounts : Exists(p)}' \subseteq given'
    PROVE  CheckInv'
<1>1. CheckTypes'
      BY DEF CheckInv, CheckTypes
<1>2. AlertsInv'
      BY DEF CheckInv, AlertsInv, AlertsGoOutOnce, SentIsFired, SendsTheUnsent, MarksTheSent, NotifiedWasSent, Kept
<1>3. QED  BY <1>1, <1>2 DEF CheckInv

LEMMA InsertKeepsAlerts ==
    ASSUME CheckInv, CheckInserts
    PROVE  CheckInv'
<1>0. /\ CheckTypes /\ AlertsInv /\ loop \in LoopType /\ loop.pc = "alerts"
      /\ UNCHANGED <<cycle, accounts, channel, notified, given, deleting, delivered>>
      BY DEF CheckInv, CheckTypes, CheckInserts, observed
<1>1. PICK a \in loop.todo : InsertAlert(a)
      BY DEF CheckInserts
<1>2. a \in Alerts
      BY <1>0 DEF LoopType
<1>3. CASE UNCHANGED fired /\ loop' = [loop EXCEPT !.todo = @ \ {a}]
  <2>1. loop' \in LoopType /\ loop'.pc = "alerts"
        BY <1>0, <1>3 DEF LoopType
  <2>2. QED  BY <1>0, <1>3, <2>1, LeavesAlerts DEF observed
<1>4. CASE /\ a \notin fired /\ fired' = fired \cup {a}
           /\ loop' = [loop EXCEPT !.todo = @ \ {a}, !.pc = "send", !.alert = a]
  <2>1. loop' \in LoopType /\ loop'.pc = "send" /\ loop'.alert = a
        BY <1>0, <1>2, <1>4 DEF LoopType, Pcs
  <2>2. CheckTypes'
        BY <1>0, <1>2, <1>4, <2>1 DEF CheckTypes, Exists
  <2>3. SentIsFired' /\ AlertsGoOutOnce' /\ NotifiedWasSent'
        BY <1>0, <1>4 DEF AlertsInv, SentIsFired, AlertsGoOutOnce, NotifiedWasSent, Kept
  <2>4. Kept(a[1]) => delivered[a] = 0
    <3>1. delivered[a] \in 0..2
          BY <1>0, <1>2 DEF CheckTypes
    <3>2. QED  BY <1>0, <1>2, <1>4, <3>1 DEF AlertsInv, SentIsFired
  <2>5. SendsTheUnsent'
        BY <1>0, <1>2, <1>4, <2>1, <2>4 DEF SendsTheUnsent, Kept
  <2>6. MarksTheSent'
        BY <2>1 DEF MarksTheSent
  <2>7. QED  BY <2>2, <2>3, <2>5, <2>6 DEF CheckInv, AlertsInv
<1>5. QED  BY <1>1, <1>3, <1>4 DEF InsertAlert

LEMMA SendKeepsAlerts ==
    ASSUME CheckInv, CheckSends
    PROVE  CheckInv'
<1>0. /\ CheckTypes /\ AlertsInv /\ loop \in LoopType /\ loop.pc = "send"
      /\ UNCHANGED <<cycle, accounts, channel, fired, notified, given, deleting>>
      BY DEF CheckInv, CheckTypes, CheckSends, tables
<1>1. CASE UNCHANGED delivered /\ loop' = [loop EXCEPT !.pc = "alerts"]
  <2>1. loop' \in LoopType /\ loop'.pc = "alerts"
        BY <1>0, <1>1 DEF LoopType, Pcs
  <2>2. QED  BY <1>0, <1>1, <2>1, LeavesAlerts DEF observed
<1>2. CASE Delivered(loop.alert) /\ \E pc \in {"mark", "alerts"} : loop' = [loop EXCEPT !.pc = pc]
  <2> DEFINE a == loop.alert
  <2>1. a \in Alerts /\ (Kept(a[1]) => a \in fired /\ delivered[a] = 0)
        BY <1>0 DEF AlertsInv, SendsTheUnsent
  <2>2. delivered \in [Alerts -> 0..2]
        BY <1>0 DEF CheckTypes
  <2>3. delivered' = [delivered EXCEPT ![a] = IF delivered[a] < 2 THEN delivered[a] + 1 ELSE 2]
        BY <1>2 DEF Delivered
  <2>4. delivered[a] \in 0..2
        BY <2>1, <2>2
  <2>5. (IF delivered[a] < 2 THEN delivered[a] + 1 ELSE 2) \in 1..2
        BY <2>4
  <2>6. delivered'[a] \in 1..2 /\ (delivered[a] = 0 => delivered'[a] = 1)
        BY <2>1, <2>2, <2>3, <2>4
  <2>7. \A c \in Alerts : c # a => delivered'[c] = delivered[c]
        BY <2>2, <2>3
  <2>8. delivered' \in [Alerts -> 0..2]
    <3>1. (IF delivered[a] < 2 THEN delivered[a] + 1 ELSE 2) \in 0..2
          BY <2>4
    <3>2. QED  BY <2>2, <2>3, <3>1
  <2>9. loop' \in LoopType /\ loop'.pc # "send" /\ loop'.alert = a
        BY <1>0, <1>2 DEF LoopType, Pcs
  <2> HIDE DEF a
  <2>10. CheckTypes'
        BY <1>0, <2>8, <2>9 DEF CheckTypes, Exists
  <2>11. AlertsGoOutOnce'
    <3> SUFFICES ASSUME NEW c \in Alerts, c[1] \notin deleting'
                 PROVE  delivered'[c] <= 1
        BY DEF AlertsGoOutOnce
    <3>1. CASE c = a
          BY <1>0, <2>1, <2>6, <3>1 DEF Kept
    <3>2. CASE c # a
          BY <1>0, <2>7, <3>2 DEF AlertsInv, AlertsGoOutOnce
    <3>3. QED  BY <3>1, <3>2
  <2>12. SentIsFired'
    <3> SUFFICES ASSUME NEW c \in Alerts, Kept(c[1])', delivered'[c] > 0
                 PROVE  c \in fired'
        BY DEF SentIsFired
    <3>1. CASE c = a
          BY <1>0, <2>1, <3>1 DEF Kept
    <3>2. CASE c # a
          BY <1>0, <2>7, <3>2 DEF AlertsInv, SentIsFired, Kept
    <3>3. QED  BY <3>1, <3>2
  <2>13. NotifiedWasSent'
    <3> SUFFICES ASSUME NEW c \in notified
                 PROVE  delivered'[c] > 0
        BY <1>0 DEF NotifiedWasSent
    <3>1. c \in Alerts /\ delivered[c] > 0
          BY <1>0 DEF CheckTypes, AlertsInv, NotifiedWasSent
    <3>2. QED  BY <2>6, <2>7, <3>1
  <2>14. SendsTheUnsent' /\ MarksTheSent'
        BY <2>1, <2>6, <2>9 DEF SendsTheUnsent, MarksTheSent
  <2>15. QED  BY <2>10, <2>11, <2>12, <2>13, <2>14 DEF CheckInv, AlertsInv
<1>3. QED  BY <1>1, <1>2 DEF CheckSends

LEMMA MarkKeepsAlerts ==
    ASSUME CheckInv, CheckMarks
    PROVE  CheckInv'
<1>0. /\ CheckTypes /\ AlertsInv /\ loop \in LoopType /\ loop.pc = "mark"
      /\ UNCHANGED <<cycle, accounts, channel, fired, given, deleting, delivered>>
      /\ notified' \subseteq notified \cup ({loop.alert} \cap fired) /\ loop' = [loop EXCEPT !.pc = "alerts"]
      BY DEF CheckInv, CheckTypes, CheckMarks, observed
<1>1. loop' \in LoopType /\ loop'.pc = "alerts"
      BY <1>0 DEF LoopType, Pcs
<1>2. CheckTypes'
      BY <1>0, <1>1 DEF CheckTypes, Exists
<1>3. AlertsGoOutOnce' /\ SentIsFired'
      BY <1>0 DEF AlertsInv, AlertsGoOutOnce, SentIsFired, Kept
<1>4. NotifiedWasSent'
      BY <1>0 DEF AlertsInv, NotifiedWasSent, MarksTheSent
<1>5. SendsTheUnsent' /\ MarksTheSent'
      BY <1>1 DEF SendsTheUnsent, MarksTheSent
<1>6. QED  BY <1>2, <1>3, <1>4, <1>5 DEF CheckInv, AlertsInv

(* Deleting takes the records of the provider's alerts, and nothing is     *)
(* promised of them from there on.                                         *)
LEMMA DeletionKeepsAlerts ==
    ASSUME CheckInv, NEW p \in Accounts, DeleteAlerts(p)
    PROVE  CheckInv'
<1>0. /\ CheckTypes /\ AlertsInv /\ Exists(p)
      /\ deleting' = deleting \cup {p}
      /\ fired' = fired \ AlertsOf(p) /\ notified' = notified \ AlertsOf(p)
      /\ UNCHANGED <<cycle, accounts, channel, given, delivered, loop>>
      BY DEF CheckInv, DeleteAlerts
<1>1. CheckTypes'
      BY <1>0 DEF CheckTypes, Exists
<1>2. \A a \in Alerts : Kept(a[1])' => Kept(a[1]) /\ a \notin AlertsOf(p)
      BY <1>0 DEF Kept, AlertsOf
<1>3. AlertsGoOutOnce'
      BY <1>0 DEF AlertsInv, AlertsGoOutOnce
<1>4. SentIsFired'
      BY <1>0, <1>2 DEF AlertsInv, SentIsFired
<1>5. SendsTheUnsent'
      BY <1>0, <1>2 DEF AlertsInv, SendsTheUnsent
<1>6. MarksTheSent' /\ NotifiedWasSent'
      BY <1>0 DEF AlertsInv, MarksTheSent, NotifiedWasSent
<1>7. QED  BY <1>1, <1>3, <1>4, <1>5, <1>6 DEF CheckInv, AlertsInv

-----------------------------------------------------------------------------
(* The actions. *)

(* What is counted by mihomo, a poll or a page leaves the checks alone.    *)
LEMMA CountingKeepsChecks ==
    ASSUME CheckInv, ConnOpens \/ ConnMoves \/ ConnCloses \/ PollConnections \/ SummaryFlush \/ SummaryWrite
    PROVE  CheckInv'
<1>1. UNCHANGED <<cycle, accounts, channel, fired, notified, observed, loop>>
      BY DEF ConnOpens, ConnMoves, ConnCloses, PollConnections, SummaryFlush, SummaryWrite, Write, tables
<1>2. QED  BY <1>1 DEF observed, CheckInv, CheckTypes, Exists, AlertsInv, AlertsGoOutOnce, SentIsFired,
                      SendsTheUnsent, MarksTheSent, NotifiedWasSent, Kept

(* The goroutine's own flushes, alone or before a check. *)
LEMMA FlushesKeepInv ==
    ASSUME IInv, LoopFlush \/ LoopWrite \/ CheckStart
    PROVE  IInv'
<1>0. CountInv /\ CheckInv /\ CountTypes /\ loop \in LoopType
      BY DEF IInv, CountInv, CheckInv, CheckTypes
<1>1. \A pc \in Pcs : [loop EXCEPT !.pc = pc] \in LoopType /\ [loop EXCEPT !.pc = pc].pc = pc
      BY <1>0 DEF LoopType
<1>2. {"idle", "flush", "check", "summary"} \subseteq Pcs
      BY DEF Pcs
<1>3. CheckInv'
  <2>1. UNCHANGED <<cycle, accounts, channel, fired, notified, observed>>
        BY DEF LoopFlush, LoopWrite, CheckStart, Write, tables
  <2>2. loop' \in LoopType /\ loop'.pc \notin {"send", "mark"}
        BY <1>1, <1>2 DEF LoopFlush, LoopWrite, CheckStart
  <2>3. QED  BY <1>0, <2>1, <2>2, LeavesAlerts
<1>4. CountInv'
  <2>1. loop.pc = "idle" => taken["loop"] = Zero
        BY <1>0 DEF CountInv, HoldsOnlyToWrite
  <2>2. CASE LoopFlush
    <3>1. Take("loop") /\ UNCHANGED <<hourly, mihomoSide>> /\ taken["loop"] = Zero
          BY <2>1, <2>2 DEF LoopFlush, tables
    <3>2. loop'.pc = "flush"
          BY <1>1, <1>2, <2>2 DEF LoopFlush
    <3>3. QED  BY <1>0, <3>1, <3>2, TakeKeepsCounts, BucketFunctions
  <2>3. CASE LoopWrite
    <3>1. Write("loop") /\ UNCHANGED mihomoSide
          BY <2>3 DEF LoopWrite
    <3>2. QED  BY <1>0, <3>1, WriteKeepsCounts, BucketFunctions
  <2>4. CASE CheckStart
    <3>0. loop.pc = "idle" /\ UNCHANGED <<hourly, mihomoSide>>
          BY <2>4 DEF CheckStart, tables
    <3>1. CASE Take("loop") /\ loop' = [loop EXCEPT !.pc = "check"]
      <4>1. loop'.pc = "check"
            BY <1>1, <1>2, <3>1
      <4>2. QED  BY <1>0, <2>1, <3>0, <3>1, <4>1, TakeKeepsCounts, BucketFunctions
    <3>2. CASE UNCHANGED counters
          BY <1>0, <3>0, <3>2, LeavesCounts
    <3>3. QED  BY <2>4, <3>1, <3>2 DEF CheckStart
  <2>5. QED  BY <2>2, <2>3, <2>4
<1>5. QED  BY <1>3, <1>4 DEF IInv

(* A check after its flush. *)
LEMMA ChecksKeepInv ==
    ASSUME IInv, CheckReads \/ CheckInserts \/ CheckSends \/ CheckMarks \/ CheckEnds
    PROVE  IInv'
<1>0. CountInv /\ CheckInv /\ CheckTypes /\ loop \in LoopType
      BY DEF IInv, CheckInv, CheckTypes
<1>1. CountInv'
  <2>1. UNCHANGED <<counters, hourly, mihomoSide>>
        BY DEF CheckReads, CheckInserts, CheckSends, CheckMarks, CheckEnds, tables
  <2>2. loop.pc \notin {"flush", "check"}
        BY DEF CheckReads, CheckInserts, CheckSends, CheckMarks, CheckEnds
  <2>3. QED  BY <1>0, <2>1, <2>2, LeavesCounts
<1>2. CASE CheckReads
  <2>1. PICK reported \in Reports :
          loop' = [loop EXCEPT !.pc = "alerts", !.channel = channel,
                               !.todo = {a \in Alerts : a[2] = cycle /\ Crossed(a[1], a[3], reported)}]
        BY <1>2 DEF CheckReads
  <2> DEFINE todo == {a \in Alerts : a[2] = cycle /\ Crossed(a[1], a[3], reported)}
  <2>2. todo \subseteq Alerts
        OBVIOUS
  <2>3. loop' = [loop EXCEPT !.pc = "alerts", !.channel = channel, !.todo = todo]
        BY <2>1
  <2> HIDE DEF todo
  <2>4. channel \in {"", "ntfy"} /\ "alerts" \in Pcs
        BY <1>0 DEF CheckTypes, Pcs
  <2>5. loop' \in LoopType /\ loop'.pc = "alerts"
        BY <1>0, <2>2, <2>3, <2>4 DEF LoopType
  <2>6. UNCHANGED <<cycle, accounts, channel, fired, notified, observed>>
        BY <1>2 DEF CheckReads, tables
  <2>7. QED  BY <1>0, <1>1, <2>5, <2>6, LeavesAlerts DEF IInv
<1>3. CASE CheckInserts \/ CheckSends \/ CheckMarks
      BY <1>0, <1>1, <1>3, InsertKeepsAlerts, SendKeepsAlerts, MarkKeepsAlerts DEF IInv
<1>4. CASE CheckEnds
  <2>1. loop' = [loop EXCEPT !.pc = "idle", !.alert = None]
        BY <1>4 DEF CheckEnds
  <2>2. loop' \in LoopType /\ loop'.pc = "idle"
        BY <1>0, <2>1 DEF LoopType, Pcs
  <2>3. UNCHANGED <<cycle, accounts, channel, fired, notified, observed>>
        BY <1>4 DEF CheckEnds, tables
  <2>4. QED  BY <1>0, <1>1, <2>2, <2>3, LeavesAlerts DEF IInv
<1>5. QED  BY <1>2, <1>3, <1>4

LEMMA Below == ASSUME NEW n \in Nat, NEW c \in 1..n, c < n PROVE c + 1 \in 1..n
<1>1. c \in Int /\ 1 <= c /\ c <= n
      OBVIOUS
<1>2. c + 1 \in Int /\ 1 <= c + 1 /\ c + 1 <= n
      BY <1>1
<1>3. QED  BY <1>2

(* What a page or the calendar changes. *)
LEMMA RequestsKeepInv ==
    ASSUME IInv,
           \/ NextCycle
           \/ \E p \in Accounts, a \in Account : CreateProvider(p, a) \/ UpdateProvider(p, a)
           \/ \E p \in Accounts : DeleteAlerts(p) \/ DeleteRow(p)
           \/ \E c \in {"", "ntfy"} : UpdateChannel(c)
    PROVE  IInv'
<1>0. CountInv /\ CheckInv /\ CheckTypes
      BY DEF IInv, CheckInv
<1>1. UNCHANGED <<counters, hourly, mihomoSide, loop>>
      BY DEF NextCycle, CreateProvider, UpdateProvider, Stored, DeleteAlerts, DeleteRow, UpdateChannel, tables
<1>2. CountInv'
      BY <1>0, <1>1, LeavesCounts
<1>3. CASE NextCycle
  <2>0. MaxCycles \in Nat /\ cycle \in 1..MaxCycles /\ cycle < MaxCycles /\ cycle' = cycle + 1
        BY <1>0, <1>3, TrafficAssumption DEF NextCycle, CheckTypes
  <2>1. cycle' \in 1..MaxCycles
    <3>1. cycle + 1 \in 1..MaxCycles
          BY <2>0, Below
    <3>2. QED  BY <2>0, <3>1
  <2>2. UNCHANGED <<accounts, channel, fired, notified, given, deleting, delivered, loop>>
        BY <1>3 DEF NextCycle, tables, observed
  <2>3. QED  BY <1>0, <1>2, <2>1, <2>2, TablesChange DEF IInv, CheckTypes, Exists
<1>4. CASE \E p \in Accounts, a \in Account : CreateProvider(p, a) \/ UpdateProvider(p, a)
  <2>1. PICK p \in Accounts, a \in Account : CreateProvider(p, a) \/ UpdateProvider(p, a)
        BY <1>4
  <2>2. /\ accounts' = [accounts EXCEPT ![p] = a]
        /\ UNCHANGED <<cycle, channel, fired, notified, deleting, delivered, loop>>
        BY <2>1 DEF CreateProvider, UpdateProvider, Stored
  <2>3. given \subseteq given' /\ given' \subseteq Accounts /\ p \in given'
        BY <1>0, <2>1 DEF CreateProvider, UpdateProvider, CheckTypes
  <2>4. accounts' \in [Accounts -> Account \cup {None}] /\ \A q \in Accounts : q # p => accounts'[q] = accounts[q]
        BY <1>0, <2>2 DEF CheckTypes
  <2>5. {q \in Accounts : Exists(q)}' \subseteq given'
        BY <1>0, <2>3, <2>4 DEF CheckTypes, Exists
  <2>6. QED  BY <1>0, <1>2, <2>2, <2>3, <2>4, <2>5, TablesChange DEF IInv, CheckTypes
<1>5. CASE \E p \in Accounts : DeleteAlerts(p)
      BY <1>0, <1>2, <1>5, DeletionKeepsAlerts DEF IInv
<1>6. CASE \E p \in Accounts : DeleteRow(p)
  <2>1. PICK p \in Accounts : DeleteRow(p)
        BY <1>6
  <2>2. /\ accounts' = [accounts EXCEPT ![p] = None]
        /\ UNCHANGED <<cycle, channel, fired, notified, given, deleting, delivered, loop>>
        BY <2>1 DEF DeleteRow, observed
  <2>3. accounts' \in [Accounts -> Account \cup {None}]
        BY <1>0, <2>2 DEF CheckTypes
  <2>4. {q \in Accounts : Exists(q)}' \subseteq given'
        BY <1>0, <2>2 DEF CheckTypes, Exists
  <2>5. QED  BY <1>0, <1>2, <2>2, <2>3, <2>4, TablesChange DEF IInv, CheckTypes
<1>7. CASE \E c \in {"", "ntfy"} : UpdateChannel(c)
  <2>1. channel' \in {"", "ntfy"} /\ UNCHANGED <<cycle, accounts, fired, notified, given, deleting, delivered, loop>>
        BY <1>7 DEF UpdateChannel, observed
  <2>2. QED  BY <1>0, <1>2, <2>1, TablesChange DEF IInv, CheckTypes, Exists
<1>8. QED  BY <1>3, <1>4, <1>5, <1>6, <1>7

LEMMA RestartKeepsInv ==
    ASSUME IInv, Restart
    PROVE  IInv'
<1>1. CountInv /\ CheckInv
      BY DEF IInv
<1>2. UNCHANGED <<cycle, accounts, channel, fired, notified, observed>> /\ loop' = IdleLoop
      BY DEF Restart, tables
<1>3. CheckInv'
      BY <1>1, <1>2, LeavesAlerts, LoopStarts
<1>4. QED  BY <1>1, <1>3, RestartKeepsCounts DEF IInv

LEMMA Stutter == IInv /\ UNCHANGED trafficVars => IInv'
BY DEF IInv, CountInv, CheckInv, CountTypes, CheckTypes, CountedIsKept, HoldsOnlyToWrite, AlertsInv, AlertsGoOutOnce,
       SentIsFired, SendsTheUnsent, MarksTheSent, NotifiedWasSent, Kept, Exists,
       trafficVars, counters, tables, mihomoSide, observed

LEMMA StepHolds == IInv /\ [TrafficNext]_trafficVars => IInv'
<1> SUFFICES ASSUME IInv, [TrafficNext]_trafficVars PROVE IInv'
    OBVIOUS
<1>0. CountInv /\ CheckInv
      BY DEF IInv
<1>1. CASE ConnOpens \/ ConnMoves \/ ConnCloses
      BY <1>0, <1>1, ConnsKeepCounts, CountingKeepsChecks DEF IInv
<1>2. CASE PollConnections
      BY <1>0, <1>2, PollKeepsCounts, CountingKeepsChecks DEF IInv
<1>3. CASE LoopFlush \/ LoopWrite \/ CheckStart
      BY <1>3, FlushesKeepInv
<1>4. CASE CheckReads \/ CheckInserts \/ CheckSends \/ CheckMarks \/ CheckEnds
      BY <1>4, ChecksKeepInv
<1>5. CASE SummaryFlush
  <2>1. Take("page") /\ taken["page"] = Zero /\ UNCHANGED <<hourly, mihomoSide, loop>>
        BY <1>5 DEF SummaryFlush, tables
  <2>2. CountInv'
        BY <1>0, <2>1, TakeKeepsCounts, BucketFunctions
  <2>3. QED  BY <1>0, <1>5, <2>2, CountingKeepsChecks DEF IInv
<1>6. CASE SummaryWrite
  <2>1. Write("page") /\ UNCHANGED <<mihomoSide, loop>>
        BY <1>6 DEF SummaryWrite
  <2>2. CountInv'
        BY <1>0, <2>1, WriteKeepsCounts, BucketFunctions
  <2>3. QED  BY <1>0, <1>6, <2>2, CountingKeepsChecks DEF IInv
<1>7. CASE \/ NextCycle
           \/ \E p \in Accounts, a \in Account : CreateProvider(p, a) \/ UpdateProvider(p, a)
           \/ \E p \in Accounts : DeleteAlerts(p) \/ DeleteRow(p)
           \/ \E c \in {"", "ntfy"} : UpdateChannel(c)
      BY <1>7, RequestsKeepInv
<1>8. CASE Restart
      BY <1>8, RestartKeepsInv
<1>9. CASE UNCHANGED trafficVars
      BY <1>9, Stutter
<1>10. QED
      BY <1>1, <1>2, <1>3, <1>4, <1>5, <1>6, <1>7, <1>8, <1>9 DEF TrafficNext, LoopNext, CheckNext

(* The inductive invariant holds in every reachable state. *)
THEOREM Invariance == TrafficSpec => []IInv
BY InitHolds, StepHolds, PTL DEF TrafficSpec

(* Every variable keeps its type. *)
THEOREM TypeCorrect == TrafficSpec => []TrafficTypeOK
<1>1. IInv => TrafficTypeOK
      BY TypesInTwo DEF IInv, CountInv, CheckInv
<1>2. QED  BY <1>1, Invariance, PTL

(* Nothing counted is lost or written twice, however flushes of the        *)
(* goroutine and of pages overlap and fail (flush).                        *)
THEOREM AccountingIsExact == TrafficSpec => []CountedIsKept
<1>1. IInv => CountedIsKept
      BY DEF IInv, CountInv
<1>2. QED  BY <1>1, Invariance, PTL

(* An alert goes out once per provider, cycle and threshold, unless the    *)
(* provider is being deleted (checkAlerts, InsertAlert).                   *)
THEOREM AlertsOnce == TrafficSpec => []AlertsGoOutOnce
<1>1. IInv => AlertsGoOutOnce
      BY DEF IInv, CheckInv, AlertsInv
<1>2. QED  BY <1>1, Invariance, PTL

(* What the page shows as notified was sent (MarkAlertNotified). *)
THEOREM MarksAreTrue == TrafficSpec => []NotifiedWasSent
<1>1. IInv => NotifiedWasSent
      BY DEF IInv, CheckInv, AlertsInv
<1>2. QED  BY <1>1, Invariance, PTL

-----------------------------------------------------------------------------
(* Sums of functions over finite sets. *)

(* Induction over the subsets of a finite set, with the set of those the   *)
(* statement holds of in place of a predicate.                             *)
LEMMA Subsets ==
    ASSUME NEW A, IsFiniteSet(A), NEW Good,
           \A s \in SUBSET A : (\A t \in SUBSET s : t # s => t \in Good) => s \in Good
    PROVE  \A s \in SUBSET A : s \in Good
<1>1. DEFINE Bad == {s \in FiniteSubsetsOf(A) : s \notin Good}
<1>2. FiniteSubsetsOf(A) = SUBSET A
  BY FS_FiniteSubsetsOfFinite
<1>3. SUFFICES Bad = {}
  BY <1>2
<1>4. SUFFICES ASSUME Bad # {} PROVE FALSE
  OBVIOUS
<1>5. Bad \subseteq FiniteSubsetsOf(A)
  OBVIOUS
<1>6. PICK s \in Bad : \A t \in Bad : ~ (<<t, s>> \in StrictSubsetOrdering(A))
  <2>1. HIDE DEF Bad
  <2>2. QED
    BY <1>4, <1>5, FS_StrictSubsetOrderingWellFounded, WFMin
<1>7. s \in SUBSET A /\ s \notin Good
  BY <1>2
<1>8. SUFFICES ASSUME NEW t \in SUBSET s, t # s PROVE t \in Good
  BY <1>7
<1>9. <<t, s>> \in StrictSubsetOrdering(A)
  BY <1>7, <1>8 DEF StrictSubsetOrdering
<1>10. QED
  BY <1>2, <1>6, <1>7, <1>9

(* What SumFunctionOnSet adds up, one element after the other. *)
Pick(s) == CHOOSE x \in s : TRUE
Adds(f, g, A) == g = [s \in SUBSET A |-> IF s = {} THEN 0 ELSE f[Pick(s)] + g[s \ {Pick(s)}]]

LEMMA Picked == ASSUME NEW s, s # {} PROVE Pick(s) \in s /\ s \ {Pick(s)} \in SUBSET s /\ s \ {Pick(s)} # s
BY DEF Pick

LEMMA SumIs ==
    ASSUME NEW f, NEW A
    PROVE  SumFunctionOnSet(f, A) = (CHOOSE g : Adds(f, g, A))[A]
BY DEF SumFunctionOnSet, FoldFunctionOnSet, MapThenFoldSet, Adds, Pick

LEMMA AddsAgree ==
    ASSUME NEW f, NEW A, IsFiniteSet(A), NEW B, A \subseteq B,
           NEW g, Adds(f, g, A), NEW h, Adds(f, h, B)
    PROVE  g[A] = h[A]
<1>1. DEFINE Good == {s \in SUBSET A : g[s] = h[s]}
<1>2. ASSUME NEW s \in SUBSET A, \A t \in SUBSET s : t # s => t \in Good
      PROVE  s \in Good
  <2>1. g[s] = IF s = {} THEN 0 ELSE f[Pick(s)] + g[s \ {Pick(s)}]
    BY DEF Adds
  <2>2. h[s] = IF s = {} THEN 0 ELSE f[Pick(s)] + h[s \ {Pick(s)}]
    BY DEF Adds
  <2>3. s # {} => g[s \ {Pick(s)}] = h[s \ {Pick(s)}]
    BY <1>2, Picked
  <2>4. QED
    BY <2>1, <2>2, <2>3
<1>3. HIDE DEF Good
<1>4. \A s \in SUBSET A : s \in Good
  BY <1>2, Subsets
<1>5. QED
  BY <1>4 DEF Good

LEMMA AddsExist ==
    ASSUME NEW f, NEW A, IsFiniteSet(A)
    PROVE  \E g : Adds(f, g, A)
<1>1. DEFINE Good == {s \in SUBSET A : \E g : Adds(f, g, s)}
             To(s) == (CHOOSE g : Adds(f, g, s))[s]
<1>2. ASSUME NEW s \in SUBSET A, \A t \in SUBSET s : t # s => t \in Good
      PROVE  s \in Good
  <2>1. DEFINE g == [t \in SUBSET s |-> IF t = {} THEN 0 ELSE f[Pick(t)] + To(t \ {Pick(t)})]
  <2>2. ASSUME NEW t \in SUBSET s, t # s
        PROVE  To(t) = g[t]
    <3>1. PICK h : h = CHOOSE k : Adds(f, k, t)
      OBVIOUS
    <3>2. Adds(f, h, t) /\ To(t) = h[t]
      BY <1>2, <2>2, <3>1
    <3>3. h[t] = IF t = {} THEN 0 ELSE f[Pick(t)] + h[t \ {Pick(t)}]
      BY <3>2 DEF Adds
    <3>4. ASSUME t # {} PROVE To(t \ {Pick(t)}) = h[t \ {Pick(t)}]
      <4>1. DEFINE u == t \ {Pick(t)}
      <4>2. u \in SUBSET t /\ u \in SUBSET s /\ u # s /\ u \in SUBSET A
        BY <2>2, <3>4, Picked
      <4>3. IsFiniteSet(u)
        BY <4>2, FS_Subset
      <4>4. PICK k : k = CHOOSE l : Adds(f, l, u)
        OBVIOUS
      <4>5. Adds(f, k, u) /\ To(u) = k[u]
        BY <1>2, <4>2, <4>4
      <4>6. HIDE DEF u
      <4>7. k[u] = h[u]
        BY <3>2, <4>2, <4>3, <4>5, AddsAgree
      <4>8. QED
        BY <4>5, <4>7 DEF u
    <3>5. QED
      BY <3>2, <3>3, <3>4
  <2>3. ASSUME NEW t \in SUBSET s, t # {}
        PROVE  To(t \ {Pick(t)}) = g[t \ {Pick(t)}]
    <3>1. t \ {Pick(t)} \in SUBSET s /\ t \ {Pick(t)} # s
      BY <2>3, Picked
    <3>2. HIDE DEF g, To
    <3>3. QED
      BY <2>2, <3>1
  <2>4. Adds(f, g, s)
    <3>1. g = [t \in SUBSET s |-> IF t = {} THEN 0 ELSE f[Pick(t)] + To(t \ {Pick(t)})]
      OBVIOUS
    <3>2. HIDE DEF g, To
    <3>3. QED
      BY <2>3, <3>1 DEF Adds
  <2>5. QED
    BY <2>4
<1>3. HIDE DEF Good
<1>4. \A s \in SUBSET A : s \in Good
  BY <1>2, Subsets
<1>5. QED
  BY <1>4 DEF Good

LEMMA SumUnfolds ==
    ASSUME NEW f, NEW A, IsFiniteSet(A)
    PROVE  SumFunctionOnSet(f, A) =
               IF A = {} THEN 0 ELSE f[Pick(A)] + SumFunctionOnSet(f, A \ {Pick(A)})
<1>1. PICK g : g = CHOOSE k : Adds(f, k, A)
  OBVIOUS
<1>2. Adds(f, g, A) /\ SumFunctionOnSet(f, A) = g[A]
  BY <1>1, AddsExist, SumIs
<1>3. g[A] = IF A = {} THEN 0 ELSE f[Pick(A)] + g[A \ {Pick(A)}]
  BY <1>2 DEF Adds
<1>4. ASSUME A # {} PROVE SumFunctionOnSet(f, A \ {Pick(A)}) = g[A \ {Pick(A)}]
  <2>1. DEFINE u == A \ {Pick(A)}
  <2>2. u \subseteq A /\ IsFiniteSet(u)
    BY FS_Subset
  <2>3. HIDE DEF u
  <2>4. PICK h : h = CHOOSE k : Adds(f, k, u)
    OBVIOUS
  <2>5. Adds(f, h, u) /\ SumFunctionOnSet(f, u) = h[u]
    BY <2>2, <2>4, AddsExist, SumIs
  <2>6. h[u] = g[u]
    BY <1>2, <2>2, <2>5, AddsAgree
  <2>7. QED
    BY <2>5, <2>6 DEF u
<1>5. QED
  BY <1>2, <1>3, <1>4

LEMMA SumOfNaturals ==
    ASSUME NEW f, NEW A, IsFiniteSet(A), \A x \in A : f[x] \in Nat
    PROVE  SumFunctionOnSet(f, A) \in Nat
<1>1. DEFINE Good == {s \in SUBSET A : SumFunctionOnSet(f, s) \in Nat}
<1>2. ASSUME NEW s \in SUBSET A, \A t \in SUBSET s : t # s => t \in Good
      PROVE  s \in Good
  <2>1. IsFiniteSet(s)
    BY FS_Subset
  <2>2. s # {} => Pick(s) \in A /\ s \ {Pick(s)} \in Good
    BY <1>2, Picked
  <2>3. s # {} => f[Pick(s)] \in Nat /\ SumFunctionOnSet(f, s \ {Pick(s)}) \in Nat
    BY <2>2
  <2>4. SumFunctionOnSet(f, s) \in Nat
    BY <2>1, <2>3, SumUnfolds
  <2>5. QED
    BY <2>4
<1>3. HIDE DEF Good
<1>4. \A s \in SUBSET A : s \in Good
  BY <1>2, Subsets
<1>5. QED
  BY <1>4 DEF Good

(* The order of the elements does not matter: any one can be taken out.    *)
LEMMA SumTakesOut ==
    ASSUME NEW f, NEW A, IsFiniteSet(A), \A x \in A : f[x] \in Nat, NEW y \in A
    PROVE  SumFunctionOnSet(f, A) = f[y] + SumFunctionOnSet(f, A \ {y})
<1>1. DEFINE Good == {s \in SUBSET A :
                        \A x \in s : SumFunctionOnSet(f, s) = f[x] + SumFunctionOnSet(f, s \ {x})}
<1>2. ASSUME NEW s \in SUBSET A, \A t \in SUBSET s : t # s => t \in Good, NEW x \in s
      PROVE  SumFunctionOnSet(f, s) = f[x] + SumFunctionOnSet(f, s \ {x})
  <2>1. DEFINE p == Pick(s)
  <2>2. p \in s /\ IsFiniteSet(s)
    BY <1>2, FS_Subset, Picked
  <2>3. SumFunctionOnSet(f, s) = f[p] + SumFunctionOnSet(f, s \ {p})
    BY <1>2, <2>2, SumUnfolds
  <2>4. HIDE DEF p
  <2>5. CASE x = p
    BY <2>3, <2>5
  <2>6. CASE x # p
    <3>1. s \ {p} \in Good /\ s \ {x} \in Good /\ x \in s \ {p} /\ p \in s \ {x}
      BY <1>2, <2>2, <2>6
    <3>2. (s \ {p}) \ {x} = (s \ {x}) \ {p}
      OBVIOUS
    <3>3. /\ SumFunctionOnSet(f, s \ {p}) = f[x] + SumFunctionOnSet(f, (s \ {p}) \ {x})
          /\ SumFunctionOnSet(f, s \ {x}) = f[p] + SumFunctionOnSet(f, (s \ {x}) \ {p})
      BY <3>1
    <3>4. f[p] \in Nat /\ f[x] \in Nat /\ SumFunctionOnSet(f, (s \ {p}) \ {x}) \in Nat
      <4>1. IsFiniteSet((s \ {p}) \ {x}) /\ (s \ {p}) \ {x} \subseteq A
        BY <2>2, FS_Subset
      <4>2. QED
        BY <1>2, <2>2, <4>1, SumOfNaturals
    <3>5. QED
      BY <2>3, <3>2, <3>3, <3>4
  <2>7. QED
    BY <2>5, <2>6
<1>3. \A s \in SUBSET A : (\A t \in SUBSET s : t # s => t \in Good) => s \in Good
  BY <1>2
<1>4. HIDE DEF Good
<1>5. \A s \in SUBSET A : s \in Good
  BY <1>3, Subsets
<1>6. QED
  BY <1>5 DEF Good

LEMMA Smaller == ASSUME NEW a \in Nat, NEW b \in Nat, NEW x \in Nat, NEW y \in Nat, a <= b, x <= y
                 PROVE  x + a <= y + b /\ a <= y + b
OBVIOUS

(* A sum of more and larger numbers is larger. *)
LEMMA SumGrows ==
    ASSUME NEW B, IsFiniteSet(B), NEW A \in SUBSET B, NEW f, NEW g,
           \A x \in B : f[x] \in Nat, \A x \in A : g[x] \in Nat /\ g[x] <= f[x]
    PROVE  SumFunctionOnSet(g, A) <= SumFunctionOnSet(f, B)
<1>1. DEFINE Good == {s \in SUBSET B : SumFunctionOnSet(g, s \cap A) <= SumFunctionOnSet(f, s)}
<1>2. ASSUME NEW s \in SUBSET B, \A t \in SUBSET s : t # s => t \in Good
      PROVE  s \in Good
  <2>1. IsFiniteSet(s) /\ IsFiniteSet(s \cap A)
    BY FS_Subset
  <2>2. CASE s = {}
    <3>1. s \cap A = {} /\ SumFunctionOnSet(g, s \cap A) = 0 /\ SumFunctionOnSet(f, s) = 0
      BY <2>1, <2>2, SumUnfolds
    <3>2. QED
      BY <3>1
  <2>3. CASE s # {}
    <3>1. PICK x \in s : TRUE
      BY <2>3
    <3>2. DEFINE t == s \ {x}
    <3>3. /\ t \in SUBSET s /\ t # s /\ t \subseteq B /\ IsFiniteSet(t) /\ IsFiniteSet(t \cap A)
      BY <2>1, FS_Subset
    <3>4. SumFunctionOnSet(g, t \cap A) <= SumFunctionOnSet(f, t)
      BY <1>2, <3>3
    <3>5. /\ SumFunctionOnSet(g, t \cap A) \in Nat /\ SumFunctionOnSet(f, t) \in Nat
      BY <3>3, SumOfNaturals
    <3>6. SumFunctionOnSet(f, s) = f[x] + SumFunctionOnSet(f, t) /\ f[x] \in Nat
      BY <2>1, SumTakesOut
    <3>7. CASE x \in A
      <4>1. SumFunctionOnSet(g, s \cap A) = g[x] + SumFunctionOnSet(g, (s \cap A) \ {x})
        BY <2>1, <3>7, SumTakesOut
      <4>2. (s \cap A) \ {x} = t \cap A /\ g[x] \in Nat /\ g[x] <= f[x]
        BY <3>7
      <4>3. QED
        BY <3>4, <3>5, <3>6, <4>1, <4>2, Smaller
    <3>8. CASE x \notin A
      <4>1. s \cap A = t \cap A
        BY <3>8
      <4>2. QED
        BY <3>4, <3>5, <3>6, <4>1, Smaller
    <3>9. QED
      BY <3>7, <3>8
  <2>4. QED
    BY <2>2, <2>3
<1>3. HIDE DEF Good
<1>4. \A s \in SUBSET B : s \in Good
  BY <1>2, Subsets
<1>5. B \cap A = A
  OBVIOUS
<1>6. QED
  BY <1>4, <1>5 DEF Good

(* One summand, kept or new, is larger by at most d; of the others some may  *)
(* go or become smaller.                                                     *)
LEMMA SumGrowsBy ==
    ASSUME NEW A, IsFiniteSet(A), NEW f, \A x \in A : f[x] \in Nat,
           NEW B, IsFiniteSet(B), NEW g, \A x \in B : g[x] \in Nat,
           NEW c, NEW d \in Nat,
           \A x \in B : x # c => x \in A /\ g[x] <= f[x],
           c \in B => g[c] <= (IF c \in A THEN f[c] ELSE 0) + d
    PROVE  SumFunctionOnSet(g, B) <= SumFunctionOnSet(f, A) + d
<1>1. SumFunctionOnSet(f, A) \in Nat /\ SumFunctionOnSet(g, B) \in Nat
  BY SumOfNaturals
<1>2. CASE c \notin B
  <2>1. SumFunctionOnSet(g, B) <= SumFunctionOnSet(f, A)
    BY <1>2, SumGrows
  <2>2. QED
    BY <1>1, <2>1
<1>3. CASE c \in B
  <2>1. DEFINE b == B \ {c}
               a == A \ {c}
  <2>2. IsFiniteSet(a) /\ IsFiniteSet(b) /\ b \subseteq a
    BY FS_Subset
  <2>3. SumFunctionOnSet(g, B) = g[c] + SumFunctionOnSet(g, b) /\ g[c] \in Nat
    BY <1>3, SumTakesOut
  <2>4. \A x \in b : x \in B /\ g[x] \in Nat /\ g[x] <= f[x]
    OBVIOUS
  <2>5. \A x \in a : f[x] \in Nat
    OBVIOUS
  <2>6. c \in A => SumFunctionOnSet(f, A) = f[c] + SumFunctionOnSet(f, a) /\ f[c] \in Nat
    BY SumTakesOut
  <2>7. c \notin A => A = a
    OBVIOUS
  <2>8. HIDE DEF a, b
  <2>9. SumFunctionOnSet(g, b) \in Nat /\ SumFunctionOnSet(f, a) \in Nat
    BY <2>2, <2>4, <2>5, SumOfNaturals
  <2>10. SumFunctionOnSet(g, b) <= SumFunctionOnSet(f, a)
    BY <2>2, <2>4, <2>5, SumGrows
  <2>11. QED
    BY <1>1, <1>3, <2>3, <2>6, <2>7, <2>9, <2>10
<1>4. QED
  BY <1>2, <1>3

LEMMA SumOfZeros ==
    ASSUME NEW A, IsFiniteSet(A), NEW f, \A x \in A : f[x] = 0
    PROVE  SumFunctionOnSet(f, A) = 0
<1>1. DEFINE Good == {s \in SUBSET A : SumFunctionOnSet(f, s) = 0}
<1>2. ASSUME NEW s \in SUBSET A, \A t \in SUBSET s : t # s => t \in Good
      PROVE  s \in Good
  <2>1. IsFiniteSet(s)
    BY FS_Subset
  <2>2. s # {} => Pick(s) \in A /\ s \ {Pick(s)} \in Good
    BY <1>2, Picked
  <2>3. QED
    BY <2>1, <2>2, SumUnfolds
<1>3. HIDE DEF Good
<1>4. \A s \in SUBSET A : s \in Good
  BY <1>2, Subsets
<1>5. QED
  BY <1>4 DEF Good

LEMMA SumOfFunction ==
    ASSUME NEW A, IsFiniteSet(A), NEW f \in [A -> Nat]
    PROVE  SumFunction(f) = SumFunctionOnSet(f, A) /\ SumFunction(f) \in Nat
<1>1. SumFunction(f) = SumFunctionOnSet(f, A)
  BY DEF SumFunction
<1>2. QED
  BY <1>1, SumOfNaturals

-----------------------------------------------------------------------------
(* Nothing is counted that did not move.  What a poll will find on the open *)
(* connections moved, too, and is not counted yet.                         *)

OpenIsFinite == IsFiniteSet(Open)
UncountedMoved == \A n \in Nodes : CountedOn(n) + Uncounted(n) <= moved[n]
MovedInv == OpenIsFinite /\ UncountedMoved

LEMMA FreshValue ==
    ASSUME NEW b \in BOOLEAN, NEW bytes \in Nat, NEW last \in Nat \cup {None}
    PROVE  (IF ~b THEN 0 ELSE IF last = None \/ bytes < last THEN bytes ELSE bytes - last) \in Nat
OBVIOUS

LEMMA FreshTyped ==
    ASSUME CountTypes, NEW c \in Open
    PROVE  c \in Conns /\ conns[c].bytes \in Nat /\ conns[c].node \in Nodes /\ Fresh(c) \in Nat
<1>1. c \in Conns /\ conns[c].bytes \in Nat /\ conns[c].node \in Nodes
  BY DEF CountTypes, Open
<1>2. lastSeen[c] \in Nat \cup {None} /\ baseline \in BOOLEAN
  BY <1>1 DEF CountTypes
<1>3. QED
  BY <1>1, <1>2, FreshValue DEF Fresh

LEMMA FreshTypedNext ==
    ASSUME CountTypes', NEW c \in Open'
    PROVE  c \in Conns /\ conns'[c].bytes \in Nat /\ conns'[c].node \in Nodes /\ Fresh(c)' \in Nat
<1>1. c \in Conns /\ conns'[c].bytes \in Nat /\ conns'[c].node \in Nodes
  BY DEF CountTypes, Open
<1>2. lastSeen'[c] \in Nat \cup {None} /\ baseline' \in BOOLEAN
  BY <1>1 DEF CountTypes
<1>3. QED
  BY <1>1, <1>2, FreshValue DEF Fresh

LEMMA UncountedTyped ==
    ASSUME CountTypes, OpenIsFinite, NEW n
    PROVE  /\ IsFiniteSet(OpenOn(n)) /\ [c \in OpenOn(n) |-> Fresh(c)] \in [OpenOn(n) -> Nat]
           /\ Uncounted(n) = SumFunctionOnSet([c \in OpenOn(n) |-> Fresh(c)], OpenOn(n))
           /\ Uncounted(n) \in Nat
<1>1. IsFiniteSet(OpenOn(n))
  BY FS_Subset DEF OpenIsFinite, OpenOn
<1>2. [c \in OpenOn(n) |-> Fresh(c)] \in [OpenOn(n) -> Nat]
  BY FreshTyped DEF OpenOn
<1>3. QED
  BY <1>1, <1>2, SumOfFunction DEF Uncounted

LEMMA UncountedTypedNext ==
    ASSUME CountTypes', OpenIsFinite', NEW n
    PROVE  /\ IsFiniteSet(OpenOn(n)') /\ [c \in OpenOn(n)' |-> Fresh(c)'] \in [OpenOn(n)' -> Nat]
           /\ Uncounted(n)' = SumFunctionOnSet([c \in OpenOn(n)' |-> Fresh(c)'], OpenOn(n)')
           /\ Uncounted(n)' \in Nat
<1>1. IsFiniteSet(OpenOn(n)')
  BY FS_Subset DEF OpenIsFinite, OpenOn
<1>2. [c \in OpenOn(n)' |-> Fresh(c)'] \in [OpenOn(n)' -> Nat]
  BY FreshTypedNext DEF OpenOn
<1>3. QED
  BY <1>1, <1>2, SumOfFunction DEF Uncounted

LEMMA CycleCounts ==
    ASSUME NEW f \in [Buckets -> Nat], NEW n \in Nodes
    PROVE  /\ IsFiniteSet(1..MaxCycles) /\ [k \in 1..MaxCycles |-> f[<<k, n>>]] \in [1..MaxCycles -> Nat]
           /\ SumFunction([k \in 1..MaxCycles |-> f[<<k, n>>]])
                = SumFunctionOnSet([k \in 1..MaxCycles |-> f[<<k, n>>]], 1..MaxCycles)
           /\ SumFunction([k \in 1..MaxCycles |-> f[<<k, n>>]]) \in Nat
<1>1. IsFiniteSet(1..MaxCycles)
  BY TrafficAssumption, FS_Interval
<1>2. [k \in 1..MaxCycles |-> f[<<k, n>>]] \in [1..MaxCycles -> Nat]
  BY DEF Buckets
<1>3. QED
  BY <1>1, <1>2, SumOfFunction

(* What one connection may add, and what the cycle it is may add. *)
LEMMA UncountedGrows ==
    ASSUME CountTypes, OpenIsFinite, CountTypes', OpenIsFinite', NEW n, NEW c, NEW d \in Nat,
           \A x \in OpenOn(n)' : x # c => x \in OpenOn(n) /\ Fresh(x)' <= Fresh(x),
           c \in OpenOn(n)' => Fresh(c)' <= (IF c \in OpenOn(n) THEN Fresh(c) ELSE 0) + d
    PROVE  Uncounted(n)' <= Uncounted(n) + d
<1>1. DEFINE A == OpenOn(n)
             f == [x \in A |-> Fresh(x)]
             B == OpenOn(n)'
             g == [x \in B |-> Fresh(x)']
<1>2. IsFiniteSet(A) /\ f \in [A -> Nat] /\ Uncounted(n) = SumFunctionOnSet(f, A)
  BY UncountedTyped
<1>3. IsFiniteSet(B) /\ g \in [B -> Nat] /\ Uncounted(n)' = SumFunctionOnSet(g, B)
  BY UncountedTypedNext
<1>4. \A x \in B : x # c => x \in A /\ g[x] <= f[x]
  OBVIOUS
<1>5. c \in B => g[c] <= (IF c \in A THEN f[c] ELSE 0) + d
  OBVIOUS
<1>6. HIDE DEF A, B, f, g
<1>7. (\A x \in A : f[x] \in Nat) /\ (\A x \in B : g[x] \in Nat)
  BY <1>2, <1>3
<1>8. QED
  BY <1>2, <1>3, <1>4, <1>5, <1>7, SumGrowsBy

LEMMA CountedGrows ==
    ASSUME CountTypes, CountTypes', NEW n \in Nodes, NEW j, NEW d \in Nat,
           \A k \in 1..MaxCycles : counted'[<<k, n>>] <= counted[<<k, n>>] + (IF k = j THEN d ELSE 0)
    PROVE  CountedOn(n) \in Nat /\ CountedOn(n)' \in Nat /\ CountedOn(n)' <= CountedOn(n) + d
<1>1. DEFINE A == 1..MaxCycles
             f == [k \in A |-> counted[<<k, n>>]]
             g == [k \in A |-> counted'[<<k, n>>]]
<1>2. /\ IsFiniteSet(A) /\ f \in [A -> Nat] /\ CountedOn(n) = SumFunctionOnSet(f, A) /\ CountedOn(n) \in Nat
  BY CycleCounts DEF CountTypes, CountedOn
<1>3. /\ g \in [A -> Nat] /\ CountedOn(n)' = SumFunctionOnSet(g, A) /\ CountedOn(n)' \in Nat
  BY CycleCounts DEF CountTypes, CountedOn
<1>4. \A k \in A : g[k] <= f[k] + (IF k = j THEN d ELSE 0)
  OBVIOUS
<1>5. HIDE DEF A, f, g
<1>6. \A k \in A : f[k] \in Nat /\ g[k] \in Nat
  BY <1>2, <1>3
<1>7. /\ \A k \in A : k # j => k \in A /\ g[k] <= f[k]
      /\ j \in A => g[j] <= (IF j \in A THEN f[j] ELSE 0) + d
  BY <1>4, <1>6
<1>8. SumFunctionOnSet(g, A) <= SumFunctionOnSet(f, A) + d
  BY <1>2, <1>6, <1>7, SumGrowsBy
<1>9. QED
  BY <1>2, <1>3, <1>8

LEMMA MovedStarts == TrafficInit => MovedInv
<1> SUFFICES ASSUME TrafficInit PROVE MovedInv
  OBVIOUS
<1>1. CountTypes
  BY InitHolds DEF IInv, CountInv
<1>2. Open = {} /\ OpenIsFinite
  BY FS_EmptySet DEF TrafficInit, Open, OpenIsFinite
<1>3. SUFFICES ASSUME NEW n \in Nodes PROVE CountedOn(n) + Uncounted(n) <= moved[n]
  BY <1>2 DEF MovedInv, UncountedMoved
<1>4. Uncounted(n) = 0
  <2>1. OpenOn(n) = {}
    BY <1>2 DEF OpenOn
  <2>2. Uncounted(n) = SumFunctionOnSet([c \in OpenOn(n) |-> Fresh(c)], OpenOn(n))
    BY <1>1, <1>2, UncountedTyped
  <2>3. IsFiniteSet(OpenOn(n)) /\ \A x \in OpenOn(n) : [c \in OpenOn(n) |-> Fresh(c)][x] = 0
    BY <2>1, FS_EmptySet
  <2>4. QED
    BY <2>2, <2>3, SumOfZeros
<1>5. CountedOn(n) \in Nat /\ CountedOn(n) <= moved[n]
  <2>1. DEFINE A == 1..MaxCycles
               f == [k \in A |-> counted[<<k, n>>]]
               z == [k \in A |-> 0]
  <2>2. IsFiniteSet(A) /\ f \in [A -> Nat] /\ CountedOn(n) = SumFunctionOnSet(f, A) /\ CountedOn(n) \in Nat
    BY <1>1, CycleCounts DEF CountTypes, CountedOn
  <2>3. \A k \in A : f[k] = IF k = 1 THEN moved[n] ELSE 0
    BY DEF TrafficInit, Buckets
  <2>4. moved[n] \in Nat
    BY <1>1 DEF CountTypes
  <2>5. \A k \in A : z[k] = 0
    OBVIOUS
  <2>6. HIDE DEF A, f, z
  <2>7. SumFunctionOnSet(z, A) = 0
    BY <2>2, <2>5, SumOfZeros
  <2>8. SumFunctionOnSet(f, A) <= SumFunctionOnSet(z, A) + moved[n]
    <3>1. /\ \A k \in A : z[k] \in Nat /\ f[k] \in Nat
          /\ \A k \in A : k # 1 => k \in A /\ f[k] <= z[k]
          /\ 1 \in A => f[1] <= (IF 1 \in A THEN z[1] ELSE 0) + moved[n]
      BY <2>3, <2>4, <2>5
    <3>2. QED
      BY <2>2, <2>4, <3>1, SumGrowsBy
  <2>9. QED
    BY <2>2, <2>4, <2>7, <2>8
<1>6. QED
  BY <1>1, <1>4, <1>5 DEF CountTypes

(* A connection opens with nothing, moves what its node moves, and may     *)
(* take what is uncounted with it when it closes.                          *)
LEMMA ConnsKeepMoved ==
    ASSUME CountInv, CountInv', MovedInv, ConnOpens \/ ConnMoves \/ ConnCloses
    PROVE  MovedInv'
<1>0. CountTypes /\ CountTypes' /\ OpenIsFinite /\ UncountedMoved
  BY DEF CountInv, MovedInv
<1>1. UNCHANGED <<lastSeen, baseline, counted>>
  BY DEF ConnOpens, ConnMoves, ConnCloses, counters
<1>2. PICK c \in Conns, d \in {0, 1} :
        /\ \A x \in Conns : x # c => conns'[x] = conns[x]
        /\ \A n \in Nodes : moved'[n] = moved[n] + (IF d = 1 /\ n = conns[c].node THEN 1 ELSE 0)
        /\ \/ d = 0 /\ conns'[c] = None
           \/ d = 0 /\ conns[c] = None /\ conns'[c].bytes = 0
           \/ /\ d = 1 /\ c \in Open /\ c \in Open' /\ conns'[c].node = conns[c].node
              /\ conns'[c].bytes = conns[c].bytes + 1
  <2>1. conns \in [Conns -> [node : Nodes, bytes : Nat] \cup {None}] /\ moved \in [Nodes -> Nat]
    BY <1>0 DEF CountTypes
  <2>2. CASE ConnOpens
    <3>1. PICK c \in Conns \ Open, n \in Nodes : conns' = [conns EXCEPT ![c] = [node |-> n, bytes |-> 0]]
      BY <2>2 DEF ConnOpens
    <3>2. moved' = moved /\ conns[c] = None
      BY <2>2, <3>1 DEF ConnOpens, Open
    <3>3. conns'[c] = [node |-> n, bytes |-> 0] /\ \A x \in Conns : x # c => conns'[x] = conns[x]
      BY <2>1, <3>1
    <3>4. QED
      BY <2>1, <3>2, <3>3
  <2>3. CASE ConnMoves
    <3>1. PICK c \in Open : /\ conns' = [conns EXCEPT ![c].bytes = @ + 1]
                            /\ moved' = [moved EXCEPT ![conns[c].node] = @ + 1]
      BY <2>3 DEF ConnMoves
    <3>2. c \in Conns /\ conns[c] \in [node : Nodes, bytes : Nat]
      BY <2>1 DEF Open
    <3>3. conns'[c] = [conns[c] EXCEPT !.bytes = @ + 1] /\ \A x \in Conns : x # c => conns'[x] = conns[x]
      BY <2>1, <3>1, <3>2
    <3>4. conns'[c].node = conns[c].node /\ conns'[c].bytes = conns[c].bytes + 1
      BY <3>2, <3>3
    <3>5. conns'[c] \in [node : Nodes, bytes : Nat]
      BY <3>2, <3>3
    <3>6. c \in Open'
      BY <3>2, <3>5, TrafficAssumption DEF Open
    <3>7. \A n \in Nodes : moved'[n] = moved[n] + (IF n = conns[c].node THEN 1 ELSE 0)
      BY <2>1, <3>1, <3>2
    <3>8. QED
      BY <3>2, <3>3, <3>4, <3>6, <3>7
  <2>4. CASE ConnCloses
    <3>1. PICK c \in Open : conns' = [conns EXCEPT ![c] = None]
      BY <2>4 DEF ConnCloses
    <3>2. c \in Conns /\ moved' = moved
      BY <2>4 DEF ConnCloses, Open
    <3>3. conns'[c] = None /\ \A x \in Conns : x # c => conns'[x] = conns[x]
      BY <2>1, <3>1, <3>2
    <3>4. QED
      BY <2>1, <3>2, <3>3
  <2>5. QED
    BY <2>2, <2>3, <2>4
<1>3. OpenIsFinite'
  <2>1. Open' \subseteq Open \cup {c}
    BY <1>2 DEF Open
  <2>2. IsFiniteSet(Open \cup {c})
    BY <1>0, FS_AddElement DEF OpenIsFinite
  <2>3. QED
    BY <2>1, <2>2, FS_Subset DEF OpenIsFinite
<1>4. SUFFICES ASSUME NEW n \in Nodes PROVE CountedOn(n)' + Uncounted(n)' <= moved'[n]
  BY <1>3 DEF MovedInv, UncountedMoved
<1>5. DEFINE e == IF d = 1 /\ n = conns[c].node THEN 1 ELSE 0
<1>6. e \in Nat /\ moved'[n] = moved[n] + e /\ moved[n] \in Nat
  BY <1>0, <1>2 DEF CountTypes
<1>7. Uncounted(n)' <= Uncounted(n) + e
  <2>1. ASSUME NEW x \in OpenOn(n)', x # c
        PROVE  x \in OpenOn(n) /\ Fresh(x)' <= Fresh(x)
    <3>1. x \in Conns /\ conns'[x] = conns[x]
      BY <1>2, <2>1 DEF OpenOn, Open
    <3>2. x \in OpenOn(n) /\ x \in Open
      BY <2>1, <3>1 DEF OpenOn, Open
    <3>3. Fresh(x)' = Fresh(x)
      BY <1>1, <3>1 DEF Fresh
    <3>4. Fresh(x) \in Nat
      BY <1>0, <3>2, FreshTyped
    <3>5. QED
      BY <3>2, <3>3, <3>4
  <2>2. ASSUME c \in OpenOn(n)'
        PROVE  Fresh(c)' <= (IF c \in OpenOn(n) THEN Fresh(c) ELSE 0) + e
    <3>1. c \in Open' /\ conns'[c] # None /\ conns'[c].node = n
      BY <2>2 DEF OpenOn, Open
    <3>2. lastSeen[c] \in Nat \cup {None} /\ baseline \in BOOLEAN
      BY <1>0, <1>2 DEF CountTypes
    <3>3. CASE d = 0
      <4>1. conns[c] = None /\ conns'[c].bytes = 0
        BY <1>2, <3>1, <3>3
      <4>2. c \notin OpenOn(n) /\ e = 0
        BY <3>3, <4>1 DEF OpenOn, Open
      <4>3. Fresh(c)' = 0
        BY <1>1, <3>2, <4>1 DEF Fresh
      <4>4. QED
        BY <4>2, <4>3
    <3>4. CASE d = 1
      <4>1. /\ c \in Open /\ conns'[c].node = conns[c].node
            /\ conns'[c].bytes = conns[c].bytes + 1
        BY <1>2, <3>4
      <4>2. c \in OpenOn(n) /\ e = 1
        BY <3>1, <3>4, <4>1 DEF OpenOn
      <4>3. conns[c].bytes \in Nat
        BY <1>0, <4>1, FreshTyped
      <4>4. Fresh(c)' <= Fresh(c) + 1
        BY <1>1, <3>2, <4>1, <4>3 DEF Fresh
      <4>5. QED
        BY <4>2, <4>4
    <3>5. QED
      BY <3>3, <3>4
  <2>3. HIDE DEF e
  <2>4. QED
    BY <1>0, <1>3, <1>6, <2>1, <2>2, UncountedGrows
<1>8. CountedOn(n)' = CountedOn(n) /\ CountedOn(n) \in Nat
  BY <1>0, <1>1, CycleCounts DEF CountedOn, CountTypes
<1>9. Uncounted(n) \in Nat /\ Uncounted(n)' \in Nat /\ CountedOn(n) + Uncounted(n) <= moved[n]
  BY <1>0, <1>3, UncountedTyped, UncountedTypedNext DEF UncountedMoved
<1>10. HIDE DEF e
<1>11. QED
  BY <1>6, <1>7, <1>8, <1>9

(* With nothing uncounted by the next snapshot, it is enough that no more  *)
(* is counted than was uncounted.                                          *)
LEMMA NothingFresh ==
    ASSUME CountTypes', MovedInv, UNCHANGED <<conns, moved>>, \A c \in Open' : Fresh(c)' = 0,
           \A n \in Nodes : CountedOn(n)' <= moved'[n] /\ CountedOn(n)' \in Nat
    PROVE  MovedInv'
<1>1. OpenIsFinite'
  BY DEF MovedInv, OpenIsFinite, Open
<1>2. SUFFICES ASSUME NEW n \in Nodes PROVE CountedOn(n)' + Uncounted(n)' <= moved'[n]
  BY <1>1 DEF MovedInv, UncountedMoved
<1>3. Uncounted(n)' = 0
  <2>1. DEFINE A == OpenOn(n)'
               f == [c \in A |-> Fresh(c)']
  <2>2. IsFiniteSet(A) /\ Uncounted(n)' = SumFunctionOnSet(f, A)
    BY <1>1, UncountedTypedNext
  <2>3. \A c \in A : f[c] = 0
    BY DEF OpenOn
  <2>4. HIDE DEF A, f
  <2>5. QED
    BY <2>2, <2>3, SumOfZeros
<1>4. QED
  BY <1>3

(* A poll counts what was uncounted, or nothing when it fails.             *)
LEMMA PollKeepsMoved ==
    ASSUME CountInv, CountInv', MovedInv, PollConnections
    PROVE  MovedInv'
<1>0. CountTypes /\ CountTypes' /\ OpenIsFinite /\ UncountedMoved /\ UNCHANGED <<conns, moved>>
  BY DEF CountInv, MovedInv, PollConnections, mihomoSide
<1>1. \A n \in Nodes : /\ Uncounted(n) \in Nat /\ moved[n] \in Nat
                       /\ CountedOn(n) \in Nat /\ CountedOn(n) + Uncounted(n) <= moved[n]
  BY <1>0, UncountedTyped, CycleCounts DEF CountedOn, CountTypes, UncountedMoved
<1>2. CASE /\ Deltas \in [Buckets -> 0..MaxMoved] /\ counted' = Plus(counted, Deltas)
           /\ lastSeen' = [c \in Conns |-> IF c \in Open THEN conns[c].bytes ELSE None]
           /\ baseline' = TRUE
  <2>1. ASSUME NEW c \in Open' PROVE Fresh(c)' = 0
    <3>1. c \in Open /\ c \in Conns /\ conns'[c].bytes \in Nat
      BY <1>0, <2>1, FreshTypedNext DEF Open
    <3>2. lastSeen'[c] = conns'[c].bytes /\ baseline' = TRUE
      BY <1>0, <1>2, <3>1
    <3>3. lastSeen'[c] # None
      BY <3>1, <3>2, TrafficAssumption
    <3>4. QED
      BY <3>1, <3>2, <3>3 DEF Fresh
  <2>2. ASSUME NEW n \in Nodes PROVE CountedOn(n)' <= moved'[n] /\ CountedOn(n)' \in Nat
    <3>1. ASSUME NEW k \in 1..MaxCycles
          PROVE  counted'[<<k, n>>] <= counted[<<k, n>>] + (IF k = cycle THEN Uncounted(n) ELSE 0)
      <4>1. <<k, n>> \in Buckets /\ counted[<<k, n>>] \in Nat
        BY <1>0 DEF Buckets, CountTypes
      <4>2. Deltas[<<k, n>>] = IF k = cycle THEN Uncounted(n) ELSE 0
        BY <4>1 DEF Deltas
      <4>3. counted'[<<k, n>>] = counted[<<k, n>>] + Deltas[<<k, n>>]
        BY <1>2, <4>1 DEF Plus
      <4>4. QED
        BY <1>1, <4>1, <4>2, <4>3
    <3>2. CountedOn(n)' \in Nat /\ CountedOn(n)' <= CountedOn(n) + Uncounted(n)
      BY <1>0, <1>1, <3>1, CountedGrows
    <3>3. QED
      BY <1>0, <1>1, <3>2
  <2>3. QED
    BY <1>0, <2>1, <2>2, NothingFresh
<1>3. CASE baseline' = FALSE /\ UNCHANGED counted
  <2>1. \A c \in Open' : Fresh(c)' = 0
    BY <1>3 DEF Fresh
  <2>2. \A n \in Nodes : CountedOn(n)' = CountedOn(n)
    BY <1>3 DEF CountedOn
  <2>3. \A n \in Nodes : CountedOn(n)' <= moved'[n] /\ CountedOn(n)' \in Nat
    BY <1>0, <1>1, <2>2
  <2>4. QED
    BY <1>0, <2>1, <2>3, NothingFresh
<1>4. QED
  BY <1>2, <1>3 DEF PollConnections

(* A restart forgets the baselines and what was not written: less is       *)
(* counted than before.                                                    *)
LEMMA RestartKeepsMoved ==
    ASSUME CountInv, CountInv', MovedInv, Restart
    PROVE  MovedInv'
<1>0. CountTypes /\ CountTypes' /\ OpenIsFinite /\ UncountedMoved /\ UNCHANGED <<conns, moved>>
  BY DEF CountInv, MovedInv, Restart, mihomoSide
<1>1. baseline' = FALSE /\ counted' = hourly
  BY DEF Restart
<1>2. \A c \in Open' : Fresh(c)' = 0
  BY <1>1 DEF Fresh
<1>3. ASSUME NEW n \in Nodes PROVE CountedOn(n)' <= moved'[n] /\ CountedOn(n)' \in Nat
  <2>1. ASSUME NEW k \in 1..MaxCycles
        PROVE  counted'[<<k, n>>] <= counted[<<k, n>>] + (IF k = cycle THEN 0 ELSE 0)
    <3>1. <<k, n>> \in Buckets
      BY DEF Buckets
    <3>2. /\ counted[<<k, n>>] \in Nat /\ hourly[<<k, n>>] \in Nat /\ pending[<<k, n>>] \in Nat
          /\ taken["loop"][<<k, n>>] \in Nat /\ taken["page"][<<k, n>>] \in Nat
      BY <1>0, <3>1, BucketFunctions DEF CountTypes
    <3>3. counted[<<k, n>>] = hourly[<<k, n>>] + pending[<<k, n>>] + taken["loop"][<<k, n>>] + taken["page"][<<k, n>>]
      BY <3>1 DEF CountInv, CountedIsKept
    <3>4. QED
      BY <1>1, <3>2, <3>3
  <2>2. CountedOn(n) \in Nat /\ CountedOn(n)' \in Nat /\ CountedOn(n)' <= CountedOn(n) + 0
    BY <1>0, <2>1, CountedGrows
  <2>3. Uncounted(n) \in Nat /\ moved[n] \in Nat /\ CountedOn(n) + Uncounted(n) <= moved[n]
    BY <1>0, UncountedTyped DEF CountTypes, UncountedMoved
  <2>4. QED
    BY <1>0, <2>2, <2>3
<1>4. QED
  BY <1>0, <1>2, <1>3, NothingFresh

LEMMA LeavesMoved ==
    ASSUME MovedInv, UNCHANGED <<conns, moved, lastSeen, baseline, counted>>
    PROVE  MovedInv'
<1>1. Open' = Open /\ \A n \in Nodes : Uncounted(n)' = Uncounted(n) /\ CountedOn(n)' = CountedOn(n)
  BY DEF Open, Uncounted, OpenOn, Fresh, CountedOn
<1>2. QED
  BY <1>1 DEF MovedInv, OpenIsFinite, UncountedMoved

LEMMA MovedHolds == IInv /\ IInv' /\ MovedInv /\ [TrafficNext]_trafficVars => MovedInv'
<1> SUFFICES ASSUME IInv, IInv', MovedInv, [TrafficNext]_trafficVars PROVE MovedInv'
  OBVIOUS
<1>1. CountInv /\ CountInv'
  BY DEF IInv
<1>2. CASE ConnOpens \/ ConnMoves \/ ConnCloses
  BY <1>1, <1>2, ConnsKeepMoved
<1>3. CASE PollConnections
  BY <1>1, <1>3, PollKeepsMoved
<1>4. CASE Restart
  BY <1>1, <1>4, RestartKeepsMoved
<1>5. CASE LoopFlush \/ LoopWrite \/ SummaryFlush \/ SummaryWrite
  <2>1. UNCHANGED <<mihomoSide, lastSeen, baseline, counted>>
    BY <1>5 DEF LoopFlush, LoopWrite, SummaryFlush, SummaryWrite, Take, Write
  <2>2. QED
    BY <2>1, LeavesMoved DEF mihomoSide
<1>6. CASE CheckNext
  <2>1. UNCHANGED <<mihomoSide, lastSeen, baseline, counted>>
    BY <1>6 DEF CheckNext, CheckStart, Take, CheckReads, CheckInserts, CheckSends, CheckMarks, CheckEnds, counters
  <2>2. QED
    BY <2>1, LeavesMoved DEF mihomoSide
<1>7. CASE \/ NextCycle \/ UNCHANGED trafficVars
           \/ \E p \in Accounts, a \in Account : CreateProvider(p, a) \/ UpdateProvider(p, a)
           \/ \E p \in Accounts : DeleteAlerts(p) \/ DeleteRow(p)
           \/ \E c \in {"", "ntfy"} : UpdateChannel(c)
  <2>1. UNCHANGED <<mihomoSide, lastSeen, baseline, counted>>
    BY <1>7 DEF NextCycle, CreateProvider, UpdateProvider, Stored, DeleteAlerts, DeleteRow, UpdateChannel,
                counters, trafficVars
  <2>2. QED
    BY <2>1, LeavesMoved DEF mihomoSide
<1>8. QED
  BY <1>2, <1>3, <1>4, <1>5, <1>6, <1>7 DEF TrafficNext, LoopNext

(* Whatever polls fail, ids are used again and the service restarts, no    *)
(* traffic is counted that its node did not move (ingest).                 *)
THEOREM NothingIsInvented == TrafficSpec => []CountedWasMoved
<1>1. TrafficSpec => []MovedInv
  <2>1. MovedInv /\ (IInv /\ IInv' /\ [TrafficNext]_trafficVars) => MovedInv'
    BY MovedHolds
  <2>2. QED
    BY <2>1, MovedStarts, Invariance, PTL DEF TrafficSpec
<1>2. IInv /\ MovedInv => CountedWasMoved
  <2> SUFFICES ASSUME IInv, MovedInv, NEW n \in Nodes PROVE CountedOn(n) <= moved[n]
    BY DEF CountedWasMoved
  <2>1. CountTypes /\ OpenIsFinite /\ CountedOn(n) + Uncounted(n) <= moved[n]
    BY DEF IInv, CountInv, MovedInv, UncountedMoved
  <2>2. Uncounted(n) \in Nat /\ CountedOn(n) \in Nat /\ moved[n] \in Nat
    BY <2>1, UncountedTyped, CycleCounts DEF CountedOn, CountTypes
  <2>3. QED
    BY <2>1, <2>2
<1>3. QED
  BY <1>1, <1>2, Invariance, PTL

=============================================================================
