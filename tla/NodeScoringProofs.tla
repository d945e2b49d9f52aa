------------------------- MODULE NodeScoringProofs -------------------------
(***************************************************************************)
(* What the score queue guarantees for every set of nodes, providers,      *)
(* configurations, probe tokens, scans and callers, and without a bound on *)
(* edits or restarts other than the two constants.                         *)
(***************************************************************************)
EXTENDS NodeScoring, TLAPS

-----------------------------------------------------------------------------
(* Rows the handlers and the probes write. *)

LEMMA NewRow ==
  ASSUME NEW c \in Config
  PROVE  Ensured(NoRow, c) \in Row /\ Ensured(NoRow, c).status = "pending"
BY DEF Row, Config, Ensured

LEMMA RowsWritten ==
  ASSUME NEW r \in Row, NEW c \in Config
  PROVE  /\ Ensured(r, c) \in Row /\ Ensured(r, c).status = "pending"
         /\ Requested(r) \in Row /\ Requested(r).status = "pending"
         /\ Succeeded(r, c) \in Row /\ Succeeded(r, c).status = "ok"
         /\ Failed(r) \in Row /\ Failed(r).status = "failed"
         /\ Deferred(r) \in Row /\ Deferred(r).status = "pending"
BY DEF Row, Config, Ensured, Requested, Succeeded, Failed, Deferred

LEMMA LongerWait ==
  ASSUME NEW a \in 0..MaxCool, NEW b \in 0..MaxCool
  PROVE  Max({a, b}) \in 0..MaxCool
BY BoundsAssumption DEF Max

-----------------------------------------------------------------------------
(* Type correctness. *)

LEMMA InitIInv == Init => IInv
<1> SUFFICES ASSUME Init PROVE IInv
  OBVIOUS
<1>1. TypeOK
  <2>1. EnvTypeOK
    BY BoundsAssumption DEF Init, EnvTypeOK
  <2>2. QueueTypeOK
    BY DEF Init, QueueTypeOK
  <2>3. LoopTypeOK /\ WorkTypeOK
    BY DEF Init, LoopTypeOK, WorkTypeOK
  <2>4. ScanTypeOK /\ CacheTypeOK /\ CallTypeOK
    BY DEF Init, ScanTypeOK, CacheTypeOK, CallTypeOK
  <2> QED
    BY <2>1, <2>2, <2>3, <2>4 DEF TypeOK
<1>2. JoinedOutsideBatch /\ LoopIsScanning /\ ClaimedLeftBatch /\ OneProbePerNode
  BY BoundsAssumption DEF Init, JoinedOutsideBatch, LoopIsScanning, ClaimedLeftBatch, OneProbePerNode
<1>3. TestingIsOwned /\ ScanCarriesNodes /\ CallCarriesRow
  BY DEF Init, TestingIsOwned, ScanCarriesNodes, CallCarriesRow
<1> QED
  BY <1>1, <1>2, <1>3 DEF IInv

-----------------------------------------------------------------------------
(* Steps of a scan. *)

LEMMA ScanUpdated ==
  ASSUME ScanTypeOK, NEW x \in Scanners, NEW r \in Scan \cup {Idle},
         scan' = [scan EXCEPT ![x] = r]
  PROVE  ScanTypeOK'
BY DEF ScanTypeOK

\* What a section is entered with.
LEMMA Sections ==
  ASSUME NEW x \in Scanners, scan[x] \in Scan,
         NEW S \in SUBSET Nodes, NEW snap \in [S -> Config]
  PROVE  Section(x, snap) \in Scan
<1>1. snap \in Snapshot /\ Present(snap) \subseteq Nodes
  BY DEF Snapshot, Present
<1> QED
  BY <1>1 DEF Section, Scan

LEMMA SnapshotDomain ==
  ASSUME NEW snap \in Snapshot
  PROVE  /\ DOMAIN snap \subseteq Nodes
         /\ \A n \in DOMAIN snap : snap[n] \in Config
BY DEF Snapshot

LEMMA NoSnapshot == [n \in {} |-> NoConfig] \in Snapshot
<1>1. [n \in {} |-> NoConfig] \in [{} -> Config]
  OBVIOUS
<1> QED
  BY <1>1 DEF Snapshot

LEMMA Enqueued ==
  ASSUME QueueTypeOK, late \subseteq Nodes, NEW n \in Nodes, NEW r \in Row, Enqueue(n, r)
  PROVE  QueueTypeOK' /\ late' \subseteq Nodes
BY DEF QueueTypeOK, Enqueue, FallDue, Among

LEMMA EffectiveNodesType ==
  ASSUME TypeOK, NEW p \in Providers
  PROVE  EffectiveNodes(p) \in [NodesOf(p) -> Config] /\ NodesOf(p) \subseteq Nodes
BY DEF TypeOK, CacheTypeOK, EnvTypeOK, EffectiveNodes, NodesOf, Nodes

LEMMA CacheUpdated ==
  ASSUME TypeOK, NEW p \in Providers, cache' = [cache EXCEPT ![p] = EffectiveNodes(p)]
  PROVE  CacheTypeOK'
BY EffectiveNodesType DEF TypeOK, CacheTypeOK

LEMMA ScanTypes ==
  ASSUME TypeOK, ScanCarriesNodes, NEW x \in Scanners, ScanStep(x)
  PROVE  TypeOK'
<1> USE DEF dataVars, runVars, envVars, queueVars, coolVars, loopVars, boundVars
<1>1. ASSUME ScanBegin(x)
     PROVE  TypeOK'
  <2> DEFINE r == [phase |-> "static", part |-> "static", rest |-> {}, live |-> {},
                   disabled |-> paused, seen |-> [n \in {} |-> NoConfig],
                   todo |-> {}, node |-> NoConfig, got |-> NoRow, victims |-> {}]
  <2>1. r \in Scan
    BY NoSnapshot DEF Scan, TypeOK, EnvTypeOK
  <2>2. ScanTypeOK'
    BY <1>1, <2>1, ScanUpdated DEF ScanBegin, TypeOK
  <2>3. EnvTypeOK'
    BY <1>1, BoundsAssumption DEF ScanBegin, TypeOK, EnvTypeOK
  <2> QED
    BY <1>1, <2>2, <2>3 DEF ScanBegin, NextGeneration, TypeOK, EnvTypeOK,
        QueueTypeOK, LoopTypeOK, WorkTypeOK, CacheTypeOK, CallTypeOK
<1>2. ASSUME ScanStatic(x)
     PROVE  TypeOK'
  <2> DEFINE r == Section(x, [n \in StaticNodes |-> inv[n]])
  <2>1. scan[x] \in Scan /\ scan' = [scan EXCEPT ![x] = r]
    BY <1>2 DEF ScanStatic, ScanAt, TypeOK, ScanTypeOK
  <2>2. r \in Scan
    BY <1>2, <2>1, Sections, NodesAssumption DEF ScanStatic, ScanAt, Scan,
        TypeOK, QueueTypeOK, EnvTypeOK, Nodes
  <2>3. ScanTypeOK'
    BY <2>1, <2>2, ScanUpdated DEF TypeOK
  <2> QED
    BY <1>2, <2>3 DEF ScanStatic, TypeOK, EnvTypeOK, QueueTypeOK, LoopTypeOK,
        WorkTypeOK, CacheTypeOK, CallTypeOK
<1>3. ASSUME NEW p \in Providers, ScanProvider(x, p)
     PROVE  TypeOK'
  <2> DEFINE r == [Section(x, EffectiveNodes(p)) EXCEPT !.rest = @ \ {p}]
  <2>1. scan[x] \in Scan /\ scan' = [scan EXCEPT ![x] = r]
    BY <1>3 DEF ScanProvider, ScanAt, TypeOK, ScanTypeOK
  <2>2. r \in Scan
    <3>1. Section(x, EffectiveNodes(p)) \in Scan
      BY <2>1, Sections, EffectiveNodesType
    <3> QED
      BY <3>1, <1>3 DEF Scan
  <2>3. ScanTypeOK'
    BY <2>1, <2>2, ScanUpdated DEF TypeOK
  <2>4. CacheTypeOK'
    BY <1>3, CacheUpdated DEF ScanProvider
  <2> QED
    BY <1>3, <2>3, <2>4 DEF ScanProvider, TypeOK, EnvTypeOK, QueueTypeOK,
        LoopTypeOK, WorkTypeOK, CacheTypeOK, CallTypeOK
<1>4. ASSUME NEW p \in Providers, ScanSkip(x, p)
     PROVE  TypeOK'
  <2> DEFINE r == [scan[x] EXCEPT !.rest = @ \ {p}]
  <2>1. scan[x] \in Scan /\ scan' = [scan EXCEPT ![x] = r]
    BY <1>4 DEF ScanSkip, ScanAt, TypeOK, ScanTypeOK
  <2>2. r \in Scan
    BY <1>4, <2>1 DEF ScanSkip, ScanAt, Scan, TypeOK, QueueTypeOK, EnvTypeOK
  <2>3. ScanTypeOK'
    BY <2>1, <2>2, ScanUpdated DEF TypeOK
  <2> QED
    BY <1>4, <2>3 DEF ScanSkip, TypeOK, EnvTypeOK, QueueTypeOK, LoopTypeOK,
        WorkTypeOK, CacheTypeOK, CallTypeOK
<1>5. ASSUME NEW n \in Nodes, ScanGet(x, n)
     PROVE  TypeOK'
  <2> DEFINE r == IF IsCurrent(rows[n], scan[x].seen[n])
                   THEN [scan[x] EXCEPT !.todo = @ \ {n}]
                   ELSE [scan[x] EXCEPT !.todo = @ \ {n}, !.phase = "put",
                                        !.node = n, !.got = rows[n]]
  <2>1. scan[x] \in Scan /\ scan' = [scan EXCEPT ![x] = r]
    BY <1>5 DEF ScanGet, ScanAt, TypeOK, ScanTypeOK
  <2>2. r \in Scan
    <3>1. rows[n] \in Row \cup {NoRow}
      BY DEF TypeOK, QueueTypeOK
    <3>2. [scan[x] EXCEPT !.todo = @ \ {n}] \in Scan
      BY <2>1 DEF Scan
    <3>3. [scan[x] EXCEPT !.todo = @ \ {n}, !.phase = "put", !.node = n,
                          !.got = rows[n]] \in Scan
      BY <2>1, <3>1 DEF Scan
    <3> QED
      BY <3>2, <3>3
  <2>3. ScanTypeOK'
    BY <2>1, <2>2, ScanUpdated DEF TypeOK
  <2> QED
    BY <1>5, <2>3 DEF ScanGet, TypeOK, EnvTypeOK, QueueTypeOK, LoopTypeOK,
        WorkTypeOK, CacheTypeOK, CallTypeOK
<1>6. ASSUME ScanPut(x)
     PROVE  TypeOK'
  <2> DEFINE r == [scan[x] EXCEPT !.phase = "ensure", !.node = NoConfig,
                                      !.got = NoRow]
  <2>1. scan[x] \in Scan /\ scan' = [scan EXCEPT ![x] = r]
    BY <1>6 DEF ScanPut, ScanAt, TypeOK, ScanTypeOK
  <2>2. r \in Scan
    BY <1>6, <2>1 DEF ScanPut, ScanAt, Scan, TypeOK, QueueTypeOK, EnvTypeOK
  <2>3. ScanTypeOK'
    BY <2>1, <2>2, ScanUpdated DEF TypeOK
  <2>4. QueueTypeOK' /\ late' \subseteq Nodes
    <3>1. scan[x].node \in Nodes /\ scan[x].seen[scan[x].node] \in Config
      BY <1>6, <2>1, SnapshotDomain DEF ScanPut, ScanAt, ScanCarriesNodes, Scan
    <3>2. Ensured(scan[x].got, scan[x].seen[scan[x].node]) \in Row
      BY <2>1, <3>1, RowsWritten, NewRow DEF Scan
    <3> QED
      BY <1>6, <3>1, <3>2, Enqueued DEF ScanPut, TypeOK, QueueTypeOK, LoopTypeOK
  <2> QED
    BY <1>6, <2>3, <2>4 DEF ScanPut, TypeOK, EnvTypeOK, QueueTypeOK,
        LoopTypeOK, WorkTypeOK, CacheTypeOK, CallTypeOK
<1>7. ASSUME ScanRows(x)
     PROVE  TypeOK'
  <2> DEFINE r == [scan[x] EXCEPT !.phase = "prune",
                   !.victims = {n \in DOMAIN scan[x].seen :
                                  rows[n] # NoRow /\ scan[x].seen[n] = NoConfig}]
  <2>1. scan[x] \in Scan /\ scan' = [scan EXCEPT ![x] = r]
    BY <1>7 DEF ScanRows, ScanAt, TypeOK, ScanTypeOK
  <2>2. r \in Scan
    BY <1>7, <2>1, SnapshotDomain DEF ScanRows, ScanAt, Scan, TypeOK,
        QueueTypeOK, EnvTypeOK
  <2>3. ScanTypeOK'
    BY <2>1, <2>2, ScanUpdated DEF TypeOK
  <2> QED
    BY <1>7, <2>3 DEF ScanRows, TypeOK, EnvTypeOK, QueueTypeOK, LoopTypeOK,
        WorkTypeOK, CacheTypeOK, CallTypeOK
<1>8. ASSUME NEW n \in Nodes, ScanPrune(x, n)
     PROVE  TypeOK'
  <2> DEFINE r == [scan[x] EXCEPT !.victims = @ \ {n}]
  <2>1. scan[x] \in Scan /\ scan' = [scan EXCEPT ![x] = r]
    BY <1>8 DEF ScanPrune, Delete, NotDue, Among, ScanAt, TypeOK, ScanTypeOK
  <2>2. r \in Scan
    BY <1>8, <2>1 DEF ScanPrune, Delete, NotDue, Among, ScanAt, Scan, TypeOK,
        QueueTypeOK, EnvTypeOK
  <2>3. ScanTypeOK'
    BY <2>1, <2>2, ScanUpdated DEF TypeOK
  <2> QED
    BY <1>8, <2>3 DEF ScanPrune, Delete, NotDue, Among, TypeOK, EnvTypeOK,
        QueueTypeOK, LoopTypeOK, WorkTypeOK, CacheTypeOK, CallTypeOK
<1>9. ASSUME ScanNext(x)
     PROVE  TypeOK'
  <2> DEFINE r == IF scan[x].part = "static"
       THEN [scan[x] EXCEPT !.phase = "pick", !.part = "provider", !.rest = draft,
                      !.live = draft, !.seen = [n \in {} |-> NoConfig]]
       ELSE [scan[x] EXCEPT !.phase = "pick", !.seen = [n \in {} |-> NoConfig]]
  <2>1. scan[x] \in Scan /\ scan' = [scan EXCEPT ![x] = r]
    BY <1>9 DEF ScanNext, ScanAt, TypeOK, ScanTypeOK
  <2>2. r \in Scan
    BY <1>9, <2>1, NoSnapshot DEF ScanNext, ScanAt, Scan, TypeOK, QueueTypeOK,
        EnvTypeOK
  <2>3. ScanTypeOK'
    BY <2>1, <2>2, ScanUpdated DEF TypeOK
  <2> QED
    BY <1>9, <2>3 DEF ScanNext, TypeOK, EnvTypeOK, QueueTypeOK, LoopTypeOK,
        WorkTypeOK, CacheTypeOK, CallTypeOK
<1>10. ASSUME ScanOrphans(x)
     PROVE  TypeOK'
  <2> DEFINE r == [scan[x] EXCEPT !.phase = "orphans",
                   !.victims = {n \in ProviderNodes :
                                  /\ rows[n] # NoRow
                                  /\ ProviderOf[n] \notin scan[x].live}]
  <2>1. scan[x] \in Scan /\ scan' = [scan EXCEPT ![x] = r]
    BY <1>10 DEF ScanOrphans, ScanAt, TypeOK, ScanTypeOK
  <2>2. r \in Scan
    BY <1>10, <2>1 DEF ScanOrphans, ScanAt, Scan, TypeOK, QueueTypeOK,
        EnvTypeOK, Nodes
  <2>3. ScanTypeOK'
    BY <2>1, <2>2, ScanUpdated DEF TypeOK
  <2> QED
    BY <1>10, <2>3 DEF ScanOrphans, TypeOK, EnvTypeOK, QueueTypeOK, LoopTypeOK,
        WorkTypeOK, CacheTypeOK, CallTypeOK
<1>11. ASSUME ScanEnd(x)
     PROVE  TypeOK'
  <2>1. ScanTypeOK'
    BY <1>11, ScanUpdated DEF ScanEnd, TypeOK
  <2> QED
    BY <1>11, <2>1 DEF ScanEnd, TypeOK, EnvTypeOK, QueueTypeOK, LoopTypeOK,
        WorkTypeOK, CacheTypeOK, CallTypeOK
<1> QED
  BY <1>1, <1>2, <1>3, <1>4, <1>5, <1>6, <1>7, <1>8, <1>9, <1>10, <1>11 DEF
      ScanStep

-----------------------------------------------------------------------------
(* Type correctness of the steps of the loop, the probes, the callers and    *)
(* the environment.                                                          *)

LEMMA DispatchTypes ==
  ASSUME TypeOK, ResetTesting \/ ScanTick \/ DispatchStep
  PROVE  TypeOK'
<1> USE DEF dataVars, runVars, envVars, queueVars, coolVars, loopVars, boundVars
<1>1. ASSUME ResetTesting
     PROVE  TypeOK'
  <2>1. rows' \in [Nodes -> Row \cup {NoRow}]
    <3>1. \A m \in Stuck : [rows[m] EXCEPT !.status = "pending"] \in Row
      BY DEF Stuck, IsTesting, Row, TypeOK, QueueTypeOK
    <3> QED
      BY <1>1, <3>1 DEF ResetTesting, TypeOK, QueueTypeOK
  <2>2. QueueTypeOK'
    BY <1>1, <2>1 DEF ResetTesting, Stuck, FallDue, TypeOK, QueueTypeOK
  <2> QED
    BY <1>1, <2>2 DEF ResetTesting, TypeOK, EnvTypeOK, LoopTypeOK, WorkTypeOK,
        ScanTypeOK, CacheTypeOK, CallTypeOK
<1>2. ASSUME ScanTick
     PROVE  TypeOK'
  BY <1>2 DEF ScanTick, TypeOK, EnvTypeOK, QueueTypeOK, LoopTypeOK, WorkTypeOK,
      ScanTypeOK, CacheTypeOK, CallTypeOK
<1>3. ASSUME DispatchStart
     PROVE  TypeOK'
  BY <1>3 DEF DispatchStart, TypeOK, EnvTypeOK, QueueTypeOK, LoopTypeOK,
      WorkTypeOK, ScanTypeOK, CacheTypeOK, CallTypeOK
<1>4. ASSUME DispatchList
     PROVE  TypeOK'
  BY <1>4 DEF DispatchList, TypeOK, EnvTypeOK, QueueTypeOK, LoopTypeOK,
      WorkTypeOK, ScanTypeOK, CacheTypeOK, CallTypeOK
<1>5. ASSUME NEW n \in Nodes, NEW s \in Slots, DispatchClaim(n, s)
     PROVE  TypeOK'
  BY <1>5 DEF DispatchClaim, NextListed, Listed, Row, Work, Config, TypeOK,
      EnvTypeOK, QueueTypeOK, LoopTypeOK, WorkTypeOK, ScanTypeOK, CacheTypeOK,
      CallTypeOK
<1>6. ASSUME NEW n \in Nodes, DispatchMiss(n)
     PROVE  TypeOK'
  BY <1>6 DEF DispatchMiss, TypeOK, EnvTypeOK, QueueTypeOK, LoopTypeOK,
      WorkTypeOK, ScanTypeOK, CacheTypeOK, CallTypeOK
<1>7. ASSUME DispatchCapped
     PROVE  TypeOK'
  BY <1>7 DEF DispatchCapped, TypeOK, EnvTypeOK, QueueTypeOK, LoopTypeOK,
      WorkTypeOK, ScanTypeOK, CacheTypeOK, CallTypeOK
<1>8. ASSUME DispatchWait
     PROVE  TypeOK'
  BY <1>8 DEF DispatchWait, TypeOK, EnvTypeOK, QueueTypeOK, LoopTypeOK,
      WorkTypeOK, ScanTypeOK, CacheTypeOK, CallTypeOK
<1> QED
  BY <1>1, <1>2, <1>3, <1>4, <1>5, <1>6, <1>7, <1>8 DEF DispatchStep

\* materialize yields a configuration, whichever kind of node it is.
LEMMA Materialized ==
  ASSUME TypeOK, NEW s \in Slots, ProbeMaterialize(s)
  PROVE  /\ \E c \in Config : work' = [work EXCEPT ![s].cfg = c]
         /\ CacheTypeOK'
<1>1. work[s].node \in Nodes
  BY DEF ProbeMaterialize, TypeOK, WorkTypeOK, Work
<1>2. CASE work[s].node \in StaticNodes
  <2>1. inv[work[s].node] \in Config
    BY <1>1 DEF TypeOK, EnvTypeOK
  <2> QED
    BY <1>2, <2>1 DEF ProbeMaterialize, TypeOK, CacheTypeOK
<1>3. CASE work[s].node \notin StaticNodes
  <2> DEFINE p == ProviderOf[work[s].node]
  <2>1. p \in Providers /\ work[s].node \in NodesOf(p)
    BY <1>1, <1>3, NodesAssumption DEF Nodes, NodesOf
  <2>2. EffectiveNodes(p)[work[s].node] \in Config
    BY <2>1, EffectiveNodesType
  <2> QED
    BY <1>3, <2>1, <2>2, CacheUpdated DEF ProbeMaterialize
<1> QED
  BY <1>2, <1>3

LEMMA ProbeTypes ==
  ASSUME TypeOK, NEW s \in Slots, ProbeMaterialize(s) \/ ProbeEnd(s)
  PROVE  TypeOK'
<1> USE DEF dataVars, runVars, envVars, queueVars, coolVars, loopVars, boundVars
<1>1. ASSUME ProbeMaterialize(s)
     PROVE  TypeOK'
  <2>1. work[s] \in Work
    BY <1>1 DEF ProbeMaterialize, TypeOK, WorkTypeOK
  <2>2. PICK c \in Config : work' = [work EXCEPT ![s].cfg = c]
    BY <1>1, Materialized
  <2>3. WorkTypeOK' /\ CacheTypeOK'
    BY <1>1, <2>1, <2>2, Materialized DEF Work, TypeOK, WorkTypeOK
  <2> QED
    BY <1>1, <2>3 DEF ProbeMaterialize, TypeOK, EnvTypeOK, QueueTypeOK, LoopTypeOK,
       ScanTypeOK, CallTypeOK
<1>2. ASSUME ProbeOk(s)
     PROVE  TypeOK'
  <2>1. work[s] \in Work
    BY <1>2 DEF ProbeOk, TypeOK, WorkTypeOK
  <2>2. work[s].node \in Nodes /\ Succeeded(work[s].row, work[s].cfg) \in Row
    BY <2>1, RowsWritten DEF Work
  <2>3. QueueTypeOK' /\ WorkTypeOK'
    BY <1>2, <2>2 DEF ProbeOk, ProbeFinish, NotDue, Among, TypeOK, QueueTypeOK, WorkTypeOK
  <2>4. EnvTypeOK'
    BY <1>2 DEF ProbeOk, ProbeFinish, TypeOK, EnvTypeOK
  <2> QED
    BY <1>2, <2>3, <2>4 DEF ProbeOk, ProbeFinish, TypeOK, LoopTypeOK,
        ScanTypeOK, CacheTypeOK, CallTypeOK
<1>3. ASSUME ProbeFail(s)
     PROVE  TypeOK'
  <2>1. work[s] \in Work
    BY <1>3 DEF ProbeFail, TypeOK, WorkTypeOK
  <2>2. work[s].node \in Nodes /\ Failed(work[s].row) \in Row
    BY <2>1, RowsWritten DEF Work
  <2>3. QueueTypeOK' /\ WorkTypeOK'
    BY <1>3, <2>2 DEF ProbeFail, ProbeFinish, NotDue, Among, TypeOK, QueueTypeOK, WorkTypeOK
  <2>4. EnvTypeOK'
    BY <1>3 DEF ProbeFail, ProbeFinish, TypeOK, EnvTypeOK
  <2> QED
    BY <1>3, <2>3, <2>4 DEF ProbeFail, ProbeFinish, TypeOK, LoopTypeOK,
        ScanTypeOK, CacheTypeOK, CallTypeOK
<1>4. ASSUME NEW d \in 1..MaxCool, ProbeRateLimited(s, d)
     PROVE  TypeOK'
  <2>1. work[s] \in Work
    BY <1>4 DEF ProbeRateLimited, TypeOK, WorkTypeOK
  <2>2. work[s].node \in Nodes /\ Deferred(work[s].row) \in Row
    BY <2>1, RowsWritten DEF Work
  <2>3. QueueTypeOK' /\ WorkTypeOK'
    BY <1>4, <2>2 DEF ProbeRateLimited, ProbeFinish, NotDue, Among, TypeOK, QueueTypeOK, WorkTypeOK
  <2>4. EnvTypeOK'
    BY <1>4, LongerWait, BoundsAssumption DEF ProbeRateLimited, ProbeFinish,
        TypeOK, EnvTypeOK
  <2> QED
    BY <1>4, <2>3, <2>4 DEF ProbeRateLimited, ProbeFinish, TypeOK, LoopTypeOK,
        ScanTypeOK, CacheTypeOK, CallTypeOK
<1> QED
  BY <1>1, <1>2, <1>3, <1>4 DEF ProbeEnd

LEMMA CallTypes ==
  ASSUME TypeOK, CallCarriesRow, NEW k \in Callers, CallStep(k)
  PROVE  TypeOK'
<1> USE DEF dataVars, runVars, envVars, queueVars, coolVars, loopVars, boundVars
<1>1. ASSUME CallName(k)
     PROVE  TypeOK'
  BY <1>1 DEF CallName, CallAt, NodeCall, ProviderCall, TypeOK, EnvTypeOK,
      QueueTypeOK, LoopTypeOK, WorkTypeOK, ScanTypeOK, CacheTypeOK, CallTypeOK
<1>2. ASSUME CallGet(k)
     PROVE  TypeOK'
  <2> DEFINE c == [call[k] EXCEPT !.got = rows[call[k].node], !.stage = "put"]
  <2>1. call[k] \in NodeCall /\ rows[call[k].node] \in Row \cup {NoRow}
    BY <1>2 DEF CallGet, CallAt, TypeOK, CallTypeOK, QueueTypeOK, NodeCall,
        ProviderCall
  <2>2. c \in NodeCall
    BY <2>1 DEF NodeCall
  <2>3. call' = [call EXCEPT ![k] = Idle] \/ call' = [call EXCEPT ![k] = c]
    BY <1>2 DEF CallGet
  <2>4. CallTypeOK'
    BY <2>2, <2>3 DEF TypeOK, CallTypeOK
  <2> QED
    BY <1>2, <2>4 DEF CallGet, TypeOK, EnvTypeOK, QueueTypeOK, LoopTypeOK,
        WorkTypeOK, ScanTypeOK, CacheTypeOK
<1>3. ASSUME CallPut(k)
     PROVE  TypeOK'
  <2> DEFINE c == call[k]
  <2>1. c \in NodeCall /\ c.op \in {"enqueue", "refresh"}
    BY <1>3 DEF CallPut, CallAt, CallCarriesRow, TypeOK, CallTypeOK, NodeCall,
        ProviderCall
  <2>2. CASE c.op = "enqueue"
    <3>1. Ensured(c.got, c.fp) \in Row
      BY <2>1, RowsWritten, NewRow DEF NodeCall
    <3>2. QueueTypeOK' /\ late' \subseteq Nodes
      BY <1>3, <2>1, <2>2, <3>1, Enqueued DEF CallPut, NodeCall, TypeOK, LoopTypeOK
    <3> QED
      BY <1>3, <3>2 DEF CallPut, TypeOK, EnvTypeOK, LoopTypeOK, WorkTypeOK,
          ScanTypeOK, CacheTypeOK, CallTypeOK
  <2>3. CASE c.op = "refresh"
    <3>1. Requested(c.got) \in Row
      BY <1>3, <2>1, <2>3, RowsWritten DEF CallPut, CallAt, CallCarriesRow, NodeCall
    <3>2. QueueTypeOK' /\ late' \subseteq Nodes
      BY <1>3, <2>1, <2>3, <3>1, Enqueued DEF CallPut, NodeCall, TypeOK, LoopTypeOK
    <3> QED
      BY <1>3, <3>2 DEF CallPut, TypeOK, EnvTypeOK, LoopTypeOK, WorkTypeOK,
          ScanTypeOK, CacheTypeOK, CallTypeOK
  <2> QED
    BY <2>1, <2>2, <2>3
<1>4. ASSUME CallDrop(k)
     PROVE  TypeOK'
  BY <1>4 DEF CallDrop, CallAt, Delete, NotDue, NodeCall, ProviderCall, TypeOK,
      EnvTypeOK, QueueTypeOK, LoopTypeOK, WorkTypeOK, ScanTypeOK, CacheTypeOK,
      CallTypeOK
<1>5. ASSUME CallUndraft(k)
     PROVE  TypeOK'
  BY <1>5 DEF CallUndraft, NextGeneration, TypeOK, EnvTypeOK, QueueTypeOK,
      LoopTypeOK, WorkTypeOK, ScanTypeOK, CacheTypeOK, CallTypeOK
<1>6. ASSUME CallUnpause(k)
     PROVE  TypeOK'
  BY <1>6 DEF CallUnpause, CallAt, NodeCall, ProviderCall, TypeOK, EnvTypeOK, QueueTypeOK,
      LoopTypeOK, WorkTypeOK, ScanTypeOK, CacheTypeOK, CallTypeOK
<1> QED
  BY <1>1, <1>2, <1>3, <1>4, <1>5, <1>6 DEF CallStep

LEMMA RequestTypes ==
  ASSUME TypeOK, NEW k \in Callers, Request(k)
  PROVE  TypeOK'
<1> USE DEF dataVars, runVars, envVars, queueVars, coolVars, loopVars, boundVars
<1>1. ASSUME NEW n \in StaticNodes, NEW c \in Configs, ProxySave(k, n, c)
     PROVE  TypeOK'
  BY <1>1, BoundsAssumption DEF ProxySave, Begin, Nodes, Config, NodeCall,
      TypeOK, EnvTypeOK, QueueTypeOK, LoopTypeOK, WorkTypeOK, ScanTypeOK,
      CacheTypeOK, CallTypeOK
<1>2. ASSUME NEW n \in StaticNodes, ProxyDelete(k, n)
     PROVE  TypeOK'
  BY <1>2, BoundsAssumption DEF ProxyDelete, Begin, Nodes, Config, NodeCall,
      TypeOK, EnvTypeOK, QueueTypeOK, LoopTypeOK, WorkTypeOK, ScanTypeOK,
      CacheTypeOK, CallTypeOK
<1>3. ASSUME NEW n \in Nodes, RefreshNodes(k, n)
     PROVE  TypeOK'
  BY <1>3, BoundsAssumption DEF RefreshNodes, Begin, Config, NodeCall, TypeOK,
      EnvTypeOK, QueueTypeOK, LoopTypeOK, WorkTypeOK, ScanTypeOK, CacheTypeOK,
      CallTypeOK
<1>4. ASSUME NEW p \in Providers, SubscriptionDelete(k, p)
     PROVE  TypeOK'
  BY <1>4, BoundsAssumption DEF SubscriptionDelete, Edit, NotDue, Config,
      ProviderCall, TypeOK, EnvTypeOK, QueueTypeOK, LoopTypeOK, WorkTypeOK,
      ScanTypeOK, CacheTypeOK, CallTypeOK
<1> QED
  BY <1>1, <1>2, <1>3, <1>4 DEF Request

LEMMA EnvironmentTypes ==
  ASSUME TypeOK, Environment
  PROVE  TypeOK'
<1> USE DEF dataVars, runVars, envVars, queueVars, coolVars, loopVars, boundVars
<1>1. ASSUME NEW n \in Nodes, NEW c \in Config, InventoryChange(n, c)
     PROVE  TypeOK'
  BY <1>1, BoundsAssumption DEF InventoryChange, Edit, Nodes, TypeOK, EnvTypeOK,
      QueueTypeOK, LoopTypeOK, WorkTypeOK, ScanTypeOK, CacheTypeOK, CallTypeOK
<1>2. ASSUME NEW p \in Providers, SubscriptionPause(p)
     PROVE  TypeOK'
  BY <1>2, BoundsAssumption DEF SubscriptionPause, Edit, TypeOK, EnvTypeOK,
      QueueTypeOK, LoopTypeOK, WorkTypeOK, ScanTypeOK, CacheTypeOK, CallTypeOK
<1>3. ASSUME NEW n \in Nodes, Elapse(n)
     PROVE  TypeOK'
  BY <1>3 DEF Elapse, FallDue, TypeOK, EnvTypeOK, QueueTypeOK, LoopTypeOK,
      WorkTypeOK, ScanTypeOK, CacheTypeOK, CallTypeOK
<1>4. ASSUME CoolTick
     PROVE  TypeOK'
  BY <1>4, BoundsAssumption DEF CoolTick, TypeOK, EnvTypeOK, QueueTypeOK,
      LoopTypeOK, WorkTypeOK, ScanTypeOK, CacheTypeOK, CallTypeOK
<1>5. ASSUME Crash
     PROVE  TypeOK'
  <2>1. EnvTypeOK' /\ QueueTypeOK'
    BY <1>5, BoundsAssumption DEF Crash, TypeOK, EnvTypeOK, QueueTypeOK
  <2>2. LoopTypeOK' /\ WorkTypeOK'
    BY <1>5 DEF Crash, LoopTypeOK, WorkTypeOK
  <2>3. ScanTypeOK' /\ CacheTypeOK' /\ CallTypeOK'
    BY <1>5 DEF Crash, ScanTypeOK, CacheTypeOK, CallTypeOK
  <2> QED
    BY <2>1, <2>2, <2>3 DEF TypeOK
<1> QED
  BY <1>1, <1>2, <1>3, <1>4, <1>5 DEF Environment

LEMMA TypeStep == TypeOK /\ ScanCarriesNodes /\ CallCarriesRow /\ [Next]_vars => TypeOK'
<1> SUFFICES ASSUME TypeOK, ScanCarriesNodes, CallCarriesRow, [Next]_vars
             PROVE  TypeOK'
  OBVIOUS
<1>1. CASE Next
  BY <1>1, ScanTypes, DispatchTypes, ProbeTypes, CallTypes, RequestTypes,
     EnvironmentTypes DEF Next
<1>2. CASE UNCHANGED vars
  BY <1>2 DEF vars, TypeOK, EnvTypeOK, QueueTypeOK, LoopTypeOK, WorkTypeOK,
      ScanTypeOK, CacheTypeOK, CallTypeOK
<1> QED
  BY <1>1, <1>2

-----------------------------------------------------------------------------
(* What a scan and a caller carry from one statement to the next. *)

LEMMA ScanCarries ==
  ASSUME TypeOK, ScanCarriesNodes, NEW x \in Scanners, ScanStep(x)
  PROVE  ScanCarriesNodes'
<1>1. scan[x] = Idle \/ scan[x] \in Scan
  BY DEF TypeOK, ScanTypeOK
<1>2. \A y \in Scanners \ {x} : scan'[y] = scan[y]
  BY DEF ScanStep, ScanBegin, ScanStatic, ScanProvider, ScanSkip, ScanGet, ScanPut,
         ScanRows, ScanPrune, ScanNext, ScanOrphans, ScanEnd, TypeOK, ScanTypeOK
<1> DEFINE Carries(r) == r # Idle =>
             /\ r.todo \subseteq DOMAIN r.seen
             /\ r.phase = "put" => r.node \in DOMAIN r.seen
             /\ r.phase \notin {"ensure", "put"} => r.todo = {}
<1>3. Carries(scan'[x])
  <2>1. ASSUME ScanBegin(x)
       PROVE  Carries(scan'[x])
    BY <2>1, <1>1 DEF ScanBegin, ScanAt, Scan, ScanCarriesNodes, TypeOK, ScanTypeOK
  <2>2. ASSUME ScanStatic(x)
       PROVE  Carries(scan'[x])
    BY <2>2, <1>1 DEF ScanStatic, Section, Present, ScanAt, Scan, ScanCarriesNodes, TypeOK, ScanTypeOK
  <2>3. ASSUME NEW p \in Providers, ScanProvider(x, p)
       PROVE  Carries(scan'[x])
    BY <2>3, <1>1 DEF ScanProvider, Section, Present, ScanAt, Scan, ScanCarriesNodes, TypeOK, ScanTypeOK
  <2>4. ASSUME NEW p \in Providers, ScanSkip(x, p)
       PROVE  Carries(scan'[x])
    BY <2>4, <1>1 DEF ScanSkip, ScanAt, Scan, ScanCarriesNodes, TypeOK, ScanTypeOK
  <2>5. ASSUME NEW n \in Nodes, ScanGet(x, n)
       PROVE  Carries(scan'[x])
    BY <2>5, <1>1 DEF ScanGet, ScanAt, Scan, ScanCarriesNodes, TypeOK, ScanTypeOK
  <2>6. ASSUME ScanPut(x)
       PROVE  Carries(scan'[x])
    BY <2>6, <1>1 DEF ScanPut, ScanAt, Scan, ScanCarriesNodes, TypeOK, ScanTypeOK
  <2>7. ASSUME ScanRows(x)
       PROVE  Carries(scan'[x])
    BY <2>7, <1>1 DEF ScanRows, ScanAt, Scan, ScanCarriesNodes, TypeOK, ScanTypeOK
  <2>8. ASSUME NEW n \in Nodes, ScanPrune(x, n)
       PROVE  Carries(scan'[x])
    BY <2>8, <1>1 DEF ScanPrune, ScanAt, Scan, ScanCarriesNodes, TypeOK, ScanTypeOK
  <2>9. ASSUME ScanNext(x)
       PROVE  Carries(scan'[x])
    BY <2>9, <1>1 DEF ScanNext, ScanAt, Scan, ScanCarriesNodes, TypeOK, ScanTypeOK
  <2>10. ASSUME ScanOrphans(x)
       PROVE  Carries(scan'[x])
    BY <2>10, <1>1 DEF ScanOrphans, ScanAt, Scan, ScanCarriesNodes, TypeOK, ScanTypeOK
  <2>11. ASSUME ScanEnd(x)
       PROVE  Carries(scan'[x])
    BY <2>11, <1>1 DEF ScanEnd, ScanAt, Scan, ScanCarriesNodes, TypeOK, ScanTypeOK
  <2> QED
    BY <2>1, <2>2, <2>3, <2>4, <2>5, <2>6, <2>7, <2>8, <2>9, <2>10, <2>11 DEF ScanStep
<1> QED
  BY <1>2, <1>3 DEF ScanCarriesNodes

LEMMA CallCarries ==
  ASSUME TypeOK, CallCarriesRow, NEW k \in Callers, CallStep(k) \/ Request(k)
  PROVE  CallCarriesRow'
<1>1. ASSUME CallName(k)
      PROVE  CallCarriesRow'
  BY <1>1 DEF CallName, CallAt, CallCarriesRow, TypeOK, CallTypeOK, NodeCall, ProviderCall
<1>2. ASSUME CallGet(k)
      PROVE  CallCarriesRow'
  BY <1>2 DEF CallGet, CallAt, CallCarriesRow, TypeOK, CallTypeOK, NodeCall, ProviderCall
<1>3. ASSUME CallPut(k) \/ CallDrop(k) \/ CallUndraft(k)
      PROVE  CallCarriesRow'
  BY <1>3 DEF CallPut, CallDrop, CallUndraft, CallCarriesRow, TypeOK, CallTypeOK
<1>7. ASSUME CallUnpause(k)
      PROVE  CallCarriesRow'
  <2>1. call[k] \in ProviderCall
    BY <1>7 DEF CallUnpause, CallAt, TypeOK, CallTypeOK, NodeCall
  <2>2. call'[k].op = "unsubscribe" /\ call'[k].stage = "undraft"
    BY <1>7, <2>1 DEF CallUnpause, TypeOK, CallTypeOK, ProviderCall
  <2>3. \A j \in Callers \ {k} : call'[j] = call[j]
    BY <1>7 DEF CallUnpause, TypeOK, CallTypeOK
  <2> QED
    BY <2>2, <2>3 DEF CallCarriesRow
<1>4. ASSUME NEW n \in StaticNodes, ProxyDelete(k, n) \/ \E c \in Configs : ProxySave(k, n, c)
      PROVE  CallCarriesRow'
  BY <1>4 DEF ProxyDelete, ProxySave, Begin, CallCarriesRow, TypeOK, CallTypeOK
<1>5. ASSUME NEW n \in Nodes, RefreshNodes(k, n)
      PROVE  CallCarriesRow'
  BY <1>5 DEF RefreshNodes, Begin, CallCarriesRow, TypeOK, CallTypeOK
<1>6. ASSUME NEW p \in Providers, SubscriptionDelete(k, p)
      PROVE  CallCarriesRow'
  BY <1>6 DEF SubscriptionDelete, CallCarriesRow, TypeOK, CallTypeOK
<1> QED
  BY <1>1, <1>2, <1>3, <1>4, <1>5, <1>6, <1>7 DEF CallStep, Request

-----------------------------------------------------------------------------
(* Ownership: which step may mark a row, and which step moves a token. *)

Owned == /\ JoinedOutsideBatch /\ LoopIsScanning /\ ClaimedLeftBatch
         /\ OneProbePerNode /\ TestingIsOwned

NoNewTesting == \A n \in Nodes : IsTesting(n)' => IsTesting(n)

\* A step that moves no token and marks no row keeps ownership.
LEMMA QuietStep ==
  ASSUME Owned, NoNewTesting, LoopIsScanning', UNCHANGED <<work, batch>>,
         pc' = pc \/ pc \notin {"boot", "claim", "capped"}
  PROVE  Owned'
BY DEF Owned, JoinedOutsideBatch, ClaimedLeftBatch, OneProbePerNode, TestingIsOwned,
       NoNewTesting, BusyNodes, Busy

LEMMA SameLoopScan ==
  ASSUME Owned, UNCHANGED <<scan, pc>>
  PROVE  LoopIsScanning'
BY DEF Owned, LoopIsScanning

LEMMA UntouchedRows ==
  ASSUME UNCHANGED rows
  PROVE  NoNewTesting
BY DEF NoNewTesting, IsTesting

LEMMA EnqueuedRow ==
  ASSUME TypeOK, NEW n \in Nodes, NEW r \in Row, r.status # "testing", Enqueue(n, r)
  PROVE  NoNewTesting
BY DEF Enqueue, NoNewTesting, IsTesting, TypeOK, QueueTypeOK

LEMMA DeletedRow ==
  ASSUME TypeOK, NEW n \in Nodes, Delete(n)
  PROVE  NoNewTesting
BY DEF Delete, NoNewTesting, IsTesting, TypeOK, QueueTypeOK

LEMMA ScanMarksNothing ==
  ASSUME TypeOK, ScanCarriesNodes, NEW x \in Scanners, ScanStep(x)
  PROVE  NoNewTesting
<1> USE DEF dataVars, runVars, envVars, queueVars, coolVars, loopVars, boundVars
<1>1. CASE ScanPut(x)
  <2>1. scan[x] \in Scan
    BY <1>1 DEF ScanPut, ScanAt, TypeOK, ScanTypeOK
  <2>2. scan[x].node \in Nodes /\ scan[x].seen[scan[x].node] \in Config
    BY <1>1, <2>1, SnapshotDomain DEF ScanPut, ScanAt, ScanCarriesNodes, Scan
  <2>3. /\ Ensured(scan[x].got, scan[x].seen[scan[x].node]) \in Row
        /\ Ensured(scan[x].got, scan[x].seen[scan[x].node]).status = "pending"
    BY <2>1, <2>2, RowsWritten, NewRow DEF Scan
  <2> QED
    BY <1>1, <2>2, <2>3, EnqueuedRow DEF ScanPut
<1>2. CASE \E n \in Nodes : ScanPrune(x, n)
  BY <1>2, DeletedRow DEF ScanPrune
<1>3. CASE ~ScanPut(x) /\ ~\E n \in Nodes : ScanPrune(x, n)
  BY <1>3, UntouchedRows DEF ScanStep, ScanBegin, ScanStatic, ScanProvider, ScanSkip,
     ScanGet, ScanRows, ScanNext, ScanOrphans, ScanEnd
<1> QED
  BY <1>1, <1>2, <1>3

LEMMA ScanOwned ==
  ASSUME TypeOK, ScanCarriesNodes, Owned, NEW x \in Scanners, ScanStep(x)
  PROVE  Owned'
<1> USE DEF dataVars, runVars, envVars, queueVars, coolVars, loopVars, boundVars
<1>1. UNCHANGED <<work, batch>>
  BY DEF ScanStep, ScanBegin, ScanStatic, ScanProvider, ScanSkip, ScanGet, ScanPut,
         ScanRows, ScanPrune, ScanNext, ScanOrphans, ScanEnd
<1>2. /\ pc' = pc \/ pc = "scan"
      /\ LoopIsScanning'
  <2>1. CASE ScanEnd(x)
    BY <2>1, BoundsAssumption DEF ScanEnd, ScanAt, Owned, LoopIsScanning, TypeOK,
       ScanTypeOK
  <2>2. CASE ScanBegin(x)
    BY <2>2, BoundsAssumption DEF ScanBegin, Owned, LoopIsScanning, TypeOK, ScanTypeOK
  <2>3. CASE ~ScanEnd(x) /\ ~ScanBegin(x)
    <3>1. scan[x] # Idle /\ pc' = pc /\ \A y \in Scanners \ {x} : scan'[y] = scan[y]
      BY <2>3 DEF ScanStep, ScanAt, ScanStatic, ScanProvider, ScanSkip, ScanGet, ScanPut,
         ScanRows, ScanPrune, ScanNext, ScanOrphans, TypeOK, ScanTypeOK
    <3> QED
      BY <3>1, BoundsAssumption DEF Owned, LoopIsScanning
  <2> QED
    BY <2>1, <2>2, <2>3
<1> QED
  BY <1>1, <1>2, QuietStep, ScanMarksNothing

LEMMA CallMarksNothing ==
  ASSUME TypeOK, CallCarriesRow, NEW k \in Callers, CallStep(k) \/ Request(k)
  PROVE  NoNewTesting
<1> USE DEF dataVars, runVars, envVars, queueVars, coolVars, loopVars, boundVars
<1>1. CASE CallName(k) \/ CallGet(k) \/ CallUnpause(k) \/ CallUndraft(k)
  BY <1>1, UntouchedRows DEF CallName, CallGet, CallUnpause, CallUndraft
<1>2. CASE CallPut(k)
  <2>1. call[k] \in NodeCall /\ call[k].op \in {"enqueue", "refresh"}
    BY <1>2 DEF CallPut, CallAt, CallCarriesRow, TypeOK, CallTypeOK, NodeCall,
                ProviderCall
  <2>2. CASE call[k].op = "enqueue"
    <3>1. /\ Ensured(call[k].got, call[k].fp) \in Row
          /\ Ensured(call[k].got, call[k].fp).status = "pending"
      BY <2>1, RowsWritten, NewRow DEF NodeCall
    <3> QED
      BY <1>2, <2>1, <2>2, <3>1, EnqueuedRow DEF CallPut, NodeCall
  <2>3. CASE call[k].op = "refresh"
    <3>1. Requested(call[k].got) \in Row /\ Requested(call[k].got).status = "pending"
      BY <1>2, <2>1, <2>3, RowsWritten DEF CallPut, CallAt, CallCarriesRow, NodeCall
    <3> QED
      BY <1>2, <2>1, <2>3, <3>1, EnqueuedRow DEF CallPut, NodeCall
  <2> QED
    BY <2>1, <2>2, <2>3
<1>3. CASE CallDrop(k)
  <2>1. call[k].node \in Nodes
    BY <1>3 DEF CallDrop, CallAt, TypeOK, CallTypeOK, NodeCall, ProviderCall
  <2> QED
    BY <1>3, <2>1, DeletedRow DEF CallDrop
<1>4. CASE \E p \in Providers : SubscriptionDelete(k, p)
  BY <1>4 DEF SubscriptionDelete, NoNewTesting, IsTesting
<1>5. CASE \/ \E n \in StaticNodes : ProxyDelete(k, n) \/ \E c \in Configs : ProxySave(k, n, c)
           \/ \E n \in Nodes : RefreshNodes(k, n)
  BY <1>5, UntouchedRows DEF ProxyDelete, ProxySave, RefreshNodes
<1> QED
  BY <1>1, <1>2, <1>3, <1>4, <1>5 DEF CallStep, Request

LEMMA CallOwned ==
  ASSUME TypeOK, CallCarriesRow, Owned, NEW k \in Callers, CallStep(k) \/ Request(k)
  PROVE  Owned'
<1> USE DEF dataVars, runVars, envVars, queueVars, coolVars, loopVars, boundVars
<1>1. UNCHANGED <<work, batch, scan, pc>>
  BY DEF CallStep, CallName, CallGet, CallPut, CallDrop, CallUnpause, CallUndraft, Request,
         ProxyDelete, ProxySave, RefreshNodes, SubscriptionDelete
<1> QED
  BY <1>1, QuietStep, CallMarksNothing, SameLoopScan

LEMMA DispatchOwned ==
  ASSUME TypeOK, Owned, ResetTesting \/ ScanTick \/ DispatchStep
  PROVE  Owned'
<1> USE DEF dataVars, runVars, envVars, queueVars, coolVars, loopVars, boundVars
<1>1. CASE ResetTesting
  <2>1. \A n \in Nodes : ~IsTesting(n)'
    BY <1>1 DEF ResetTesting, Stuck, IsTesting, TypeOK, QueueTypeOK, Row
  <2> QED
    BY <1>1, <2>1 DEF ResetTesting, Owned, JoinedOutsideBatch, LoopIsScanning, ClaimedLeftBatch,
       OneProbePerNode, TestingIsOwned, BusyNodes, Busy
<1>2. CASE ScanTick \/ DispatchStart
  BY <1>2, QuietStep, UntouchedRows DEF ScanTick, DispatchStart, Owned, LoopIsScanning
<1>3. CASE DispatchList
  BY <1>3 DEF DispatchList, Owned, JoinedOutsideBatch, LoopIsScanning, ClaimedLeftBatch, IsTesting,
     OneProbePerNode, TestingIsOwned, BusyNodes, Busy
<1>4. ASSUME NEW n \in Nodes, NEW s \in Slots, DispatchClaim(n, s)
      PROVE  Owned'
  <2>1. /\ batch[n] # NoRow /\ work[s] = Idle
        /\ pc = "claim" /\ pc' = "claim" /\ scan' = scan
    BY <1>4 DEF DispatchClaim, NextListed, Listed
  <2>2. [node |-> n, row |-> batch[n], cfg |-> NoConfig] \in Work
    BY <2>1 DEF Work, Config, TypeOK, LoopTypeOK
  <2>3. /\ work'[s] # Idle /\ work'[s].node = n
        /\ \A t \in Slots \ {s} : work'[t] = work[t]
    BY <1>4, <2>2, SentinelAssumption DEF DispatchClaim, TypeOK, WorkTypeOK, Work
  <2>4. /\ batch'[n] = NoRow
        /\ \A m \in Nodes \ {n} : batch'[m] = batch[m]
    BY <1>4 DEF DispatchClaim, TypeOK, LoopTypeOK
  <2>5. \A t \in Slots \ {s} : work[t] # Idle =>
          work[t].node \in Nodes \ {n} /\ batch[work[t].node] = NoRow
    BY <2>1 DEF Owned, ClaimedLeftBatch, TypeOK, WorkTypeOK, Work
  <2>6. \A m \in Nodes \ {n} : IsTesting(m)' => IsTesting(m)
    BY <1>4 DEF DispatchClaim, IsTesting, TypeOK, QueueTypeOK
  <2>7. JoinedOutsideBatch' /\ LoopIsScanning' /\ ClaimedLeftBatch' /\ OneProbePerNode'
    BY <2>1, <2>3, <2>4, <2>5 DEF Owned, JoinedOutsideBatch, LoopIsScanning, ClaimedLeftBatch,
       OneProbePerNode
  <2>8. BusyNodes' = BusyNodes \cup {n}
    BY <2>1, <2>3 DEF BusyNodes, Busy
  <2>9. TestingIsOwned'
    BY <2>1, <2>6, <2>8 DEF Owned, TestingIsOwned
  <2> QED
    BY <2>7, <2>9 DEF Owned
<1>5. ASSUME NEW n \in Nodes, DispatchMiss(n)
      PROVE  Owned'
  BY <1>5 DEF DispatchMiss, Owned, JoinedOutsideBatch, LoopIsScanning, ClaimedLeftBatch, IsTesting,
     OneProbePerNode, TestingIsOwned, BusyNodes, Busy, TypeOK, LoopTypeOK
<1>6. CASE DispatchCapped
  BY <1>6 DEF DispatchCapped, Owned, JoinedOutsideBatch, LoopIsScanning, ClaimedLeftBatch, IsTesting,
     OneProbePerNode, TestingIsOwned, BusyNodes, Busy, TypeOK, WorkTypeOK, Work
<1>7. CASE DispatchWait
  BY <1>7 DEF DispatchWait, Joined, Owned, JoinedOutsideBatch, LoopIsScanning, ClaimedLeftBatch,
     IsTesting, OneProbePerNode, TestingIsOwned, BusyNodes, Busy
<1> QED
  BY <1>1, <1>2, <1>3, <1>4, <1>5, <1>6, <1>7 DEF DispatchStep

\* The outcome of a probe takes back the one mark its token stood for.
LEMMA ProbeReleases ==
  ASSUME TypeOK, Owned, NEW s \in Slots, work[s] # Idle, NEW r \in Row,
         r.status # "testing", ProbeFinish(s, r)
  PROVE  Owned'
<1> DEFINE n == work[s].node
<1>1. n \in Nodes
  BY DEF TypeOK, WorkTypeOK, Work
<1>2. work'[s] = Idle /\ \A t \in Slots \ {s} : work'[t] = work[t]
  BY DEF ProbeFinish, TypeOK, WorkTypeOK
<1>3. UNCHANGED <<pc, batch, scan>>
  BY DEF ProbeFinish, runVars, loopVars
<1>4. JoinedOutsideBatch' /\ LoopIsScanning' /\ ClaimedLeftBatch' /\ OneProbePerNode'
  BY <1>2, <1>3 DEF Owned, JoinedOutsideBatch, LoopIsScanning, ClaimedLeftBatch, OneProbePerNode
<1>5. rows'[n] = r /\ \A m \in Nodes \ {n} : rows'[m] = rows[m]
  BY <1>1 DEF ProbeFinish, TypeOK, QueueTypeOK
<1>6. ASSUME NEW m \in BusyNodes, m # n
      PROVE  m \in BusyNodes'
  <2>1. PICK t \in Slots : work[t] # Idle /\ m = work[t].node
    BY DEF BusyNodes, Busy
  <2>2. work'[t] # Idle /\ m = work'[t].node
    BY <1>2, <1>6, <2>1
  <2> QED
    BY <2>2 DEF BusyNodes, Busy
<1>7. ASSUME pc' # "boot", NEW m \in Nodes, IsTesting(m)'
      PROVE  m \in BusyNodes'
  <2>1. m # n /\ IsTesting(m)
    BY <1>5, <1>7 DEF IsTesting
  <2> QED
    BY <1>3, <1>6, <1>7, <2>1 DEF Owned, TestingIsOwned
<1>8. TestingIsOwned'
  BY <1>7 DEF TestingIsOwned
<1> QED
  BY <1>4, <1>8 DEF Owned

LEMMA ProbeOwned ==
  ASSUME TypeOK, Owned, NEW s \in Slots, ProbeMaterialize(s) \/ ProbeEnd(s)
  PROVE  Owned'
<1> USE DEF dataVars, runVars, envVars, queueVars, coolVars, loopVars, boundVars
<1>1. work[s] \in Work /\ work[s] # Idle
  BY DEF ProbeMaterialize, ProbeEnd, ProbeOk, ProbeFail, ProbeRateLimited, TypeOK,
         WorkTypeOK
<1>2. CASE ProbeMaterialize(s)
  <2>1. UNCHANGED <<rows, pc, batch, scan>>
    BY <1>2 DEF ProbeMaterialize
  <2>2. \A t \in Slots : (work'[t] = Idle <=> work[t] = Idle)
                        /\ (work[t] # Idle => work'[t].node = work[t].node)
    <3>1. PICK c \in Config : work' = [work EXCEPT ![s].cfg = c]
      BY <1>2, Materialized
    <3>2. [work[s] EXCEPT !.cfg = c] \in Work
      BY <1>1 DEF Work
    <3> QED
      BY <1>1, <3>1, <3>2, SentinelAssumption DEF TypeOK, WorkTypeOK, Work
  <2>3. BusyNodes' = BusyNodes
    <3>1. Busy' = Busy
      BY <2>2 DEF Busy
    <3>2. \A t \in Busy : work'[t].node = work[t].node
      BY <2>2 DEF Busy
    <3> QED
      BY <3>1, <3>2 DEF BusyNodes
  <2> QED
    BY <2>1, <2>2, <2>3 DEF Owned, JoinedOutsideBatch, LoopIsScanning, ClaimedLeftBatch,
       OneProbePerNode, TestingIsOwned, IsTesting
<1>3. CASE ProbeEnd(s)
  <2>1. CASE ProbeOk(s)
    BY <1>1, <2>1, RowsWritten, ProbeReleases DEF ProbeOk, Work
  <2>2. CASE ProbeFail(s)
    BY <1>1, <2>2, RowsWritten, ProbeReleases DEF ProbeFail, Work
  <2>3. CASE \E d \in 1..MaxCool : ProbeRateLimited(s, d)
    BY <1>1, <2>3, RowsWritten, ProbeReleases DEF ProbeRateLimited, Work
  <2> QED
    BY <1>3, <2>1, <2>2, <2>3 DEF ProbeEnd
<1> QED
  BY <1>2, <1>3

LEMMA EnvironmentOwned ==
  ASSUME TypeOK, Owned, Environment
  PROVE  Owned'
<1> USE DEF dataVars, runVars, envVars, queueVars, coolVars, loopVars, boundVars
<1>1. CASE Crash
  BY <1>1, BoundsAssumption DEF Crash, Owned, JoinedOutsideBatch, LoopIsScanning,
     ClaimedLeftBatch, OneProbePerNode, TestingIsOwned
<1>2. CASE ~Crash
  BY <1>2, QuietStep, SameLoopScan, UntouchedRows DEF Environment, InventoryChange,
     SubscriptionPause, Elapse, CoolTick
<1> QED
  BY <1>1, <1>2

-----------------------------------------------------------------------------
(* The invariant. *)

LEMMA NextIInv == IInv /\ [Next]_vars => IInv'
<1> SUFFICES ASSUME IInv, [Next]_vars
             PROVE  IInv'
  OBVIOUS
<1> USE DEF dataVars, runVars, envVars, queueVars, coolVars, loopVars, boundVars
<1>1. TypeOK /\ Owned /\ ScanCarriesNodes /\ CallCarriesRow
  BY DEF IInv, Owned
<1>2. TypeOK'
  BY <1>1, TypeStep
<1>3. Owned'
  <2>1. CASE Next
    BY <1>1, <2>1, ScanOwned, CallOwned, DispatchOwned, ProbeOwned, EnvironmentOwned
       DEF Next
  <2>2. CASE UNCHANGED vars
    BY <1>1, <2>2, QuietStep, SameLoopScan, UntouchedRows DEF vars
  <2> QED
    BY <2>1, <2>2
<1>4. ScanCarriesNodes'
  <2>1. CASE \E x \in Scanners : ScanStep(x)
    BY <1>1, <2>1, ScanCarries
  <2>2. CASE Crash
    BY <2>2 DEF Crash, ScanCarriesNodes
  <2>3. CASE UNCHANGED scan
    BY <1>1, <2>3 DEF ScanCarriesNodes
  <2> QED
    BY <2>1, <2>2, <2>3 DEF vars, Next, DispatchStep, ResetTesting, ScanTick,
       DispatchStart, DispatchList, DispatchClaim, DispatchMiss, DispatchCapped,
       DispatchWait, ProbeMaterialize, ProbeEnd, ProbeOk, ProbeFail, ProbeRateLimited,
       ProbeFinish, CallStep, CallName, CallGet, CallPut, CallDrop, CallUnpause, CallUndraft,
       Request, ProxySave, ProxyDelete, RefreshNodes, SubscriptionDelete,
       Environment, InventoryChange, SubscriptionPause, Elapse, CoolTick
<1>5. CallCarriesRow'
  <2>1. CASE \E k \in Callers : CallStep(k) \/ Request(k)
    BY <1>1, <2>1, CallCarries
  <2>2. CASE Crash
    BY <2>2 DEF Crash, CallCarriesRow
  <2>3. CASE UNCHANGED call
    BY <1>1, <2>3 DEF CallCarriesRow
  <2> QED
    BY ZenonT(60), <2>1, <2>2, <2>3 DEF vars, Next, DispatchStep, ResetTesting, ScanTick,
       DispatchStart, DispatchList, DispatchClaim, DispatchMiss, DispatchCapped,
       DispatchWait, ProbeMaterialize, ProbeEnd, ProbeOk, ProbeFail, ProbeRateLimited,
       ProbeFinish, ScanStep, ScanBegin, ScanStatic, ScanProvider, ScanSkip, ScanGet,
       ScanPut, ScanRows, ScanPrune, ScanNext, ScanOrphans, ScanEnd,
       Environment, InventoryChange, SubscriptionPause, Elapse, CoolTick
<1> QED
  BY <1>2, <1>3, <1>4, <1>5 DEF IInv, Owned

\* The inductive invariant holds for every number of nodes, tokens, callers
\* and scans.
THEOREM Invariance == Spec => []IInv
<1> QED
  BY InitIInv, NextIInv, PTL DEF Spec

\* The table, the loop, the scans and the callers only ever hold what the
\* columns and the Go variables of scoring_service.go can hold.
THEOREM TypeCorrect == Spec => []TypeOK
<1>1. IInv => TypeOK
  BY DEF IInv
<1> QED
  BY <1>1, Invariance, PTL

\* However handlers, scans and probes interleave with dispatch, no node is
\* probed by two goroutines: dispatch joins its goroutines before it lists
\* again, and a claimed row has left the batch it was listed in.
THEOREM ProbesAreExclusive == Spec => []OneProbePerNode
<1>1. IInv => OneProbePerNode
  BY DEF IInv
<1> QED
  BY <1>1, Invariance, PTL

\* No interleaving of the get-then-upsert writers leaves a row in "testing"
\* without a goroutine that will take it out again.
THEOREM TestingHasAnOwner == Spec => []TestingIsOwned
<1>1. IInv => TestingIsOwned
  BY DEF IInv
<1> QED
  BY <1>1, Invariance, PTL

-----------------------------------------------------------------------------
(* The queue implements the lease protocol. *)

\* Steps that move no token: at most they take marks away.
LEMMA QuietLease ==
  ASSUME UNCHANGED work, NoNewTesting, (pc' = "boot") <=> (pc = "boot")
  PROVE  Lease!Next \/ UNCHANGED Lease!leaseVars
<1> DEFINE S == {n \in Nodes : ~IsTesting(n)'}
<1>1. {n \in Nodes : IsTesting(n)}' = {n \in Nodes : IsTesting(n)} \ S
  BY DEF NoNewTesting
<1>2. S \in SUBSET Nodes
  OBVIOUS
<1>3. Lease!Unmark(S)
  BY <1>1 DEF Lease!Unmark
<1> QED
  BY <1>2, <1>3 DEF Lease!Next

LEMMA ScanLease ==
  ASSUME IInv, NEW x \in Scanners, ScanStep(x)
  PROVE  Lease!Next \/ UNCHANGED Lease!leaseVars
<1> USE DEF dataVars, runVars, loopVars
<1>1. UNCHANGED work
  BY DEF ScanStep, ScanBegin, ScanStatic, ScanProvider, ScanSkip, ScanGet, ScanPut,
         ScanRows, ScanPrune, ScanNext, ScanOrphans, ScanEnd
<1>2. (pc' = "boot") <=> (pc = "boot")
  <2>1. CASE ScanEnd(x)
    BY <2>1, BoundsAssumption DEF ScanEnd, ScanAt, IInv, LoopIsScanning
  <2>2. CASE ~ScanEnd(x)
    BY <2>2 DEF ScanStep, ScanBegin, ScanStatic, ScanProvider, ScanSkip, ScanGet,
       ScanPut, ScanRows, ScanPrune, ScanNext, ScanOrphans
  <2> QED
    BY <2>1, <2>2
<1> QED
  BY <1>1, <1>2, QuietLease, ScanMarksNothing DEF IInv

LEMMA CallLease ==
  ASSUME IInv, NEW k \in Callers, CallStep(k) \/ Request(k)
  PROVE  Lease!Next \/ UNCHANGED Lease!leaseVars
<1>1. UNCHANGED <<work, pc>>
  BY DEF CallStep, CallName, CallGet, CallPut, CallDrop, CallUnpause, CallUndraft, Request,
         ProxyDelete, ProxySave, RefreshNodes, SubscriptionDelete, runVars
<1> QED
  BY <1>1, QuietLease, CallMarksNothing DEF IInv

\* A claim leases a token and marks the row; nothing else of dispatch does.
LEMMA DispatchLease ==
  ASSUME IInv, ResetTesting \/ ScanTick \/ DispatchStep
  PROVE  Lease!Next \/ UNCHANGED Lease!leaseVars
<1> USE DEF dataVars, runVars, envVars, queueVars, coolVars, loopVars, boundVars
<1>1. CASE ResetTesting
  <2>1. \A n \in Nodes : ~IsTesting(n)'
    BY <1>1 DEF ResetTesting, Stuck, IsTesting, IInv, TypeOK, QueueTypeOK, Row
  <2>2. Lease!Recover
    BY <1>1, <2>1 DEF ResetTesting, Lease!Recover
  <2> QED
    BY <2>2 DEF Lease!Next
<1>2. ASSUME NEW n \in Nodes, NEW s \in Slots, DispatchClaim(n, s)
      PROVE  Lease!Next
  <2>1. /\ batch[n] # NoRow /\ work[s] = Idle
        /\ pc = "claim" /\ pc' = "claim"
    BY <1>2 DEF DispatchClaim, NextListed, Listed
  <2>2. work' = [work EXCEPT ![s] = [node |-> n, row |-> batch[n], cfg |-> NoConfig]]
    BY <1>2 DEF DispatchClaim
  <2>3. [node |-> n, row |-> batch[n], cfg |-> NoConfig] # Idle
    BY <2>1, SentinelAssumption DEF IInv, TypeOK, LoopTypeOK, Config
  <2>4. [t \in Slots |-> IF work[t] = Idle THEN NoConfig ELSE work[t].node]'
          = [[t \in Slots |-> IF work[t] = Idle THEN NoConfig ELSE work[t].node]
               EXCEPT ![s] = n]
    BY <2>2, <2>3 DEF IInv, TypeOK, WorkTypeOK
  <2>5. n \notin Lease!Held
    BY <2>1 DEF Lease!Held, IInv, ClaimedLeftBatch, NodesAssumption
  <2>6. {m \in Nodes : IsTesting(m)}' = {m \in Nodes : IsTesting(m)} \cup {n}
    <3>1. rows' = [rows EXCEPT ![n].status = "testing"] /\ rows[n] \in Row
      BY <1>2 DEF DispatchClaim, IInv, TypeOK, QueueTypeOK
    <3>2. [rows[n] EXCEPT !.status = "testing"] \in Row
      BY <3>1 DEF Row
    <3> QED
      BY <3>1, <3>2, SentinelAssumption DEF IsTesting, IInv, TypeOK, QueueTypeOK, Row
  <2>7. Lease!Acquire(s, n)
    BY <2>1, <2>4, <2>5, <2>6 DEF Lease!Acquire
  <2> QED
    BY <2>7 DEF Lease!Next
<1>3. CASE ~ResetTesting /\ ~\E n \in Nodes, s \in Slots : DispatchClaim(n, s)
  <2>1. UNCHANGED <<work, rows>> /\ ((pc' = "boot") <=> (pc = "boot"))
    BY <1>3 DEF ScanTick, DispatchStep, DispatchStart, DispatchList, DispatchMiss,
       DispatchCapped, DispatchWait
  <2> QED
    BY <2>1, QuietLease, UntouchedRows DEF IInv
<1> QED
  BY <1>1, <1>2, <1>3

\* The outcome of a probe releases the lease.
LEMMA FinishLease ==
  ASSUME IInv, NEW s \in Slots, work[s] # Idle, NEW r \in Row, r.status # "testing",
         ProbeFinish(s, r)
  PROVE  Lease!Release(s)
<1> DEFINE n == work[s].node
<1>1. n \in Nodes
  BY DEF IInv, TypeOK, WorkTypeOK, Work
<1>2. work' = [work EXCEPT ![s] = Idle] /\ rows' = [rows EXCEPT ![n] = r] /\ pc' = pc
  BY DEF ProbeFinish, runVars
<1>3. [t \in Slots |-> IF work[t] = Idle THEN NoConfig ELSE work[t].node]'
        = [[t \in Slots |-> IF work[t] = Idle THEN NoConfig ELSE work[t].node]
             EXCEPT ![s] = NoConfig]
  BY <1>2 DEF IInv, TypeOK, WorkTypeOK
<1>4. {m \in Nodes : IsTesting(m)}' = {m \in Nodes : IsTesting(m)} \ {n}
  BY <1>1, <1>2 DEF IsTesting, IInv, TypeOK, QueueTypeOK
<1> QED
  BY <1>1, <1>2, <1>3, <1>4, NodesAssumption DEF Lease!Release, Nodes

LEMMA ProbeLeaseStep ==
  ASSUME IInv, NEW s \in Slots, ProbeMaterialize(s) \/ ProbeEnd(s)
  PROVE  Lease!Next \/ UNCHANGED Lease!leaseVars
<1>1. work[s] # Idle /\ work[s] \in Work
  BY DEF ProbeMaterialize, ProbeEnd, ProbeOk, ProbeFail, ProbeRateLimited, IInv,
         TypeOK, WorkTypeOK
<1>2. CASE ProbeMaterialize(s)
  <2>1. PICK c \in Config : work' = [work EXCEPT ![s].cfg = c]
    BY <1>2, Materialized DEF IInv
  <2>2. [work[s] EXCEPT !.cfg = c] \in Work
    BY <1>1 DEF Work
  <2>3. [t \in Slots |-> IF work[t] = Idle THEN NoConfig ELSE work[t].node]'
          = [t \in Slots |-> IF work[t] = Idle THEN NoConfig ELSE work[t].node]
    BY <1>1, <2>1, <2>2, SentinelAssumption DEF IInv, TypeOK, WorkTypeOK, Work
  <2>4. UNCHANGED <<rows, pc>>
    BY <1>2 DEF ProbeMaterialize, dataVars, queueVars, runVars
  <2> QED
    BY <2>3, <2>4 DEF Lease!leaseVars, IsTesting
<1>3. CASE ProbeEnd(s)
  <2>1. Lease!Release(s)
    BY <1>1, <1>3, RowsWritten, FinishLease DEF ProbeEnd, ProbeOk, ProbeFail,
       ProbeRateLimited, Work
  <2> QED
    BY <2>1 DEF Lease!Next
<1> QED
  BY <1>2, <1>3

LEMMA EnvironmentLease ==
  ASSUME IInv, Environment
  PROVE  Lease!Next \/ UNCHANGED Lease!leaseVars
<1> USE DEF dataVars, runVars, envVars, queueVars, coolVars, loopVars, boundVars
<1>1. CASE Crash
  BY <1>1 DEF Crash, Lease!Next, Lease!Restart, IsTesting
<1>2. CASE ~Crash
  <2>1. UNCHANGED <<work, rows, pc>>
    BY <1>2 DEF Environment, InventoryChange, SubscriptionPause, Elapse, CoolTick
  <2> QED
    BY <2>1, QuietLease, UntouchedRows DEF IInv
<1> QED
  BY <1>1, <1>2

LEMMA LeaseStep == IInv /\ [Next]_vars => [Lease!Next]_(Lease!leaseVars)
<1> SUFFICES ASSUME IInv, [Next]_vars
             PROVE  Lease!Next \/ UNCHANGED Lease!leaseVars
  OBVIOUS
<1>1. CASE Next
  BY <1>1, ScanLease, CallLease, DispatchLease, ProbeLeaseStep, EnvironmentLease
     DEF Next
<1>2. CASE UNCHANGED vars
  BY <1>2 DEF vars, Lease!leaseVars, IsTesting
<1> QED
  BY <1>1, <1>2

\* Every behaviour of the queue, with restarts, is one of the lease protocol.
THEOREM QueueImplementsLease == Spec => ImplementsLease
<1>1. Init => Lease!Init
  BY DEF Init, Lease!Init, IsTesting
<1> QED
  BY <1>1, Invariance, LeaseStep, PTL DEF Spec, ImplementsLease, Lease!Spec

=============================================================================
