--------------------------- MODULE RunningProofs ---------------------------
(***************************************************************************)
(* Proof about Publish: what mihomo runs is the latest success, for one    *)
(* request at a time and as long as nothing fails that the model does not  *)
(* explain.  Configurations that mihomo rejects, restarts of mihomo at any *)
(* point, edits, imports and rollbacks are all there.                      *)
(***************************************************************************)
EXTENDS PublishProofs

\* No disk fault and no lost reply, the control plane stays up, and nobody
\* discards, which rewrites the file without a reload.
Undisturbed == MaxFaults = 0 /\ MaxCrashes = 0 /\ "discard" \notin Operations

\* c is the latest success of the history h, if there is one.
InForce(c, h) ==
  \A i \in 1..Len(h) :
    h[i].status = "success" /\ (\A j \in i + 1..Len(h) : h[j].status # "success")
      => c = h[i].cfg

Serves == running = Down \/ InForce(running, history)
Steady == InForce(file, history) /\ file \in Accepted \cup {Absent} /\ Serves

\* While a publish is in doubt its backup is what may come back into force;
\* what runs is known again when the outcome is.
Awaits(k) ==
  /\ InForce(job[k].backup, history) /\ job[k].backup \in Accepted \cup {Absent}
  /\ job[k].stage = "rereload" => job[k].backup # Absent
  /\ job[k].stage = "save" =>
       IF job[k].status = "success"
       THEN job[k].cfg \in Accepted /\ running = job[k].cfg
       ELSE job[k].note # "restore" /\ Serves

RunInv ==
  /\ \A k \in Callers : job[k] # Idle => job[k].op # "discard"
  /\ \A k \in Callers : InDoubt(k) => Awaits(k)
  /\ (\A k \in Callers : ~InDoubt(k)) => Steady

\* A failure on record changes nothing.
LEMMA FailureKeepsForce ==
  ASSUME NEW h \in Seq(Record), NEW r \in Record, r.status = "failed", NEW c, InForce(c, h)
  PROVE  InForce(c, Append(h, r))
<1> DEFINE g == Append(h, r)
<1>1. /\ Len(h) \in Nat /\ Len(g) = Len(h) + 1 /\ g[Len(h) + 1] = r
      /\ \A i \in 1..Len(h) : g[i] = h[i]
  OBVIOUS
<1> HIDE DEF g
<1> SUFFICES ASSUME NEW i \in 1..Len(g), g[i].status = "success",
                    \A j \in i + 1..Len(g) : g[j].status # "success"
             PROVE  c = g[i].cfg
  BY DEF InForce, g
<1>2. i \in 1..Len(h)
  BY <1>1
<1>3. \A j \in i + 1..Len(h) : h[j].status # "success"
  <2> SUFFICES ASSUME NEW j \in i + 1..Len(h) PROVE h[j].status # "success"
    OBVIOUS
  <2>1. j \in 1..Len(h) /\ j \in i + 1..Len(g)
    BY <1>1, <1>2
  <2> QED
    BY <1>1, <2>1
<1> QED
  BY <1>1, <1>2, <1>3 DEF InForce

\* A success on record is the latest.
LEMMA SuccessTakesForce ==
  ASSUME NEW h \in Seq(Record), NEW r \in Record, r.status = "success"
  PROVE  InForce(r.cfg, Append(h, r))
<1> DEFINE g == Append(h, r)
<1>1. /\ Len(h) \in Nat /\ Len(g) = Len(h) + 1 /\ g[Len(h) + 1] = r
  OBVIOUS
<1> HIDE DEF g
<1> SUFFICES ASSUME NEW i \in 1..Len(g), g[i].status = "success",
                    \A j \in i + 1..Len(g) : g[j].status # "success"
             PROVE  r.cfg = g[i].cfg
  BY DEF InForce, g
<1>2. CASE i = Len(h) + 1
  BY <1>1, <1>2
<1>3. CASE i # Len(h) + 1
  <2>1. Len(h) + 1 \in i + 1..Len(g)
    BY <1>1, <1>3
  <2> QED
    BY <1>1, <2>1
<1> QED
  BY <1>2, <1>3

\* Without a file to go back to there was no success yet.
LEMMA NothingInForce ==
  ASSUME TypeOK, InForce(Absent, history)
  PROVE  \A c : InForce(c, history)
<1>1. \A i \in 1..Len(history) : history[i].cfg # Absent
  BY HistoryTyped, TextAssumption DEF Record
<1> QED
  BY <1>1 DEF InForce

\* Undisturbed, nothing fails without a cause and the control plane stays up.
LEMMA NothingFails ==
  ASSUME Undisturbed, TypeOK
  PROVE  ~Fault /\ ~Crash
BY BoundAssumption DEF Undisturbed, TypeOK, Fault, Crash

\* What a request in doubt carries can be told from no file at all.
LEMMA CarriesText ==
  ASSUME TypeOK, CarriesChecked, NEW k \in Callers, InDoubt(k)
  PROVE  job[k].cfg \in Contents /\ job[k].cfg # Absent
<1>1. job[k] # Idle /\ job[k].stage \notin Unpublished
      /\ job[k].op \in {"publish", "rollback", "discard", "import"}
  BY JobTyped DEF InDoubt, Unpublished, Job
<1>2. Carries(k) /\ Belongs(k)
  BY <1>1 DEF CarriesChecked
<1>3. job[k].op \in {"publish", "rollback"}
  BY <1>1, <1>2 DEF Belongs, InDoubt
<1>4. job[k].cfg \in Contents
  BY <1>1, <1>2, <1>3 DEF Carries
<1> QED
  BY <1>4, TextAssumption

-----------------------------------------------------------------------------
(* The steps of a request. *)

\* What a step of the only request has to establish.
LEMMA OnlyRequest ==
  ASSUME OneCaller, NEW k \in Callers,
         (job[k] # Idle => job[k].op # "discard")',
         (InDoubt(k) => Awaits(k))', (~InDoubt(k) => Steady)'
  PROVE  RunInv'
BY DEF OneCaller, RunInv

\* Rendering, checking, importing: the file and what runs stay.
LEMMA PreparingRuns ==
  ASSUME OneCaller, TypeOK, CarriesChecked, RunInv, NEW k \in Callers,
         \/ RenderRaw(k) \/ RenderTable(k) \/ RenderDone(k) \/ Check(k) \/ RollbackLast(k)
         \/ TakeVersion(k) \/ Backup(k) \/ ClearRaw(k)
         \/ Load(k) \/ ClearTable(k) \/ FillTable(k)
  PROVE  RunInv'
<1> USE DEF At, Goto, Done, draftVars, boundVars
<1>1. job[k] # Idle /\ job[k] \in Job /\ job \in [Callers -> Job \cup {Idle}]
  BY JobTyped DEF TypeOK, RenderRaw, RenderTable, RenderDone, Check, RollbackLast,
       TakeVersion, Backup, ClearRaw, Load, ClearTable, FillTable
<1>2. job[k].op # "discard"
  BY <1>1 DEF RunInv
<1>3. /\ ~InDoubt(k) /\ ~InDoubt(k)' /\ UNCHANGED <<file, running, history>>
      /\ (job[k] # Idle => job[k].op # "discard")'
  <2>1. CASE RenderRaw(k) \/ RenderDone(k)
    BY <1>1, <1>2, <2>1 DEF RenderRaw, RenderDone, Render, InDoubt, Job
  <2>2. CASE RenderTable(k)
    BY <1>1, <1>2, <2>2 DEF RenderTable, InDoubt, Job
  <2>3. CASE Check(k) \/ TakeVersion(k)
    BY <1>1, <1>2, <2>3 DEF Check, TakeVersion, InDoubt, Job
  <2>4. CASE Backup(k) \/ ClearRaw(k)
    BY <1>1, <1>2, <2>4 DEF Backup, ClearRaw, InDoubt, Job
  <2>5. CASE RollbackLast(k)
    <3>1. CASE job' = [job EXCEPT ![k] = Idle]
      BY <1>1, <1>2, <2>5, <3>1 DEF RollbackLast, InDoubt
    <3>2. CASE \E i \in 1..Len(history) :
                 job' = [job EXCEPT ![k].cfg = history[i].cfg, ![k].origin = "history",
                                    ![k].stage = "version"]
      <4>1. PICK i \in 1..Len(history) :
                   job' = [job EXCEPT ![k].cfg = history[i].cfg, ![k].origin = "history",
                                      ![k].stage = "version"]
        BY <3>2
      <4>2. job'[k].op = job[k].op /\ job'[k].stage = "version"
        BY <1>1, <4>1 DEF Job
      <4> QED
        BY <1>2, <2>5, <4>2 DEF RollbackLast, InDoubt
    <3> QED
      BY <2>5, <3>1, <3>2 DEF RollbackLast
  <2>6. CASE Load(k)
    <3>1. PICK c : IF c = Absent \/ ParseConfig(c) = NoDoc THEN Done(k)
                   ELSE job' = [job EXCEPT ![k].doc = ParseConfig(c), ![k].at = 2,
                                           ![k].stage = "empty"]
      BY <2>6 DEF Load
    <3>2. job'[k] = Idle \/ (job'[k].op = job[k].op /\ job'[k].stage = "empty")
      BY <1>1, <3>1 DEF Job
    <3> QED
      BY <1>2, <2>6, <3>2 DEF Load, InDoubt
  <2>7. CASE ClearTable(k)
    BY <1>1, <1>2, <2>7 DEF ClearTable, InDoubt, Job
  <2>8. CASE FillTable(k)
    BY <1>1, <1>2, <2>8 DEF FillTable, InDoubt, Job
  <2> QED
    BY <2>1, <2>2, <2>3, <2>4, <2>5, <2>6, <2>7, <2>8
<1>4. Steady
  BY <1>3 DEF OneCaller, RunInv
<1>5. Steady'
  BY <1>3, <1>4 DEF Steady, Serves
<1> QED
  BY <1>3, <1>5, OnlyRequest

\* Replacing the file and reloading it.
LEMMA ReplacingRuns ==
  ASSUME OneCaller, Undisturbed, TypeOK, CarriesChecked, FileFollowsStage, RunInv,
         NEW k \in Callers, WriteNew(k) \/ Reload(k)
  PROVE  RunInv'
<1> USE DEF At, Goto, Done, draftVars, boundVars
<1>1. job[k] # Idle /\ job[k] \in Job /\ job \in [Callers -> Job \cup {Idle}]
  BY JobTyped DEF TypeOK, WriteNew, Reload
<1>2. Follows(k) /\ job[k].op # "discard" /\ ~Fault
  BY <1>1, NothingFails DEF FileFollowsStage, RunInv
<1>3. CASE WriteNew(k)
  <2>1. Steady /\ file = job[k].backup
    BY <1>2, <1>3 DEF WriteNew, Follows, OneCaller, RunInv, InDoubt
  <2>2. /\ job' = [job EXCEPT ![k].stage = "reload"] /\ UNCHANGED <<running, history>>
    BY <1>2, <1>3 DEF WriteNew
  <2>3. /\ job'[k] # Idle /\ job'[k].op = job[k].op /\ job'[k].stage = "reload"
        /\ job'[k].backup = job[k].backup
    BY <1>1, <2>2, IdleAssumption DEF Job, Stages
  <2>4. Awaits(k)'
    BY <2>1, <2>2, <2>3 DEF Awaits, Steady
  <2> QED
    BY <1>2, <2>3, <2>4, OnlyRequest DEF InDoubt
<1>4. CASE Reload(k)
  <2>1. Awaits(k) /\ file = job[k].cfg /\ job[k].stage = "reload"
    BY <1>1, <1>2, <1>4 DEF Reload, Follows, RunInv, InDoubt
  <2>2. CASE ReloadConfig /\ job' = [job EXCEPT ![k].status = "success", ![k].stage = "save"]
    <3>1. /\ job'[k] # Idle /\ job'[k].op = job[k].op /\ job'[k].stage = "save"
          /\ job'[k].backup = job[k].backup /\ job'[k].cfg = job[k].cfg
          /\ job'[k].status = "success"
      <4>1. job'[k] = [job[k] EXCEPT !.status = "success", !.stage = "save"]
        BY <1>1, <2>2
      <4>2. "save" \in Stages
        BY DEF Stages
      <4>3. job'[k] # Idle
        BY <1>1, <4>1, <4>2, StillThere
      <4> QED
        BY <1>1, <4>1, <4>3 DEF Job
    <3>2. running' = file /\ file \in Accepted /\ UNCHANGED history
      BY <1>4, <2>2 DEF ReloadConfig, CanReload, Reload
    <3>3. Awaits(k)'
      BY <2>1, <3>1, <3>2 DEF Awaits
    <3> QED
      BY <1>2, <3>1, <3>3, OnlyRequest DEF InDoubt
  <2>3. CASE ReloadFails /\ job' = [job EXCEPT ![k].stage = "restore"]
    <3>1. /\ job'[k] # Idle /\ job'[k].op = job[k].op /\ job'[k].stage = "restore"
          /\ job'[k].backup = job[k].backup
      BY <1>1, <2>3, IdleAssumption DEF Job, Stages
    <3>2. Awaits(k)'
      BY <1>4, <2>1, <3>1 DEF Awaits, Reload
    <3> QED
      BY <1>2, <3>1, <3>2, OnlyRequest DEF InDoubt
  <2> QED
    BY <1>4, <2>2, <2>3 DEF Reload
<1> QED
  BY <1>3, <1>4

\* Going back: without a backup nothing was in force, with one mihomo takes it
\* back unless it does not run.
LEMMA RestoringRuns ==
  ASSUME OneCaller, Undisturbed, TypeOK, CarriesChecked, FileFollowsStage, RunInv,
         NEW k \in Callers, Restore(k) \/ Rereload(k)
  PROVE  RunInv'
<1> USE DEF At, Goto, Done, draftVars, boundVars
<1>1. job[k] # Idle /\ job[k] \in Job /\ job \in [Callers -> Job \cup {Idle}]
  BY JobTyped DEF TypeOK, Restore, Rereload
<1>2. Follows(k) /\ job[k].op # "discard" /\ ~Fault /\ InDoubt(k)
  BY <1>1, NothingFails DEF FileFollowsStage, RunInv, Restore, Rereload, InDoubt
<1>3. Awaits(k) /\ job[k].status = "failed" /\ job[k].note = "none"
  BY <1>2 DEF RunInv, Follows, Restore, Rereload
<1>4. CASE Restore(k)
  <2>1. file # Absent
    BY <1>2, <1>4, CarriesText DEF Restore, Follows
  <2>2. /\ UNCHANGED <<running, history>>
        /\ job' = [job EXCEPT ![k].stage = IF job[k].backup = Absent THEN "save" ELSE "rereload"]
    BY <1>2, <1>4, <2>1 DEF Restore
  <2>3. /\ job'[k] # Idle /\ job'[k].op = job[k].op /\ job'[k].backup = job[k].backup
        /\ job'[k].status = "failed" /\ job'[k].note = "none"
        /\ job'[k].stage = IF job[k].backup = Absent THEN "save" ELSE "rereload"
    BY <1>1, <1>3, <2>2, IdleAssumption DEF Job, Stages
  <2>4. job[k].backup = Absent => Serves
    BY <1>3, NothingInForce DEF Awaits, Serves
  <2>5. Awaits(k)'
    BY <1>3, <2>2, <2>3, <2>4 DEF Awaits, Serves
  <2> QED
    BY <1>2, <2>3, <2>5, OnlyRequest DEF InDoubt
<1>5. CASE Rereload(k)
  <2>1. file = job[k].backup /\ file \in Accepted /\ InForce(file, history)
    BY <1>2, <1>3, <1>5 DEF Rereload, Follows, Awaits
  <2>2. PICK n \in {"none", "reload"} :
          job' = [job EXCEPT ![k].note = n, ![k].stage = "save"]
    <3>1. CASE job' = [job EXCEPT ![k].stage = "save"]
      BY <1>1, <1>3, <3>1 DEF Job
    <3> QED
      BY <1>5, <3>1 DEF Rereload
  <2>3. /\ job'[k] # Idle /\ job'[k].op = job[k].op /\ job'[k].backup = job[k].backup
        /\ job'[k].status = "failed" /\ job'[k].note # "restore" /\ job'[k].stage = "save"
    <3>1. job'[k] = [job[k] EXCEPT !.note = n, !.stage = "save"]
      BY <1>1, <2>2
    <3>2. "save" \in Stages /\ n \in Notes
      BY DEF Stages, Notes
    <3>3. [job[k] EXCEPT !.note = n, !.stage = "save"] # Idle
      BY <1>1, <3>2, StillThere
    <3> QED
      BY <1>1, <1>3, <3>1, <3>3 DEF Job
  <2>4. Serves' /\ UNCHANGED history
    BY <1>2, <1>5, <2>1 DEF Rereload, ReloadConfig, ReloadFails, CanReload, Serves
  <2>5. Awaits(k)'
    BY <1>3, <2>3, <2>4 DEF Awaits
  <2> QED
    BY <1>2, <2>3, <2>5, OnlyRequest DEF InDoubt
<1> QED
  BY <1>4, <1>5

\* The record: a success is in force, after a failure its backup is.
LEMMA RecordingRuns ==
  ASSUME OneCaller, TypeOK, CarriesChecked, FileFollowsStage, RunInv, NEW k \in Callers, Save(k)
  PROVE  RunInv'
<1> DEFINE r == [version |-> job[k].version, cfg |-> job[k].cfg, status |-> job[k].status,
                 note |-> job[k].note, origin |-> job[k].origin]
<1>1. /\ job[k] # Idle /\ job[k] \in Job /\ job \in [Callers -> Job \cup {Idle}]
      /\ InDoubt(k) /\ job[k].stage = "save"
  BY JobTyped DEF TypeOK, Save, At, InDoubt
<1>2. Follows(k) /\ Awaits(k) /\ job[k].op # "discard" /\ job[k].cfg \in Contents
  BY <1>1, CarriesText DEF FileFollowsStage, RunInv
<1>3. r \in Record
  BY <1>1, <1>2 DEF Record, Job
<1>4. history \in Seq(Record) /\ history' = Append(history, r) /\ UNCHANGED <<file, running>>
  BY DEF TypeOK, Save
<1>5. ~InDoubt(k)' /\ (job[k] # Idle => job[k].op # "discard")'
  BY <1>1, <1>2 DEF Save, Goto, Done, InDoubt, Job
<1>6. Steady'
  <2>1. CASE job[k].status = "success"
    <3>1. file = job[k].cfg /\ running = job[k].cfg /\ job[k].cfg \in Accepted
      BY <1>1, <1>2, <2>1 DEF Follows, Awaits
    <3>2. InForce(job[k].cfg, history')
      BY <1>3, <1>4, <2>1, SuccessTakesForce
    <3> QED
      BY <1>4, <3>1, <3>2 DEF Steady, Serves
  <2>2. CASE job[k].status = "failed"
    <3>1. file = job[k].backup /\ Serves
      BY <1>1, <1>2, <2>2 DEF Follows, Awaits
    <3>2. InForce(file, history) /\ file \in Accepted \cup {Absent}
      BY <1>2, <3>1 DEF Awaits
    <3>3. InForce(file, history')
      BY <1>3, <1>4, <2>2, <3>2, FailureKeepsForce
    <3>4. running = Down \/ InForce(running, history')
      BY <1>3, <1>4, <2>2, <3>1, FailureKeepsForce DEF Serves
    <3> QED
      BY <1>4, <3>2, <3>3, <3>4 DEF Steady, Serves
  <2> QED
    BY <1>1, <2>1, <2>2 DEF Job
<1> QED
  BY <1>5, <1>6, OnlyRequest

\* Every step of a request.
LEMMA StepRuns ==
  ASSUME OneCaller, Undisturbed, TypeOK, CarriesChecked, FileFollowsStage, RunInv,
         NEW k \in Callers, Step(k)
  PROVE  RunInv'
<1>1. ~Rewrite(k)
  <2> SUFFICES ASSUME Rewrite(k) PROVE FALSE
    OBVIOUS
  <2>1. job[k] # Idle /\ job[k].stage = "rewrite" /\ job[k] \in Job
    BY JobTyped DEF Rewrite, At
  <2>2. Belongs(k) /\ job[k].op # "discard"
    BY <2>1 DEF CarriesChecked, RunInv
  <2> QED
    BY <2>1, <2>2 DEF Belongs, Job
<1>2. ~SaveFails(k)
  BY NothingFails DEF SaveFails
<1> QED
  BY <1>1, <1>2, PreparingRuns, ReplacingRuns, RestoringRuns, RecordingRuns DEF Step

-----------------------------------------------------------------------------
(* The other steps. *)

\* mihomo restarts on the file, at any point of a publish.
LEMMA RestartRuns ==
  ASSUME FileFollowsStage, RunInv, MihomoRestart
  PROVE  RunInv'
<1>1. UNCHANGED <<file, history, job>>
  BY DEF MihomoRestart
<1>2. running' = IF file \in Accepted \cup {Absent} THEN file ELSE Down
  BY DEF MihomoRestart
<1>3. InForce(file, history) => Serves'
  BY <1>1, <1>2 DEF Serves
<1>4. ASSUME NEW k \in Callers, InDoubt(k)
      PROVE  Awaits(k)'
  <2>1. Awaits(k) /\ Follows(k)
    BY <1>4 DEF RunInv, FileFollowsStage, InDoubt
  <2>2. CASE job[k].stage # "save"
    BY <1>1, <2>1, <2>2 DEF Awaits
  <2>3. CASE job[k].stage = "save" /\ job[k].status = "success"
    BY <1>1, <1>2, <2>1, <2>3 DEF Awaits, Follows
  <2>4. CASE job[k].stage = "save" /\ job[k].status # "success"
    <3>1. file = job[k].backup
      BY <2>1, <2>4 DEF Awaits, Follows
    <3> QED
      BY <1>1, <1>3, <2>1, <2>4, <3>1 DEF Awaits
  <2> QED
    BY <2>2, <2>3, <2>4
<1>5. Steady => Steady'
  BY <1>1, <1>3 DEF Steady
<1> QED
  BY <1>1, <1>4, <1>5 DEF RunInv, InDoubt

\* Edits and new requests touch neither the file nor what runs.
LEMMA OutsideRuns ==
  ASSUME Undisturbed, TypeOK, RunInv,
         \/ UNCHANGED <<file, running, history, job>>
         \/ \E k \in Callers, op \in Operations : Request(k, op)
  PROVE  RunInv'
<1>1. CASE UNCHANGED <<file, running, history, job>>
  BY <1>1 DEF RunInv, InDoubt, Awaits, Steady, Serves
<1>2. CASE \E k \in Callers, op \in Operations : Request(k, op)
  <2>1. PICK k \in Callers, op \in Operations : Request(k, op)
    BY <1>2
  <2>2. /\ UNCHANGED <<file, running, history>> /\ job[k] = Idle
        /\ job' = [job EXCEPT ![k] = Start(op, FirstStage[op])]
    BY <2>1 DEF Request
  <2>3. /\ job'[k].op # "discard" /\ job'[k].stage \in {"draft", "last", "load"}
        /\ \A l \in Callers : l # k => job'[l] = job[l]
    BY <2>2, BoundAssumption DEF Undisturbed, TypeOK, Start, FirstStage
  <2>4. /\ ~InDoubt(k) /\ ~InDoubt(k)'
        /\ \A l \in Callers : l # k => (InDoubt(l)' <=> InDoubt(l)) /\ (Awaits(l)' <=> Awaits(l))
    BY <2>2, <2>3 DEF InDoubt, Awaits, Serves
  <2>5. Steady <=> Steady'
    BY <2>2 DEF Steady, Serves
  <2> QED
    BY <2>2, <2>3, <2>4, <2>5 DEF RunInv
<1> QED
  BY <1>1, <1>2

\* Every step.
LEMMA NextRuns ==
  ASSUME OneCaller, Undisturbed, IInv, SerialInv, RunInv, [Next]_vars
  PROVE  RunInv'
<1>1. TypeOK /\ CarriesChecked /\ FileFollowsStage /\ ~Crash
  BY NothingFails DEF IInv, SerialInv
<1>2. CASE \E k \in Callers : Step(k)
  BY <1>1, <1>2, StepRuns
<1>3. CASE MihomoRestart
  BY <1>1, <1>3, RestartRuns
<1>4. CASE \/ UNCHANGED <<file, running, history, job>>
           \/ \E k \in Callers, op \in Operations : Request(k, op)
  BY <1>1, <1>4, OutsideRuns
<1>5. CASE Environment
  BY <1>1, <1>3, <1>4, <1>5 DEF Environment, EditTable, EditRaw
<1>6. CASE UNCHANGED vars
  BY <1>4, <1>6 DEF vars
<1> QED
  BY <1>2, <1>4, <1>5, <1>6 DEF Next

\* "The latest successful record is the currently running one"
\* (web/src/components/publish/history-list.tsx:90), for one request at a time
\* and nothing failing but what mihomo rejects: after rejected publishes,
\* rollbacks and restarts of mihomo in the middle of any of them.
THEOREM LatestRuns ==
  ASSUME OneCaller, Undisturbed
  PROVE  Spec => []LatestSuccessRuns
<1>1. Init => RunInv
  BY DEF Init, RunInv, InDoubt, Steady, Serves, InForce
<1>2. IInv /\ SerialInv /\ RunInv /\ [Next]_vars => RunInv'
  BY NextRuns
<1>3. RunInv => LatestSuccessRuns
  BY DEF RunInv, LatestSuccessRuns, Quiet, Latest, InDoubt, Steady, Serves, InForce
<1> QED
  BY <1>1, <1>2, <1>3, Invariance, VersionsAreCounted, PTL DEF Spec

\* Versions are unique and count the records, with one request at a time,
\* through faults and restarts.
THEOREM VersionsAreUnique ==
  ASSUME OneCaller
  PROVE  Spec => []VersionsCount
<1>1. SerialInv => VersionsCount
  BY DEF SerialInv
<1> QED
  BY <1>1, VersionsAreCounted, PTL
=============================================================================
