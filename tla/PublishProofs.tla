--------------------------- MODULE PublishProofs ---------------------------
(***************************************************************************)
(* Proofs about Publish: type correctness, that only checked renderings    *)
(* are published whatever runs concurrently, and, for one request at a     *)
(* time, that publishes are atomic.                                        *)
(***************************************************************************)
EXTENDS Publish, TLAPS

\* One request is in flight at a time.
OneCaller == \A k, l \in Callers : k = l

\* The first table is the system configuration.
LEMMA OrderFacts ==
  /\ System \in Tables
  /\ \A i \in Nat \ {0} : i <= Len(Order) => Order[i] \in Tables
  /\ Len(Order) \in Nat
BY TableAssumption DEF System, Tables

\* A request that has begun is a job record.
LEMMA JobTyped ==
  ASSUME TypeOK, NEW k \in Callers, job[k] # Idle
  PROVE  job[k] \in Job
BY DEF TypeOK

\* What Load may put into a request.
LEMMA ParseTyped ==
  ASSUME NEW c \in Contents, ParseConfig(c) # NoDoc
  PROVE  ParseConfig(c) \in Docs
BY TableAssumption DEF ParseConfig, Contents

\* A request moves on or ends.
LEMMA MoveTyped ==
  ASSUME TypeOK, NEW k \in Callers, job[k] \in Job, NEW s \in Stages,
         Goto(k, s) \/ Done(k)
  PROVE  job' \in [Callers -> Job \cup {Idle}]
BY DEF TypeOK, Goto, Done, Job

\* A request is replaced by another.
LEMMA PutTyped ==
  ASSUME TypeOK, NEW k \in Callers, NEW r \in Job, job' = [job EXCEPT ![k] = r]
  PROVE  job' \in [Callers -> Job \cup {Idle}]
BY DEF TypeOK

\* A request takes the next table.
LEMMA CountTyped ==
  ASSUME NEW r \in Job
  PROVE  [r EXCEPT !.at = r.at + 1] \in Job
BY DEF Job

\* A request has read a table.
LEMMA ReadTyped ==
  ASSUME NEW r \in Job, NEW d \in Docs
  PROVE  [r EXCEPT !.doc = d, !.at = r.at + 1] \in Job
<1>1. \A a \in Nat \ {0} : [r EXCEPT !.doc = d, !.at = a] \in Job
  BY DEF Job
<1>2. r.at + 1 \in Nat \ {0}
  BY DEF Job
<1> QED
  BY <1>1, <1>2

\* A request takes an earlier success.
LEMMA EarlierTyped ==
  ASSUME NEW r \in Job, NEW c \in Contents, NEW o \in Origins, NEW s \in Stages
  PROVE  [r EXCEPT !.cfg = c, !.origin = o, !.stage = s] \in Job
BY DEF Job

\* A request begins on the tables.
LEMMA TablesTyped ==
  ASSUME NEW r \in Job, NEW s \in Stages, NEW a \in Nat \ {0}
  PROVE  [r EXCEPT !.stage = s, !.at = a] \in Job
BY DEF Job

\* A request whose stage and outcome change is still a request.
LEMMA OutcomeTyped ==
  ASSUME NEW r \in Job, NEW s \in Stages
  PROVE  /\ [r EXCEPT !.stage = s] \in Job
         /\ \A n \in Notes : [r EXCEPT !.note = n, !.stage = s] \in Job
         /\ [r EXCEPT !.status = "success", !.stage = s] \in Job
BY DEF Job

\* The records of the history.
LEMMA HistoryTyped ==
  ASSUME TypeOK
  PROVE  /\ Len(history) \in Nat
         /\ \A i \in 1..Len(history) : history[i] \in Record
BY DEF TypeOK

-----------------------------------------------------------------------------
(* Type correctness. *)

\* Initially.
LEMMA InitType == Init => TypeOK
BY TableAssumption, BoundAssumption DEF Init, TypeOK, Contents, Docs

\* A new request.
LEMMA RequestType ==
  ASSUME TypeOK, NEW k \in Callers, NEW op \in Operations, Request(k, op)
  PROVE  TypeOK'
<1>1. op \in {"publish", "rollback", "discard", "import"}
  BY BoundAssumption
<1>2. FirstStage[op] \in Stages
  BY <1>1 DEF FirstStage, Stages
<1>3. [t \in Tables |-> {}] \in Docs
  BY DEF Docs
<1>4. Start(op, FirstStage[op]) \in Job
  BY <1>1, <1>2, <1>3 DEF Start, Job, Origins, Notes
<1> QED
  BY <1>4, BoundAssumption DEF TypeOK, Request, draftVars

\* The steps of renderDraft.
LEMMA RenderType ==
  ASSUME TypeOK, NEW k \in Callers, RenderRaw(k) \/ RenderTable(k) \/ RenderDone(k)
  PROVE  TypeOK'
<1> USE DEF draftVars, boundVars, At
<1>1. job[k] \in Job
  BY JobTyped DEF RenderRaw, RenderTable, RenderDone
<1>2. ASSUME NEW c \in Contents, NEW from \in Origins, Render(k, c, from)
      PROVE  job' \in [Callers -> Job \cup {Idle}]
  BY <1>1, <1>2 DEF TypeOK, Render, Job, Stages
<1>3. CASE RenderRaw(k)
  <2>1. job' \in [Callers -> Job \cup {Idle}]
    <3>1. CASE raw # NoText
      BY <1>2, <1>3, <3>1 DEF TypeOK, RenderRaw, Contents, Origins
    <3>2. CASE raw = NoText
      <4>1. [job[k] EXCEPT !.stage = "tables", !.at = 1] \in Job
        <5>1. "tables" \in Stages /\ 1 \in Nat \ {0}
          BY DEF Stages
        <5> QED
          BY <1>1, <5>1, TablesTyped
      <4>2. job' = [job EXCEPT ![k] = [job[k] EXCEPT !.stage = "tables", !.at = 1]]
        BY <1>3, <3>2 DEF RenderRaw
      <4> QED
        BY <4>1, <4>2, PutTyped
    <3> QED
      BY <3>1, <3>2
  <2> QED
    BY <1>3, <2>1 DEF TypeOK, RenderRaw
<1>4. CASE RenderTable(k)
  <2> DEFINE t == Order[job[k].at]
  <2>1. t \in Tables
    BY <1>1, <1>4, OrderFacts DEF RenderTable, Job
  <2>2. [job[k].doc EXCEPT ![t] = db[t]] \in Docs
    BY <1>1, <2>1 DEF TypeOK, Docs, Job
  <2>3. job' \in [Callers -> Job \cup {Idle}]
    <3>1. job' = [job EXCEPT ![k] = [job[k] EXCEPT !.doc = [job[k].doc EXCEPT ![t] = db[t]],
                                                   !.at = job[k].at + 1]]
      BY <1>4 DEF RenderTable
    <3> QED
      BY <1>1, <2>2, <3>1, ReadTyped, PutTyped
  <2> QED
    BY <1>4, <2>3 DEF TypeOK, RenderTable
<1>5. CASE RenderDone(k)
  <2>1. job[k].doc \in Contents
    BY <1>1 DEF Job, Contents
  <2>2. job' \in [Callers -> Job \cup {Idle}]
    BY <1>2, <1>5, <2>1 DEF RenderDone, Origins
  <2> QED
    BY <1>5, <2>2 DEF TypeOK, RenderDone
<1> QED
  BY <1>3, <1>4, <1>5

\* The steps of Publish and Rollback.
LEMMA PublishType ==
  ASSUME TypeOK, CarriesChecked, NEW k \in Callers,
         \/ Check(k) \/ RollbackLast(k) \/ TakeVersion(k) \/ Backup(k) \/ WriteNew(k)
         \/ Reload(k) \/ Restore(k) \/ Rereload(k) \/ Save(k) \/ SaveFails(k) \/ ClearRaw(k)
  PROVE  TypeOK'
<1> USE DEF draftVars, boundVars, At
<1>1. job[k] # Idle /\ job[k] \in Job
  BY JobTyped DEF Check, RollbackLast, TakeVersion, Backup, WriteNew, Reload, Restore,
                  Rereload, Save, SaveFails, ClearRaw
<1>2. Len(history) \in Nat
  BY DEF TypeOK
<1>3. CASE Check(k)
  <2>1. job' \in [Callers -> Job \cup {Idle}]
    BY <1>1, <1>3, MoveTyped DEF Check, Stages
  <2> QED
    BY <1>3, <2>1 DEF TypeOK, Check
<1>4. CASE RollbackLast(k)
  <2>1. \A i \in 1..Len(history) : history[i].cfg \in Contents
    BY HistoryTyped DEF Record
  <2>2. job' \in [Callers -> Job \cup {Idle}]
    <3>1. CASE Done(k)
      BY <1>1, <3>1, MoveTyped DEF Stages
    <3>2. ASSUME NEW i \in 1..Len(history),
                 job' = [job EXCEPT ![k].cfg = history[i].cfg, ![k].origin = "history",
                                    ![k].stage = "version"]
          PROVE  job' \in [Callers -> Job \cup {Idle}]
      <4>1. "history" \in Origins /\ "version" \in Stages
        BY DEF Origins, Stages
      <4>2. [job[k] EXCEPT !.cfg = history[i].cfg, !.origin = "history",
                           !.stage = "version"] \in Job
        BY <1>1, <2>1, <4>1, EarlierTyped
      <4>3. job' = [job EXCEPT ![k] = [job[k] EXCEPT !.cfg = history[i].cfg,
                                             !.origin = "history", !.stage = "version"]]
        BY <3>2 DEF TypeOK
      <4> QED
        BY <4>2, <4>3, PutTyped
    <3> QED
      BY <1>4, <3>1, <3>2 DEF RollbackLast
  <2> QED
    BY <1>4, <2>2 DEF TypeOK, RollbackLast
<1>5. CASE TakeVersion(k)
  BY <1>1, <1>2, <1>5 DEF TypeOK, TakeVersion, NextVersion, Job, Stages
<1>6. CASE Backup(k)
  BY <1>1, <1>6 DEF TypeOK, Backup, Job, Stages
<1>7. CASE WriteNew(k)
  <2>1. job' \in [Callers -> Job \cup {Idle}]
    BY <1>1, <1>7, MoveTyped DEF WriteNew, Stages
  <2>2. job[k].cfg \in Contents \cup {Absent}
    BY <1>1 DEF Job
  <2> QED
    BY <1>7, <2>1, <2>2, BoundAssumption DEF TypeOK, WriteNew, Fault, NoFault
<1>8. CASE Reload(k)
  <2>1. "save" \in Stages /\ "restore" \in Stages /\ "none" \in Notes
    BY DEF Stages, Notes
  <2>2. \/ job' = [job EXCEPT ![k] = [job[k] EXCEPT !.status = "success", !.stage = "save"]]
        \/ job' = [job EXCEPT ![k] = [job[k] EXCEPT !.stage = "restore"]]
    BY <1>1, <1>8 DEF TypeOK, Reload, Goto
  <2>3. job' \in [Callers -> Job \cup {Idle}]
    BY <1>1, <2>1, <2>2, OutcomeTyped, PutTyped
  <2> QED
    BY <1>8, <2>3, BoundAssumption
    DEF TypeOK, Reload, ReloadConfig, ReloadFails, Fault, NoFault
<1>9. CASE Restore(k)
  <2>1. "save" \in Stages /\ "rereload" \in Stages /\ "restore" \in Notes
    BY DEF Stages, Notes
  <2>2. \/ job' = [job EXCEPT ![k] = [job[k] EXCEPT !.note = "restore", !.stage = "save"]]
        \/ job' = [job EXCEPT ![k] = [job[k] EXCEPT !.stage = "save"]]
        \/ job' = [job EXCEPT ![k] = [job[k] EXCEPT !.stage = "rereload"]]
    BY <1>1, <1>9 DEF TypeOK, Restore, Goto
  <2>3. job' \in [Callers -> Job \cup {Idle}]
    <3>1. /\ [job[k] EXCEPT !.note = "restore", !.stage = "save"] \in Job
          /\ [job[k] EXCEPT !.stage = "save"] \in Job
          /\ [job[k] EXCEPT !.stage = "rereload"] \in Job
      BY <1>1, <2>1, OutcomeTyped
    <3> QED
      BY <2>2, <3>1 DEF TypeOK
  <2>4. job[k].backup \in Contents \cup {Absent}
    BY <1>1 DEF Job
  <2> QED
    BY <1>9, <2>3, <2>4, BoundAssumption DEF TypeOK, Restore, Restored, Fault, NoFault
<1>10. CASE Rereload(k)
  <2>1. "save" \in Stages /\ "reload" \in Notes
    BY DEF Stages, Notes
  <2>2. \/ job' = [job EXCEPT ![k] = [job[k] EXCEPT !.note = "reload", !.stage = "save"]]
        \/ job' = [job EXCEPT ![k] = [job[k] EXCEPT !.stage = "save"]]
    BY <1>1, <1>10 DEF TypeOK, Rereload, Goto
  <2>3. job' \in [Callers -> Job \cup {Idle}]
    <3>1. /\ [job[k] EXCEPT !.note = "reload", !.stage = "save"] \in Job
          /\ [job[k] EXCEPT !.stage = "save"] \in Job
      BY <1>1, <2>1, OutcomeTyped
    <3> QED
      BY <2>2, <3>1 DEF TypeOK
  <2> QED
    BY <1>10, <2>3, BoundAssumption
    DEF TypeOK, Rereload, ReloadConfig, ReloadFails, Fault, NoFault
<1>11. CASE Save(k)
  <2> DEFINE r == [version |-> job[k].version, cfg |-> job[k].cfg,
                   status |-> job[k].status, note |-> job[k].note,
                   origin |-> job[k].origin]
  <2>1. job[k].cfg \in Contents
    BY <1>1, <1>11 DEF Save, CarriesChecked, Carries, Belongs, Unpublished, Job
  <2>2. r \in Record
    BY <1>1, <2>1 DEF Job, Record
  <2>3. history' \in Seq(Record)
    BY <1>11, <2>2 DEF TypeOK, Save
  <2>4. job' \in [Callers -> Job \cup {Idle}]
    BY <1>1, <1>11, MoveTyped DEF Save, Stages
  <2> QED
    BY <1>11, <2>3, <2>4 DEF TypeOK, Save
<1>12. CASE ClearRaw(k)
  <2>1. job' \in [Callers -> Job \cup {Idle}]
    BY <1>1, <1>12, MoveTyped DEF ClearRaw, Stages
  <2> QED
    BY <1>12, <2>1 DEF TypeOK, ClearRaw
<1>13. CASE SaveFails(k)
  <2>1. job' \in [Callers -> Job \cup {Idle}]
    BY <1>1, <1>13, MoveTyped DEF SaveFails, Stages
  <2> QED
    BY <1>13, <2>1, BoundAssumption DEF TypeOK, SaveFails, Fault
<1> QED
  BY <1>3, <1>4, <1>5, <1>6, <1>7, <1>8, <1>9, <1>10, <1>11, <1>12, <1>13

\* The steps of Discard and Import.
LEMMA ReplaceType ==
  ASSUME TypeOK, CarriesChecked, NEW k \in Callers,
         Load(k) \/ ClearTable(k) \/ FillTable(k) \/ Rewrite(k)
  PROVE  TypeOK'
<1> USE DEF draftVars, boundVars, At
<1>1. job[k] # Idle /\ job[k] \in Job
  BY JobTyped DEF Load, ClearTable, FillTable, Rewrite
<1>7. job[k].at \in Nat \ {0}
  BY <1>1 DEF Job
<1>2. job[k].at <= Len(Order) => Order[job[k].at] \in Tables
  BY <1>7, OrderFacts
<1>3. CASE Load(k)
  <2>1. ASSUME NEW c \in Contents \cup {Absent}, c # Absent, ParseConfig(c) # NoDoc,
               job' = [job EXCEPT ![k].doc = ParseConfig(c), ![k].at = 2,
                                  ![k].stage = "empty"]
        PROVE  job' \in [Callers -> Job \cup {Idle}]
    <3>1. ParseConfig(c) \in Docs
      BY <2>1, ParseTyped
    <3> DEFINE new == [job[k] EXCEPT !.doc = ParseConfig(c), !.at = 2, !.stage = "empty"]
    <3>2. \A d \in Docs :
            [job[k] EXCEPT !.doc = d, !.at = 2, !.stage = "empty"] \in Job
      <4> SUFFICES ASSUME NEW d \in Docs
                   PROVE  [job[k] EXCEPT !.doc = d, !.at = 2, !.stage = "empty"] \in Job
        OBVIOUS
      <4>1. "empty" \in Stages /\ 2 \in Nat \ {0}
        BY DEF Stages
      <4> QED
        BY <1>1, <4>1 DEF Job
    <3>3. job' = [job EXCEPT ![k] = new]
      BY <2>1 DEF TypeOK
    <3> QED
      BY <3>1, <3>2, <3>3 DEF TypeOK
  <2>2. \E c \in Contents \cup {Absent} :
          \/ Done(k)
          \/ /\ c # Absent /\ ParseConfig(c) # NoDoc
             /\ job' = [job EXCEPT ![k].doc = ParseConfig(c), ![k].at = 2,
                                   ![k].stage = "empty"]
    BY <1>3 DEF Load, TypeOK
  <2>3. job' \in [Callers -> Job \cup {Idle}]
    <3>1. CASE Done(k)
      BY <1>1, <3>1, MoveTyped DEF Stages
    <3> QED
      BY <2>1, <2>2, <3>1
  <2> QED
    BY <1>3, <2>3 DEF TypeOK, Load
<1>4. CASE ClearTable(k)
  <2>1. job' \in [Callers -> Job \cup {Idle}]
    <3>1. CASE job[k].at <= Len(Order)
      <4>1. job' = [job EXCEPT ![k] = [job[k] EXCEPT !.at = job[k].at + 1]]
        BY <1>4, <3>1 DEF ClearTable
      <4> QED
        BY <1>1, <4>1, CountTyped, PutTyped
    <3>2. CASE ~(job[k].at <= Len(Order))
      BY <1>1, <1>4, <3>2 DEF TypeOK, ClearTable, Job, Stages
    <3> QED
      BY <3>1, <3>2
  <2>2. db' \in Docs
    <3>1. CASE job[k].at <= Len(Order)
      BY <1>2, <1>4, <3>1 DEF TypeOK, ClearTable, Docs
    <3>2. CASE ~(job[k].at <= Len(Order))
      BY <1>4, <3>2 DEF TypeOK, ClearTable
    <3> QED
      BY <3>1, <3>2
  <2> QED
    BY <1>4, <2>1, <2>2 DEF TypeOK, ClearTable
<1>5. CASE FillTable(k)
  <2> DEFINE t == Order[job[k].at]
  <2>1. job' \in [Callers -> Job \cup {Idle}]
    <3>1. CASE job' = [job EXCEPT ![k].at = @ + 1]
      BY <1>1, <3>1, CountTyped, PutTyped
    <3>2. CASE ~(job' = [job EXCEPT ![k].at = @ + 1])
      BY <1>1, <1>5, <3>2, MoveTyped DEF FillTable, Stages
    <3> QED
      BY <3>1, <3>2
  <2>2. db' \in Docs
    <3>1. ASSUME NEW rows \in SUBSET Items, job[k].at <= Len(Order), Fill(t, rows)
          PROVE  db' \in Docs
      BY <1>2, <3>1 DEF TypeOK, Fill, Docs
    <3>2. CASE job[k].at <= Len(Order)
      <4>1. job[k].doc[t] \in SUBSET Items
        BY <1>1, <1>2, <3>2 DEF Docs, Job
      <4>2. ~(job[k].at > Len(Order))
        BY <1>1, <3>2, OrderFacts DEF Job
      <4>3. \E rows \in SUBSET job[k].doc[t] : Fill(t, rows)
        BY <1>5, <4>2 DEF FillTable
      <4> QED
        BY <3>1, <3>2, <4>1, <4>3
    <3>3. CASE ~(job[k].at <= Len(Order))
      BY <1>1, <1>5, <3>3, OrderFacts DEF TypeOK, FillTable, Docs, Job
    <3> QED
      BY <3>2, <3>3
  <2> QED
    BY <1>5, <2>1, <2>2 DEF TypeOK, FillTable
<1>6. CASE Rewrite(k)
  <2>1. job' \in [Callers -> Job \cup {Idle}]
    BY <1>1, <1>6, MoveTyped DEF Rewrite, Stages
  <2>2. file' \in Contents \cup {Absent}
    BY <1>1, <1>6 DEF TypeOK, Rewrite, Job
  <2> QED
    BY <1>6, <2>1, <2>2, BoundAssumption DEF TypeOK, Rewrite, Fault, NoFault
<1> QED
  BY <1>3, <1>4, <1>5, <1>6

\* Editors, mihomo and restarts.
LEMMA EnvironmentType ==
  ASSUME TypeOK, Environment
  PROVE  TypeOK'
<1> USE DEF draftVars, boundVars, Edit
<1>1. CASE \E t \in Tables, rows \in SUBSET Items : EditTable(t, rows)
  BY <1>1, BoundAssumption DEF TypeOK, EditTable, Docs
<1>2. CASE \E x \in Texts \cup {NoText} : EditRaw(x)
  BY <1>2, BoundAssumption DEF TypeOK, EditRaw
<1>3. CASE MihomoRestart
  BY <1>3 DEF TypeOK, MihomoRestart
<1>4. CASE Crash
  BY <1>4, BoundAssumption DEF TypeOK, Crash
<1> QED
  BY <1>1, <1>2, <1>3, <1>4 DEF Environment

\* Stuttering.
LEMMA StutterType ==
  ASSUME TypeOK, UNCHANGED vars
  PROVE  TypeOK'
BY DEF TypeOK, vars

\* Every step.
LEMMA NextType ==
  ASSUME TypeOK, CarriesChecked, [Next]_vars
  PROVE  TypeOK'
BY RequestType, RenderType, PublishType, ReplaceType, EnvironmentType, StutterType
DEF Next, Step

-----------------------------------------------------------------------------
(* Only checked renderings are published. *)

\* Initially nothing is carried or recorded.
LEMMA InitChecked == Init => CarriesChecked /\ OnlyCheckedIsPublished
BY DEF Init, CarriesChecked, OnlyCheckedIsPublished

\* Appending a record keeps the ones before it.
LEMMA SaveGrows ==
  ASSUME TypeOK, NEW k \in Callers, Save(k)
  PROVE  /\ Len(history') = Len(history) + 1
         /\ \A i \in 1..Len(history) : history'[i] = history[i]
         /\ history'[Len(history) + 1] =
              [version |-> job[k].version, cfg |-> job[k].cfg, status |-> job[k].status,
               note |-> job[k].note, origin |-> job[k].origin]
BY DEF TypeOK, Save

\* An earlier success stays one.
LEMMA SuccessStays ==
  ASSUME TypeOK, NEW k \in Callers, UNCHANGED history \/ Save(k), NEW c,
         EarlierSuccess(c, Len(history))
  PROVE  \E j \in 1..Len(history') :
           history'[j].status = "success" /\ history'[j].cfg = c
<1>1. Len(history) \in Nat
  BY HistoryTyped
<1>2. CASE Save(k)
  <2>1. PICK j \in 1..Len(history) : history[j].status = "success" /\ history[j].cfg = c
    BY DEF EarlierSuccess
  <2>2. /\ Len(history') = Len(history) + 1
        /\ \A i \in 1..Len(history) : history'[i] = history[i]
    BY <1>2, SaveGrows
  <2>3. j \in 1..Len(history') /\ history'[j] = history[j]
    BY <1>1, <2>2
  <2> QED
    BY <2>1, <2>3 DEF EarlierSuccess
<1>3. CASE UNCHANGED history
  BY <1>3 DEF EarlierSuccess
<1> QED
  BY <1>2, <1>3

\* The other requests keep what they carry while k moves.
LEMMA OthersCarry ==
  ASSUME TypeOK, CarriesChecked, NEW k \in Callers, UNCHANGED history \/ Save(k),
         NEW l \in Callers, job'[l] = job[l], job[l] # Idle
  PROVE  (Carries(l) /\ Belongs(l))'
<1>1. Carries(l) /\ Belongs(l)
  BY DEF CarriesChecked
<1>2. Belongs(l)'
  BY <1>1 DEF Belongs
<1>3. ASSUME EarlierSuccess(job[l].cfg, Len(history))
      PROVE  EarlierSuccess(job[l].cfg, Len(history))'
  <2>1. \E j \in 1..Len(history') :
          history'[j].status = "success" /\ history'[j].cfg = job[l].cfg
    BY <1>3, SuccessStays
  <2> QED
    BY <2>1 DEF EarlierSuccess
<1>4. Carries(l)'
  BY <1>1, <1>3 DEF Carries
<1> QED
  BY <1>2, <1>4

\* A publish or rollback that moves on without touching its text.
LEMMA MoverKeeps ==
  ASSUME NEW k \in Callers, job[k] \in Job, Carries(k), UNCHANGED history,
         job[k].op \in {"publish", "rollback"}, job[k].stage \notin Unpublished,
         job'[k].op = job[k].op, job'[k].cfg = job[k].cfg,
         job'[k].origin = job[k].origin, job'[k].stage \notin Unpublished
  PROVE  (Carries(k) /\ Belongs(k))'
<1>1. EarlierSuccess(job[k].cfg, Len(history))' = EarlierSuccess(job[k].cfg, Len(history))
  BY DEF EarlierSuccess
<1>2. job[k].cfg \in Contents /\ (job[k].origin = "tables" => job[k].cfg \in Valid)
  BY DEF Carries
<1>3. job[k].origin = "history" => EarlierSuccess(job[k].cfg, Len(history))
  BY DEF Carries
<1>4. Belongs(k)'
  BY DEF Belongs, Unpublished
<1>5. Carries(k)'
  BY <1>1, <1>2, <1>3 DEF Carries, Unpublished
<1> QED
  BY <1>4, <1>5

\* What the moving request itself carries, step by step.
LEMMA MoverCarries ==
  ASSUME TypeOK, CarriesChecked, OnlyCheckedIsPublished, NEW k \in Callers,
         Step(k), job'[k] # Idle
  PROVE  (Carries(k) /\ Belongs(k))'
<1> USE DEF draftVars, boundVars, At
<1>1. job[k] # Idle /\ job[k] \in Job /\ job \in [Callers -> Job \cup {Idle}]
  BY JobTyped DEF TypeOK, Step, RenderRaw, RenderTable, RenderDone, Check, RollbackLast,
       TakeVersion, Backup, WriteNew, Reload, Restore, Rereload, Save, SaveFails, ClearRaw, Load,
       ClearTable, FillTable, Rewrite
<1>2. Carries(k) /\ Belongs(k)
  BY <1>1 DEF CarriesChecked
<1>3. CASE RenderRaw(k)
  BY <1>1, <1>2, <1>3
  DEF RenderRaw, Render, Carries, Belongs, Unpublished, TypeOK, Contents, Job
<1>4. CASE RenderTable(k)
  BY <1>1, <1>2, <1>4 DEF RenderTable, Carries, Belongs, Unpublished
<1>5. CASE RenderDone(k)
  BY <1>1, <1>2, <1>5 DEF RenderDone, Render, Carries, Belongs, Unpublished, Contents, Job
<1>6. CASE Check(k)
  <2>1. /\ job[k].op \in {"publish", "rollback"} /\ Passes(k)
        /\ job' = [job EXCEPT ![k].stage = "version"]
    BY <1>1, <1>2, <1>6 DEF Check, Goto, Done, Belongs, Job
  <2>2. job[k].cfg \in Contents /\ job[k].origin \in {"tables", "raw"}
    BY <1>2, <1>6 DEF Check, Carries
  <2> QED
    BY <1>1, <2>1, <2>2 DEF Passes, Carries, Belongs, Unpublished
<1>7. CASE RollbackLast(k)
  <2>1. PICK i \in 1..Len(history) :
          /\ history[i].status = "success"
          /\ job' = [job EXCEPT ![k].cfg = history[i].cfg, ![k].origin = "history",
                                ![k].stage = "version"]
    BY <1>1, <1>7 DEF RollbackLast, Done
  <2>2. history[i].cfg \in Contents
    BY HistoryTyped DEF Record
  <2>3. UNCHANGED history
    BY <1>7 DEF RollbackLast
  <2> QED
    <3>1. job[k].op \in {"publish", "rollback"}
      BY <1>1, <1>2, <1>7 DEF RollbackLast, Belongs, Job
    <3>2. /\ job'[k].cfg = history[i].cfg /\ job'[k].origin = "history"
          /\ job'[k].stage = "version" /\ job'[k].op = job[k].op
      BY <1>1, <2>1
    <3>3. EarlierSuccess(job[k].cfg, Len(history))'
      BY <2>1, <2>3, <3>2 DEF EarlierSuccess
    <3>4. Carries(k)'
      BY <2>2, <3>2, <3>3 DEF Carries
    <3> QED
      BY <3>1, <3>2, <3>4 DEF Belongs
<1>8. ASSUME \/ TakeVersion(k) \/ Backup(k) \/ WriteNew(k) \/ Reload(k) \/ Restore(k)
             \/ Rereload(k)
      PROVE  (Carries(k) /\ Belongs(k))'
  <2>1. job[k].op \in {"publish", "rollback"} /\ job[k].stage \notin Unpublished
    BY <1>1, <1>2, <1>8
    DEF TakeVersion, Backup, WriteNew, Reload, Restore, Rereload, Belongs, Unpublished, Job
  <2>2. UNCHANGED history
    BY <1>8 DEF TakeVersion, Backup, WriteNew, Reload, Restore, Rereload
  <2>3. /\ job'[k].op = job[k].op /\ job'[k].cfg = job[k].cfg
        /\ job'[k].origin = job[k].origin /\ job'[k].stage \notin Unpublished
    <3>1. CASE TakeVersion(k) \/ Backup(k)
      BY <1>1, <3>1 DEF TakeVersion, Backup, Unpublished, Job
    <3>2. CASE WriteNew(k)
      BY <1>1, <3>2 DEF WriteNew, Goto, Done, Unpublished, Job
    <3>3. CASE Reload(k)
      BY <1>1, <3>3 DEF Reload, Goto, Unpublished, Job
    <3>4. CASE Restore(k)
      BY <1>1, <3>4 DEF Restore, Goto, Unpublished, Job
    <3>5. CASE Rereload(k)
      BY <1>1, <3>5 DEF Rereload, Goto, Unpublished, Job
    <3> QED
      BY <1>8, <3>1, <3>2, <3>3, <3>4, <3>5
  <2> QED
    BY <1>1, <1>2, <2>1, <2>2, <2>3, MoverKeeps
<1>13. CASE Save(k)
  <2>1. job[k].op = "publish" /\ job'[k] = [job[k] EXCEPT !.stage = "clear"]
    BY <1>1, <1>13 DEF Save, Goto, Done
  <2>2. ASSUME EarlierSuccess(job[k].cfg, Len(history))
        PROVE  EarlierSuccess(job[k].cfg, Len(history))'
    <3>1. \E j \in 1..Len(history') :
            history'[j].status = "success" /\ history'[j].cfg = job[k].cfg
      BY <1>13, <2>2, SuccessStays
    <3>2. job'[k].cfg = job[k].cfg
      BY <1>1, <2>1
    <3> QED
      BY <3>1, <3>2 DEF EarlierSuccess
  <2> QED
    <3>1. /\ job[k].cfg \in Contents /\ (job[k].origin = "tables" => job[k].cfg \in Valid)
          /\ job[k].origin = "history" => EarlierSuccess(job[k].cfg, Len(history))
      BY <1>2, <1>13, <2>1 DEF Save, Carries, Unpublished
    <3>2. /\ job'[k].cfg = job[k].cfg /\ job'[k].origin = job[k].origin
          /\ job'[k].stage = "clear" /\ job'[k].op = "publish"
      BY <1>1, <2>1 DEF Job
    <3>3. Carries(k)'
      BY <2>2, <3>1, <3>2 DEF Carries
    <3> QED
      BY <3>2, <3>3 DEF Belongs
<1>14. CASE ClearRaw(k)
  <2>1. job[k].op = "discard" /\ job'[k] = [job[k] EXCEPT !.stage = "draft"]
    BY <1>1, <1>14 DEF ClearRaw, Goto, Done
  <2>2. job'[k].op = "discard" /\ job'[k].stage = "draft"
    BY <1>1, <2>1 DEF Job
  <2> QED
    BY <2>2 DEF Carries, Belongs
<1>15. ASSUME Load(k) \/ ClearTable(k) \/ FillTable(k) \/ Rewrite(k)
       PROVE  (Carries(k) /\ Belongs(k))'
  <2>1. job[k].op \in {"discard", "import"}
    BY <1>1, <1>2, <1>15 DEF Load, ClearTable, FillTable, Rewrite, Belongs, Job
  <2>2. /\ job'[k].op = job[k].op
        /\ \/ job'[k].stage \in {"empty", "fill"}
           \/ job[k].op = "discard" /\ job'[k].stage = "clear"
    <3>1. CASE Load(k)
      BY <1>1, <3>1 DEF Load, Done, Job
    <3>2. CASE ClearTable(k)
      BY <1>1, <3>2 DEF ClearTable, Job
    <3>3. CASE FillTable(k)
      BY <1>1, <3>3 DEF FillTable, Goto, Done, Job
    <3>4. CASE Rewrite(k)
      BY <1>1, <3>4 DEF Rewrite, Done
    <3> QED
      BY <1>15, <3>1, <3>2, <3>3, <3>4
  <2> QED
    BY <2>1, <2>2 DEF Carries, Belongs
<1>16. ~SaveFails(k)
  BY <1>1 DEF SaveFails, Done
<1> QED
  BY <1>3, <1>4, <1>5, <1>6, <1>7, <1>8, <1>13, <1>14, <1>15, <1>16 DEF Step

\* Recording an outcome that was carried keeps the history clean.
LEMMA SaveChecked ==
  ASSUME TypeOK, CarriesChecked, OnlyCheckedIsPublished, NEW k \in Callers, Save(k)
  PROVE  OnlyCheckedIsPublished'
<1> DEFINE n == Len(history)
<1>1. job[k] # Idle /\ job[k] \in Job /\ job[k].stage = "save"
  BY JobTyped DEF Save, At
<1>2. Carries(k) /\ Belongs(k)
  BY <1>1 DEF CarriesChecked
<1>3. /\ job[k].origin = "tables" => job[k].cfg \in Valid
      /\ job[k].origin = "history" => EarlierSuccess(job[k].cfg, n)
  BY <1>1, <1>2 DEF Carries, Belongs, Unpublished, Job
<1>4. /\ n \in Nat /\ Len(history') = n + 1
      /\ \A i \in 1..n : history'[i] = history[i]
      /\ history'[n + 1].cfg = job[k].cfg /\ history'[n + 1].origin = job[k].origin
  <2>1. n \in Nat
    BY HistoryTyped
  <2>2. /\ Len(history') = n + 1
        /\ \A i \in 1..n : history'[i] = history[i]
        /\ history'[n + 1] =
             [version |-> job[k].version, cfg |-> job[k].cfg, status |-> job[k].status,
              note |-> job[k].note, origin |-> job[k].origin]
    BY SaveGrows
  <2> HIDE DEF n
  <2> QED
    BY <2>1, <2>2
<1> HIDE DEF n
<1>5. ASSUME NEW i \in 1..n + 1
      PROVE  /\ history'[i].origin = "tables" => history'[i].cfg \in Valid
             /\ history'[i].origin = "history" =>
                  \E j \in 1..i - 1 : /\ history'[j].status = "success"
                                      /\ history'[j].cfg = history'[i].cfg
  <2>1. CASE i \in 1..n
    <3>1. /\ history[i].origin = "tables" => history[i].cfg \in Valid
          /\ history[i].origin = "history" =>
               \E j \in 1..i - 1 : /\ history[j].status = "success"
                                   /\ history[j].cfg = history[i].cfg
      BY <2>1 DEF OnlyCheckedIsPublished, n
    <3>2. history'[i] = history[i] /\ \A j \in 1..i - 1 : history'[j] = history[j]
      BY <1>4, <2>1
    <3> QED
      BY <3>1, <3>2
  <2>2. CASE i = n + 1
    <3>1. history'[i].origin = "history" =>
            \E j \in 1..n : history[j].status = "success" /\ history[j].cfg = job[k].cfg
      BY <1>3, <1>4, <2>2 DEF EarlierSuccess, n
    <3>2. i - 1 = n
      BY <1>4, <2>2
    <3> QED
      BY <1>3, <1>4, <2>2, <3>1, <3>2
  <2> QED
    BY <1>4, <2>1, <2>2
<1> QED
  BY <1>4, <1>5 DEF OnlyCheckedIsPublished, n

\* Steps that record nothing.
LEMMA UnsavedChecked ==
  ASSUME OnlyCheckedIsPublished, UNCHANGED history
  PROVE  OnlyCheckedIsPublished'
BY DEF OnlyCheckedIsPublished

\* A step of a request changes that request only, and records only in Save.
LEMMA StepFrame ==
  ASSUME TypeOK, NEW k \in Callers, Step(k)
  PROVE  /\ \A l \in Callers : l # k => job'[l] = job[l]
         /\ UNCHANGED history \/ Save(k)
<1>1. job \in [Callers -> Job \cup {Idle}]
  BY DEF TypeOK
<1> USE <1>1 DEF Goto, Done, draftVars, boundVars
<1>2. CASE RenderRaw(k) \/ RenderTable(k) \/ RenderDone(k)
  BY <1>2 DEF RenderRaw, RenderTable, RenderDone, Render
<1>3. CASE Check(k) \/ RollbackLast(k) \/ TakeVersion(k) \/ Backup(k) \/ WriteNew(k)
  BY <1>3 DEF Check, RollbackLast, TakeVersion, Backup, WriteNew
<1>4. CASE Reload(k) \/ Restore(k) \/ Rereload(k) \/ Save(k) \/ SaveFails(k) \/ ClearRaw(k)
  BY <1>4 DEF Reload, Restore, Rereload, Save, SaveFails, ClearRaw
<1>5. CASE Load(k) \/ ClearTable(k) \/ FillTable(k) \/ Rewrite(k)
  BY <1>5 DEF Load, ClearTable, FillTable, Rewrite
<1> QED
  BY <1>2, <1>3, <1>4, <1>5 DEF Step

\* Steps outside the requests that run.
LEMMA OutsideFrame ==
  ASSUME TypeOK, Environment \/ UNCHANGED vars \/ \E k \in Callers, op \in Operations : Request(k, op)
  PROVE  /\ UNCHANGED history
         /\ \A l \in Callers : job'[l] # Idle =>
              \/ job'[l] = job[l]
              \/ \E op \in Operations : job'[l] = Start(op, FirstStage[op])
<1>1. job \in [Callers -> Job \cup {Idle}]
  BY DEF TypeOK
<1>2. CASE \E k \in Callers, op \in Operations : Request(k, op)
  BY <1>1, <1>2 DEF Request
<1>3. CASE UNCHANGED vars
  BY <1>3 DEF vars
<1>4. CASE Environment
  BY <1>4 DEF Environment, EditTable, EditRaw, MihomoRestart, Crash, boundVars
<1> QED
  BY <1>2, <1>3, <1>4

\* A new request carries nothing yet.
LEMMA StartCarries ==
  ASSUME NEW l \in Callers, NEW op \in Operations, job'[l] = Start(op, FirstStage[op])
  PROVE  (Carries(l) /\ Belongs(l))'
<1>1. op \in {"publish", "rollback", "discard", "import"}
  BY BoundAssumption
<1>2. job'[l].op = op /\ job'[l].stage = FirstStage[op]
  BY DEF Start
<1>3. \/ op = "publish" /\ FirstStage[op] = "draft"
      \/ op = "rollback" /\ FirstStage[op] = "last"
      \/ op \in {"discard", "import"} /\ FirstStage[op] = "load"
  BY <1>1 DEF FirstStage
<1> QED
  BY <1>2, <1>3 DEF Carries, Belongs, Unpublished

\* Every step keeps what is carried and recorded checked.
LEMMA NextChecked ==
  ASSUME TypeOK, CarriesChecked, OnlyCheckedIsPublished, [Next]_vars
  PROVE  CarriesChecked' /\ OnlyCheckedIsPublished'
<1>1. ASSUME NEW k \in Callers, Step(k)
      PROVE  CarriesChecked' /\ OnlyCheckedIsPublished'
  <2>1. CarriesChecked'
    <3> SUFFICES ASSUME NEW l \in Callers, job'[l] # Idle
                 PROVE  (Carries(l) /\ Belongs(l))'
      BY DEF CarriesChecked
    <3>1. CASE l = k
      BY <1>1, <3>1, MoverCarries
    <3>2. CASE l # k
      BY <1>1, <3>2, StepFrame, OthersCarry
    <3> QED
      BY <3>1, <3>2
  <2>2. OnlyCheckedIsPublished'
    BY <1>1, StepFrame, SaveChecked, UnsavedChecked
  <2> QED
    BY <2>1, <2>2
<1>2. ASSUME Environment \/ UNCHANGED vars \/ \E k \in Callers, op \in Operations : Request(k, op)
      PROVE  CarriesChecked' /\ OnlyCheckedIsPublished'
  <2>1. CarriesChecked'
    <3> SUFFICES ASSUME NEW l \in Callers, job'[l] # Idle
                 PROVE  (Carries(l) /\ Belongs(l))'
      BY DEF CarriesChecked
    <3>1. CASE job'[l] = job[l]
      BY <1>2, <3>1, OutsideFrame, OthersCarry
    <3>2. CASE \E op \in Operations : job'[l] = Start(op, FirstStage[op])
      BY <3>2, StartCarries
    <3> QED
      BY <1>2, <3>1, <3>2, OutsideFrame
  <2>2. OnlyCheckedIsPublished'
    BY <1>2, OutsideFrame, UnsavedChecked
  <2> QED
    BY <2>1, <2>2
<1> QED
  BY <1>1, <1>2 DEF Next

\* Every variable keeps its type and the history stays clean, for any number
\* of concurrent publishes, rollbacks, discards, imports and edits.
THEOREM Invariance == Spec => []IInv
<1>1. Init => IInv
  BY InitType, InitChecked DEF IInv
<1>2. IInv /\ [Next]_vars => IInv'
  BY NextType, NextChecked DEF IInv
<1> QED
  BY <1>1, <1>2, PTL DEF Spec

\* Type correctness.
THEOREM TypeCorrect == Spec => []TypeOK
<1>1. IInv => TypeOK
  BY DEF IInv
<1> QED
  BY <1>1, Invariance, PTL

\* What a publish writes and records passed the validation as it was rendered.
THEOREM PublishedIsChecked == Spec => []OnlyCheckedIsPublished
<1>1. IInv => OnlyCheckedIsPublished
  BY DEF IInv
<1> QED
  BY <1>1, Invariance, PTL

-----------------------------------------------------------------------------
(* One request at a time. *)

\* Recording the carried version keeps the count.
LEMMA SaveCounts ==
  ASSUME TypeOK, VersionsCount, NEW k \in Callers, Save(k),
         job[k].version = Len(history) + 1
  PROVE  VersionsCount'
<1> DEFINE n == Len(history)
<1>1. n \in Nat
  BY HistoryTyped
<1>2. /\ Len(history') = n + 1
      /\ \A i \in 1..n : history'[i] = history[i]
      /\ history'[n + 1] =
           [version |-> job[k].version, cfg |-> job[k].cfg, status |-> job[k].status,
            note |-> job[k].note, origin |-> job[k].origin]
  BY SaveGrows
<1>3. \A i \in 1..n : history[i].version = i
  BY DEF VersionsCount
<1>4. job[k].version = n + 1
  OBVIOUS
<1> HIDE DEF n
<1>5. \A i \in 1..n + 1 : history'[i].version = i
  BY <1>1, <1>2, <1>3, <1>4
<1> QED
  BY <1>2, <1>5 DEF VersionsCount

\* The file follows the stage of the only request.
LEMMA MoverFollows ==
  ASSUME TypeOK, CarriesChecked, FileFollowsStage, NEW k \in Callers,
         Step(k), job'[k] # Idle
  PROVE  Follows(k)'
<1> USE DEF draftVars, boundVars, At
<1>1. job[k] # Idle /\ job[k] \in Job /\ job \in [Callers -> Job \cup {Idle}]
  BY JobTyped DEF TypeOK, Step, RenderRaw, RenderTable, RenderDone, Check, RollbackLast,
       TakeVersion, Backup, WriteNew, Reload, Restore, Rereload, Save, SaveFails, ClearRaw, Load,
       ClearTable, FillTable, Rewrite
<1>2. Follows(k) /\ Carries(k) /\ Belongs(k)
  BY <1>1 DEF FileFollowsStage, CarriesChecked
<1>3. CASE RenderRaw(k)
  <2>1. /\ job'[k].stage \in Unpublished
        /\ job'[k].status = "failed" /\ job'[k].note = "none"
    BY <1>1, <1>2, <1>3 DEF RenderRaw, Render, Goto, Done, Follows, Belongs, Unpublished, Job
  <2> QED
    BY <2>1 DEF Follows, Unpublished
<1>4. CASE RenderTable(k)
  <2>1. /\ job'[k].stage \in Unpublished
        /\ job'[k].status = "failed" /\ job'[k].note = "none"
    BY <1>1, <1>2, <1>4 DEF RenderTable, Goto, Done, Follows, Belongs, Unpublished, Job
  <2> QED
    BY <2>1 DEF Follows, Unpublished
<1>5. CASE RenderDone(k)
  <2>1. /\ job'[k].stage \in Unpublished
        /\ job'[k].status = "failed" /\ job'[k].note = "none"
    BY <1>1, <1>2, <1>5 DEF RenderDone, Render, Goto, Done, Follows, Belongs, Unpublished, Job
  <2> QED
    BY <2>1 DEF Follows, Unpublished
<1>6. CASE Check(k)
  <2>1. /\ job'[k].stage = "version"
        /\ job'[k].status = "failed" /\ job'[k].note = "none"
    BY <1>1, <1>2, <1>6 DEF Check, Goto, Done, Follows, Belongs, Unpublished, Job
  <2> QED
    BY <2>1 DEF Follows, Unpublished
<1>7. CASE RollbackLast(k)
  <2>1. /\ job'[k].stage = "version"
        /\ job'[k].status = "failed" /\ job'[k].note = "none"
    <3>1. PICK i \in 1..Len(history) :
            job' = [job EXCEPT ![k].cfg = history[i].cfg, ![k].origin = "history",
                               ![k].stage = "version"]
      BY <1>1, <1>7 DEF RollbackLast, Done
    <3>2. job[k].status = "failed" /\ job[k].note = "none"
      BY <1>2, <1>7 DEF RollbackLast, Follows
    <3> QED
      BY <1>1, <3>1, <3>2 DEF Job
  <2> QED
    BY <2>1 DEF Follows, Unpublished
<1>8. CASE TakeVersion(k)
  <2>1. /\ job'[k].stage = "backup"
        /\ job'[k].status = "failed" /\ job'[k].note = "none"
        /\ job'[k].version = Len(history') + 1
    BY <1>1, <1>2, <1>8 DEF TakeVersion, NextVersion, Goto, Done, Follows, Belongs, Unpublished, Job
  <2> QED
    BY <2>1 DEF Follows, Unpublished
<1>9. CASE Backup(k)
  <2>1. /\ job'[k].stage = "write"
        /\ job'[k].status = "failed" /\ job'[k].note = "none"
        /\ job'[k].version = Len(history') + 1
        /\ file' = job'[k].backup
    BY <1>1, <1>2, <1>9 DEF Backup, Goto, Done, Follows, Belongs, Unpublished, Job
  <2> QED
    BY <2>1 DEF Follows, Unpublished
<1>10. CASE WriteNew(k)
  <2>1. /\ job'[k].stage = "reload"
        /\ job'[k].status = "failed" /\ job'[k].note = "none"
        /\ job'[k].version = Len(history') + 1
        /\ file' = job'[k].cfg
    BY <1>1, <1>2, <1>10 DEF WriteNew, Goto, Done, Follows, Belongs, Unpublished, Job
  <2> QED
    BY <2>1 DEF Follows, Unpublished
<1>11. CASE Reload(k)
  <2>1. /\ job'[k].op # "discard"
        /\ file' = job'[k].cfg /\ job'[k].note = "none"
        /\ job'[k].version = Len(history') + 1
        /\ \/ job'[k].stage = "save" /\ job'[k].status = "success"
           \/ job'[k].stage = "restore" /\ job'[k].status = "failed"
    BY <1>1, <1>2, <1>11 DEF Reload, Goto, Done, Follows, Belongs, Unpublished, Job
  <2> QED
    BY <2>1 DEF Follows, Unpublished
<1>12. CASE Restore(k)
  <2>1. /\ job'[k].op # "discard"
        /\ job'[k].status = "failed" /\ job'[k].version = Len(history') + 1
        /\ \/ /\ job'[k].stage \in {"save", "rereload"} /\ job'[k].note = "none"
              /\ file' = job'[k].backup
           \/ /\ job'[k].stage = "save" /\ job'[k].note = "restore"
              /\ file' = job'[k].cfg
    BY <1>1, <1>2, <1>12 DEF Restore, Restored, Goto, Done, Follows, Belongs, Unpublished, Job
  <2> QED
    BY <2>1 DEF Follows, Unpublished
<1>13. CASE Rereload(k)
  <2>1. /\ job'[k].op # "discard"
        /\ job'[k].status = "failed" /\ job'[k].version = Len(history') + 1
        /\ job'[k].stage = "save" /\ job'[k].note \in {"none", "reload"}
        /\ file' = job'[k].backup
    BY <1>1, <1>2, <1>13 DEF Rereload, Goto, Done, Follows, Belongs, Unpublished, Job
  <2> QED
    BY <2>1 DEF Follows, Unpublished
<1>14. CASE Save(k)
  <2>1. job'[k].stage = "clear" /\ job'[k].op = "publish"
    BY <1>1, <1>2, <1>14 DEF Save, Goto, Done, Follows, Belongs, Unpublished, Job
  <2> QED
    BY <2>1 DEF Follows, Unpublished
<1>15. CASE ClearRaw(k)
  <2>1. /\ job'[k].stage = "draft"
        /\ job'[k].status = "failed" /\ job'[k].note = "none"
    BY <1>1, <1>2, <1>15 DEF ClearRaw, Goto, Done, Follows, Belongs, Unpublished, Job
  <2> QED
    BY <2>1 DEF Follows, Unpublished
<1>16. CASE Load(k)
  <2>1. /\ job'[k].stage = "empty"
        /\ job'[k].status = "failed" /\ job'[k].note = "none"
    BY <1>1, <1>2, <1>16 DEF Load, Goto, Done, Follows, Belongs, Unpublished, Job
  <2> QED
    BY <2>1 DEF Follows, Unpublished
<1>17. CASE ClearTable(k)
  <2>1. /\ job'[k].stage \in Unpublished
        /\ job'[k].status = "failed" /\ job'[k].note = "none"
    BY <1>1, <1>2, <1>17 DEF ClearTable, Goto, Done, Follows, Belongs, Unpublished, Job
  <2> QED
    BY <2>1 DEF Follows, Unpublished
<1>18. CASE FillTable(k)
  <2>1. /\ job'[k].stage \in {"fill", "clear"}
        /\ job'[k].status = "failed" /\ job'[k].note = "none"
    BY <1>1, <1>2, <1>18 DEF FillTable, Goto, Done, Follows, Belongs, Unpublished, Job
  <2> QED
    BY <2>1 DEF Follows, Unpublished
<1>19. CASE Rewrite(k)
  <2>1. FALSE
    BY <1>1, <1>2, <1>19 DEF Rewrite, Goto, Done, Follows, Belongs, Unpublished, Job
  <2> QED
    BY <2>1 DEF Follows, Unpublished
<1>20. ~SaveFails(k)
  BY <1>1 DEF SaveFails, Done
<1> QED
  BY <1>3, <1>4, <1>5, <1>6, <1>7, <1>8, <1>9, <1>10, <1>11, <1>12, <1>13, <1>14, <1>15, <1>16, <1>17, <1>18, <1>19, <1>20
  DEF Step

\* Steps outside the requests that run leave the file alone.
LEMMA OutsideFile ==
  ASSUME Environment \/ UNCHANGED vars \/ \E k \in Callers, op \in Operations : Request(k, op)
  PROVE  UNCHANGED file
BY DEF Environment, EditTable, EditRaw, MihomoRestart, Crash, Request, vars

\* A new request has nothing to follow.
LEMMA StartFollows ==
  ASSUME NEW l \in Callers, NEW op \in Operations, job'[l] = Start(op, FirstStage[op])
  PROVE  Follows(l)'
<1>1. FirstStage[op] \in {"draft", "last", "load"}
  BY BoundAssumption DEF FirstStage
<1>2. /\ job'[l].stage = FirstStage[op] /\ job'[l].status = "failed"
      /\ job'[l].note = "none"
  BY DEF Start
<1> QED
  BY <1>1, <1>2 DEF Follows

\* One request at a time: versions count, and the file follows the request.
LEMMA NextSerial ==
  ASSUME OneCaller, TypeOK, CarriesChecked, SerialInv, [Next]_vars
  PROVE  SerialInv'
<1> USE DEF SerialInv
<1>1. ASSUME NEW k \in Callers, Step(k)
      PROVE  SerialInv'
  <2>1. VersionsCount'
    <3>1. CASE UNCHANGED history
      BY <3>1 DEF VersionsCount
    <3>2. CASE Save(k)
      <4>1. job[k] # Idle /\ job[k].stage = "save"
        BY <3>2 DEF Save, At
      <4>2. job[k].version = Len(history) + 1
        BY <4>1 DEF FileFollowsStage, Follows
      <4> QED
        BY <3>2, <4>2, SaveCounts
    <3> QED
      BY <1>1, <3>1, <3>2, StepFrame
  <2>2. FileFollowsStage'
    <3> SUFFICES ASSUME NEW l \in Callers, job'[l] # Idle
                 PROVE  Follows(l)'
      BY DEF FileFollowsStage
    <3>1. l = k
      BY DEF OneCaller
    <3> QED
      BY <1>1, <3>1, MoverFollows
  <2> QED
    BY <2>1, <2>2
<1>2. ASSUME Environment \/ UNCHANGED vars \/ \E k \in Callers, op \in Operations : Request(k, op)
      PROVE  SerialInv'
  <2>1. UNCHANGED <<file, history>>
    BY <1>2, OutsideFrame, OutsideFile
  <2>2. FileFollowsStage'
    <3> SUFFICES ASSUME NEW l \in Callers, job'[l] # Idle
                 PROVE  Follows(l)'
      BY DEF FileFollowsStage
    <3>1. CASE job'[l] = job[l]
      <4>1. Follows(l)
        BY <3>1 DEF FileFollowsStage
      <4> QED
        BY <2>1, <3>1, <4>1 DEF Follows
    <3>2. CASE \E op \in Operations : job'[l] = Start(op, FirstStage[op])
      BY <3>2, StartFollows
    <3> QED
      BY <1>2, <3>1, <3>2, OutsideFrame
  <2> QED
    BY <2>1, <2>2 DEF VersionsCount
<1> QED
  BY <1>1, <1>2 DEF Next

\* With one request at a time, whatever fails and whenever the control plane
\* restarts, versions are unique and count the records.
THEOREM VersionsAreCounted ==
  ASSUME OneCaller
  PROVE  Spec => []SerialInv
<1>1. Init => SerialInv
  BY DEF Init, SerialInv, VersionsCount, FileFollowsStage
<1>2. IInv /\ SerialInv /\ [Next]_vars => SerialInv'
  BY NextSerial DEF IInv
<1> QED
  BY <1>1, <1>2, Invariance, PTL DEF Spec

-----------------------------------------------------------------------------
(* Publishes are atomic to one administrator. *)

LiveOf(k) == IF InDoubt(k) THEN job[k].backup ELSE file
BusyOf(k) ==
  IF Publishing(k) THEN "publishing" ELSE IF Discarding(k) THEN "discarding" ELSE "nothing"

AtomicStep == Atomic!Next \/ UNCHANGED <<Live, history, Busy>>

\* With one caller, the abstract state is that of its request.
LEMMA OneIsSeen ==
  ASSUME OneCaller, NEW k \in Callers
  PROVE  /\ Live = LiveOf(k) /\ Live' = LiveOf(k)'
         /\ Busy = BusyOf(k) /\ Busy' = BusyOf(k)'
<1>1. \A l \in Callers : l = k
  BY DEF OneCaller
<1>2. /\ (\E l \in Callers : InDoubt(l)) <=> InDoubt(k)
      /\ (\E l \in Callers : Publishing(l)) <=> Publishing(k)
      /\ (\E l \in Callers : Discarding(l)) <=> Discarding(k)
  BY <1>1, Zenon
<1>3. /\ (\E l \in Callers : InDoubt(l)') <=> InDoubt(k)'
      /\ (\E l \in Callers : Publishing(l)') <=> Publishing(k)'
      /\ (\E l \in Callers : Discarding(l)') <=> Discarding(k)'
  BY <1>1, Zenon
<1>4. InDoubt(k) => Doubtful = k
  BY <1>1, Zenon DEF Doubtful
<1>5. InDoubt(k)' => Doubtful' = k
  BY <1>1, Zenon DEF Doubtful
<1>6. Live = LiveOf(k) /\ Busy = BusyOf(k)
  BY <1>2, <1>4 DEF Live, LiveOf, Busy, BusyOf
<1>7. Live' = LiveOf(k)' /\ Busy' = BusyOf(k)'
  BY <1>3, <1>5 DEF Live, LiveOf, Busy, BusyOf
<1> QED
  BY <1>6, <1>7

\* Steps that an administrator does not see.
LEMMA Unseen ==
  ASSUME OneCaller, NEW k \in Callers,
         UNCHANGED history, LiveOf(k)' = LiveOf(k), BusyOf(k)' = BusyOf(k)
  PROVE  AtomicStep
BY OneIsSeen DEF AtomicStep

\* Steps that end a request without a record.
LEMMA Quits ==
  ASSUME OneCaller, NEW k \in Callers,
         UNCHANGED history, LiveOf(k)' = LiveOf(k), BusyOf(k)' = "nothing"
  PROVE  AtomicStep
<1>1. Atomic!Quit
  BY OneIsSeen DEF Atomic!Quit
<1> QED
  BY <1>1 DEF AtomicStep, Atomic!Next

\* Such a request is still there.
LEMMA StillThere ==
  ASSUME NEW r \in Job, NEW s \in Stages
  PROVE  /\ [r EXCEPT !.stage = s] # Idle
         /\ \A n \in Notes : [r EXCEPT !.note = n, !.stage = s] # Idle
         /\ [r EXCEPT !.status = "success", !.stage = s] # Idle
<1>1. /\ [r EXCEPT !.stage = s] \in Job
      /\ \A n \in Notes : [r EXCEPT !.note = n, !.stage = s] \in Job
      /\ [r EXCEPT !.status = "success", !.stage = s] \in Job
  BY OutcomeTyped
<1> QED
  BY <1>1, IdleAssumption

\* Rendering, checking, versioning and the backup are not seen.
LEMMA PrepareIsUnseen ==
  ASSUME OneCaller, TypeOK, CarriesChecked, TypeOK', NEW k \in Callers,
         \/ RenderRaw(k) \/ RenderTable(k) \/ RenderDone(k)
         \/ Check(k) \/ RollbackLast(k) \/ TakeVersion(k) \/ Backup(k)
  PROVE  AtomicStep
<1> USE DEF draftVars, boundVars, At
<1> DEFINE Before == {"draft", "tables", "check", "last", "version", "backup"}
           After == Before \cup {"write", "rewrite"}
<1>1. /\ job[k] # Idle /\ job[k] \in Job /\ job \in [Callers -> Job \cup {Idle}]
      /\ job[k].stage \in Before
  BY JobTyped DEF TypeOK, RenderRaw, RenderTable, RenderDone, Check, RollbackLast,
       TakeVersion, Backup
<1>2. UNCHANGED <<file, history>>
  BY DEF RenderRaw, RenderTable, RenderDone, Check, RollbackLast, TakeVersion, Backup
<1>3. \/ job'[k] = Idle
      \/ job'[k].op = job[k].op /\ job'[k].stage \in After
  <2>1. CASE RenderRaw(k)
    BY <1>1, <2>1 DEF RenderRaw, Render, Job
  <2>2. CASE RenderTable(k)
    BY <1>1, <2>2 DEF RenderTable, Job
  <2>3. CASE RenderDone(k)
    BY <1>1, <2>3 DEF RenderDone, Render, Job
  <2>4. CASE Check(k)
    BY <1>1, <2>4 DEF Check, Goto, Done, Job
  <2>5. CASE RollbackLast(k)
    <3>1. ASSUME NEW i \in 1..Len(history),
                 job' = [job EXCEPT ![k].cfg = history[i].cfg, ![k].origin = "history",
                                    ![k].stage = "version"]
          PROVE  job'[k].op = job[k].op /\ job'[k].stage \in After
      BY <1>1, <3>1 DEF Job
    <3>2. CASE Done(k)
      BY <1>1, <3>2 DEF Done
    <3> QED
      BY <2>5, <3>1, <3>2 DEF RollbackLast
  <2>6. CASE TakeVersion(k) \/ Backup(k)
    BY <1>1, <2>6 DEF TakeVersion, Backup, Job
  <2> QED
    BY <2>1, <2>2, <2>3, <2>4, <2>5, <2>6
<1>4. LiveOf(k) = file
  BY <1>1 DEF LiveOf, InDoubt
<1>5. CASE job'[k] = Idle
  <2>1. LiveOf(k)' = file' /\ BusyOf(k)' = "nothing"
    BY <1>5 DEF LiveOf, InDoubt, BusyOf, Publishing, Discarding
  <2> QED
    BY <1>2, <1>4, <2>1, Quits
<1>6. CASE job'[k] # Idle
  <2>1. job'[k].op = job[k].op /\ job'[k].stage \in After
    BY <1>3, <1>6
  <2>2. LiveOf(k)' = file'
    BY <1>6, <2>1 DEF LiveOf, InDoubt
  <2>3. BusyOf(k)' = BusyOf(k)
    BY <1>1, <1>6, <2>1 DEF BusyOf, Publishing, Discarding
  <2> QED
    BY <1>2, <1>4, <2>2, <2>3, Unseen
<1> QED
  BY <1>5, <1>6

\* From the write to the record, the file in force is the backup.
LEMMA ReplaceIsUnseen ==
  ASSUME OneCaller, TypeOK, CarriesChecked, SerialInv, NEW k \in Callers,
         WriteNew(k) \/ Reload(k) \/ Restore(k) \/ Rereload(k)
  PROVE  AtomicStep
<1> USE DEF draftVars, boundVars, At
<1> DEFINE After == {"reload", "restore", "rereload", "save"}
<1>1. /\ job[k] # Idle /\ job[k] \in Job /\ job \in [Callers -> Job \cup {Idle}]
      /\ job[k].stage \in {"write", "reload", "restore", "rereload"}
  BY JobTyped DEF TypeOK, WriteNew, Reload, Restore, Rereload
<1>2. Follows(k) /\ Belongs(k)
  BY <1>1 DEF SerialInv, FileFollowsStage, CarriesChecked
<1>3. UNCHANGED history
  BY DEF WriteNew, Reload, Restore, Rereload
<1>4. LiveOf(k) = job[k].backup
  <2>1. job[k].stage = "write" => file = job[k].backup
    BY <1>2 DEF Follows
  <2> QED
    BY <1>1, <2>1 DEF LiveOf, InDoubt
<1>5. CASE WriteNew(k) /\ Done(k) /\ UNCHANGED file
  <2>1. file = job[k].backup
    BY <1>2, <1>5 DEF WriteNew, Follows
  <2>2. job'[k] = Idle
    BY <1>1, <1>5 DEF Done
  <2>3. LiveOf(k)' = file' /\ BusyOf(k)' = "nothing"
    BY <2>2 DEF LiveOf, InDoubt, BusyOf, Publishing, Discarding
  <2> QED
    BY <1>3, <1>4, <1>5, <2>1, <2>3, Quits
<1>6. CASE ~(WriteNew(k) /\ Done(k) /\ UNCHANGED file)
  <2>1. After \subseteq Stages /\ {"restore", "reload"} \subseteq Notes
    BY DEF Stages, Notes
  <2>2. /\ job'[k] # Idle
        /\ job'[k].op = job[k].op /\ job'[k].stage \in After
        /\ job'[k].backup = job[k].backup
    <3>1. CASE WriteNew(k)
      <4>1. job'[k] = [job[k] EXCEPT !.stage = "reload"]
        BY <1>1, <1>6, <3>1 DEF WriteNew, Goto
      <4>2. "reload" \in Stages
        BY <2>1
      <4>3. job'[k] # Idle
        BY <1>1, <4>1, <4>2, StillThere DEF Notes
      <4> QED
        BY <1>1, <4>1, <4>3 DEF Job
    <3>2. CASE Reload(k)
      <4>1. \/ job'[k] = [job[k] EXCEPT !.status = "success", !.stage = "save"]
            \/ job'[k] = [job[k] EXCEPT !.stage = "restore"]
        BY <1>1, <3>2 DEF Reload, Goto
      <4> QED
        BY <1>1, <2>1, <4>1, StillThere DEF Job, Notes
    <3>3. CASE Restore(k)
      <4>1. \/ job'[k] = [job[k] EXCEPT !.note = "restore", !.stage = "save"]
            \/ job'[k] = [job[k] EXCEPT !.stage = "save"]
            \/ job'[k] = [job[k] EXCEPT !.stage = "rereload"]
        BY <1>1, <3>3 DEF Restore, Goto
      <4> QED
        BY <1>1, <2>1, <4>1, StillThere DEF Job, Notes
    <3>4. CASE Rereload(k)
      <4>1. \/ job'[k] = [job[k] EXCEPT !.note = "reload", !.stage = "save"]
            \/ job'[k] = [job[k] EXCEPT !.stage = "save"]
        BY <1>1, <3>4 DEF Rereload, Goto
      <4> QED
        BY <1>1, <2>1, <4>1, StillThere DEF Job, Notes
    <3> QED
      BY <3>1, <3>2, <3>3, <3>4
  <2>3. LiveOf(k)' = job'[k].backup
    BY <2>2 DEF LiveOf, InDoubt
  <2>4. BusyOf(k)' = BusyOf(k)
    BY <1>1, <2>2 DEF BusyOf, Publishing, Discarding
  <2> QED
    BY <1>3, <1>4, <2>2, <2>3, <2>4, Unseen
<1> QED
  BY <1>5, <1>6

\* The record is the atomic step.
LEMMA SaveIsAtomic ==
  ASSUME OneCaller, TypeOK, CarriesChecked, SerialInv, NEW k \in Callers, Save(k)
  PROVE  AtomicStep
<1> USE DEF draftVars, boundVars, At
<1>1. /\ job[k] # Idle /\ job[k] \in Job /\ job \in [Callers -> Job \cup {Idle}]
      /\ job[k].stage = "save"
  BY JobTyped DEF TypeOK, Save
<1>2. Follows(k) /\ Belongs(k) /\ Carries(k)
  BY <1>1 DEF SerialInv, FileFollowsStage, CarriesChecked
<1>3. job[k].op \in {"publish", "rollback"}
  BY <1>1, <1>2 DEF Belongs, Job
<1>4. job[k].cfg \in Contents /\ job[k].origin \in Origins
  BY <1>1, <1>2, <1>3 DEF Carries, Unpublished, Job
<1>5. Live = job[k].backup /\ Busy = "publishing"
  BY <1>1, <1>3, OneIsSeen DEF LiveOf, InDoubt, BusyOf, Publishing
<1>6. job'[k] = Idle \/ (job'[k].stage = "clear" /\ job'[k].op = "publish")
  <2>1. CASE job[k].op = "publish" /\ job[k].status = "success"
    <3>1. job' = [job EXCEPT ![k].stage = "clear"]
      BY <2>1 DEF Save, Goto
    <3> QED
      BY <1>1, <2>1, <3>1 DEF Job
  <2>2. CASE ~(job[k].op = "publish" /\ job[k].status = "success")
    BY <1>1, <2>2 DEF Save, Done
  <2> QED
    BY <2>1, <2>2
<1>7. Live' = file /\ Busy' = "nothing"
  <2>1. file' = file
    BY DEF Save
  <2> QED
    BY <1>6, <2>1, OneIsSeen DEF LiveOf, InDoubt, BusyOf, Publishing, Discarding
<1>8. job[k].version = Len(history) + 1
  BY <1>1, <1>2 DEF Follows
<1>9. history' = Append(history, [version |-> Len(history) + 1, cfg |-> job[k].cfg,
                                  status |-> job[k].status, note |-> job[k].note,
                                  origin |-> job[k].origin])
  BY <1>8 DEF Save
<1>10. IF job[k].status = "success"
       THEN file = job[k].cfg /\ job[k].note = "none"
       ELSE file = IF job[k].note = "restore" THEN job[k].cfg ELSE job[k].backup
  BY <1>1, <1>2 DEF Follows
<1>11. CASE job[k].status = "success"
  <2>1. Atomic!Commit(job[k].cfg, job[k].origin)
    BY <1>5, <1>7, <1>9, <1>10, <1>11 DEF Atomic!Commit, Atomic!Entry
  <2> QED
    BY <1>4, <2>1 DEF AtomicStep, Atomic!Next
<1>12. CASE job[k].status = "failed" /\ job[k].note = "restore"
  <2>1. Atomic!Stick(job[k].cfg, job[k].origin)
    BY <1>5, <1>7, <1>9, <1>10, <1>12 DEF Atomic!Stick, Atomic!Entry
  <2> QED
    BY <1>4, <2>1 DEF AtomicStep, Atomic!Next
<1>13. CASE job[k].status = "failed" /\ job[k].note \in {"none", "reload"}
  <2>1. Atomic!Revert(job[k].cfg, job[k].origin, job[k].note)
    BY <1>5, <1>7, <1>9, <1>10, <1>13 DEF Atomic!Revert, Atomic!Entry
  <2> QED
    BY <1>4, <1>13, <2>1 DEF AtomicStep, Atomic!Next
<1> QED
  BY <1>1, <1>11, <1>12, <1>13 DEF Job, Notes

\* Discards and imports are seen when the file is rewritten.
LEMMA DiscardIsAtomic ==
  ASSUME OneCaller, TypeOK, CarriesChecked, NEW k \in Callers,
         ClearRaw(k) \/ Load(k) \/ ClearTable(k) \/ FillTable(k) \/ Rewrite(k)
  PROVE  AtomicStep
<1> USE DEF draftVars, boundVars, At
<1> DEFINE Here == {"clear", "load", "empty", "fill", "draft"}
<1>1. /\ job[k] # Idle /\ job[k] \in Job /\ job \in [Callers -> Job \cup {Idle}]
      /\ job[k].stage \in {"clear", "load", "empty", "fill", "rewrite"}
  BY JobTyped DEF TypeOK, ClearRaw, Load, ClearTable, FillTable, Rewrite
<1>2. Belongs(k) /\ Carries(k)
  BY <1>1 DEF CarriesChecked
<1>3. UNCHANGED history
  BY DEF ClearRaw, Load, ClearTable, FillTable, Rewrite
<1>4. LiveOf(k) = file
  BY <1>1 DEF LiveOf, InDoubt
<1>5. job[k].stage # "clear" => job[k].op \in {"discard", "import"}
  BY <1>1, <1>2 DEF Belongs, Job
<1>6. CASE job'[k] = Idle
  <2>1. LiveOf(k)' = file' /\ BusyOf(k)' = "nothing"
    BY <1>6 DEF LiveOf, InDoubt, BusyOf, Publishing, Discarding
  <2>2. CASE UNCHANGED file
    BY <1>3, <1>4, <2>1, <2>2, Quits
  <2>3. CASE file' # file
    <3>1. Rewrite(k) /\ file' = job[k].cfg
      BY <2>3 DEF ClearRaw, Load, ClearTable, FillTable, Rewrite
    <3>2. job[k].stage = "rewrite"
      BY <3>1 DEF Rewrite
    <3>3. job[k].op = "discard" /\ job[k].cfg \in Contents
      BY <1>1, <1>2, <3>2 DEF Belongs, Carries, Job
    <3>4. Busy = "discarding"
      BY <1>1, <3>3, OneIsSeen DEF BusyOf, Publishing, Discarding
    <3>5. Atomic!Rewrite(job[k].cfg)
      BY <1>3, <2>1, <3>1, <3>4, OneIsSeen DEF Atomic!Rewrite
    <3> QED
      BY <3>3, <3>5 DEF AtomicStep, Atomic!Next
  <2> QED
    BY <2>2, <2>3
<1>7. CASE job'[k] # Idle
  <2>1. /\ job'[k].op = job[k].op /\ job'[k].stage \in Here
        /\ job[k].op \in {"discard", "import"} /\ UNCHANGED file
    <3>1. CASE ClearRaw(k)
      BY <1>1, <1>7, <3>1 DEF ClearRaw, Goto, Done, Job
    <3>2. CASE Load(k)
      <4>1. PICK c \in Contents \cup {Absent} :
              \/ Done(k)
              \/ job' = [job EXCEPT ![k].doc = ParseConfig(c), ![k].at = 2,
                                   ![k].stage = "empty"]
        BY <3>2 DEF Load, TypeOK
      <4>2. ~Done(k)
        BY <1>1, <1>7 DEF Done
      <4>3. job[k].stage = "load" /\ UNCHANGED file
        BY <3>2 DEF Load
      <4> QED
        BY <1>1, <1>5, <4>1, <4>2, <4>3 DEF Job
    <3>3. CASE ClearTable(k)
      <4>1. job[k].stage = "empty" /\ UNCHANGED file
        BY <3>3 DEF ClearTable
      <4>2. CASE job[k].at <= Len(Order)
        BY <1>1, <1>5, <3>3, <4>1, <4>2 DEF ClearTable, Job
      <4>3. CASE ~(job[k].at <= Len(Order))
        BY <1>1, <1>5, <3>3, <4>1, <4>3 DEF ClearTable, Job
      <4> QED
        BY <4>2, <4>3
    <3>4. CASE FillTable(k)
      BY <1>1, <1>5, <1>7, <3>4 DEF FillTable, Goto, Done, Job
    <3>5. CASE Rewrite(k)
      BY <1>1, <1>7, <3>5 DEF Rewrite, Done
    <3> QED
      BY <3>1, <3>2, <3>3, <3>4, <3>5
  <2>2. LiveOf(k)' = file'
    BY <1>7, <2>1 DEF LiveOf, InDoubt
  <2>3. BusyOf(k)' = BusyOf(k)
    BY <1>1, <1>7, <2>1 DEF BusyOf, Publishing, Discarding
  <2> QED
    BY <1>3, <1>4, <2>1, <2>2, <2>3, Unseen
<1> QED
  BY <1>6, <1>7

\* A request begins; an import is none of the abstract system's business.
LEMMA RequestIsAtomic ==
  ASSUME OneCaller, TypeOK, NEW k \in Callers, NEW op \in Operations, Request(k, op)
  PROVE  AtomicStep
<1>1. op \in {"publish", "rollback", "discard", "import"}
  BY BoundAssumption
<1>2. LiveOf(k) = file /\ BusyOf(k) = "nothing" /\ UNCHANGED <<file, history>>
  BY DEF Request, LiveOf, InDoubt, BusyOf, Publishing, Discarding
<1>3. job'[k] = Start(op, FirstStage[op])
  BY DEF Request, TypeOK
<1>4. job'[k].op = op /\ job'[k].stage = FirstStage[op]
  BY <1>3 DEF Start
<1>5. FirstStage[op] \in {"draft", "last", "load"}
  BY <1>1 DEF FirstStage
<1>6. LiveOf(k)' = file'
  BY <1>4, <1>5 DEF LiveOf, InDoubt
<1>7. job'[k] # Idle
  <2>1. [t \in Tables |-> {}] \in Docs /\ FirstStage[op] \in Stages
    BY <1>5 DEF Docs, Stages
  <2>2. Start(op, FirstStage[op]) \in Job
    BY <1>1, <2>1 DEF Start, Job, Origins, Notes
  <2> QED
    BY <1>3, <2>2, IdleAssumption
<1>8. CASE op = "import"
  <2>1. BusyOf(k)' = "nothing"
    BY <1>4, <1>8 DEF BusyOf, Publishing, Discarding
  <2> QED
    BY <1>2, <1>6, <2>1, Unseen
<1>9. CASE op # "import"
  <2>1. BusyOf(k)' \in {"publishing", "discarding"}
    BY <1>1, <1>4, <1>5, <1>7, <1>9 DEF BusyOf, Publishing, Discarding
  <2>2. Atomic!Begin
    BY <1>2, <1>6, <2>1, OneIsSeen DEF Atomic!Begin
  <2> QED
    BY <2>2 DEF AtomicStep, Atomic!Next
<1> QED
  BY <1>8, <1>9

\* A request that ends without a record, at a restart or because it cannot be
\* saved: what it was publishing may stay in force.
LEMMA LossIsAtomic ==
  ASSUME OneCaller, TypeOK, CarriesChecked, SerialInv, NEW k \in Callers,
         job'[k] = Idle, UNCHANGED <<file, history>>
  PROVE  AtomicStep
<1>1. job'[k] = Idle /\ UNCHANGED <<file, history>>
  OBVIOUS
<1>2. LiveOf(k)' = file /\ BusyOf(k)' = "nothing"
  BY <1>1 DEF LiveOf, InDoubt, BusyOf, Publishing, Discarding
<1>3. CASE ~InDoubt(k)
  <2>1. LiveOf(k) = file
    BY <1>3 DEF LiveOf
  <2> QED
    BY <1>1, <1>2, <2>1, Quits
<1>4. CASE InDoubt(k)
  <2>1. /\ job[k] # Idle /\ job[k] \in Job
        /\ job[k].stage \in {"reload", "restore", "rereload", "save"}
    BY <1>4, JobTyped DEF InDoubt
  <2>2. Follows(k) /\ Belongs(k) /\ Carries(k)
    BY <2>1 DEF SerialInv, FileFollowsStage, CarriesChecked
  <2>3. job[k].op \in {"publish", "rollback"}
    BY <2>1, <2>2 DEF Belongs, Job
  <2>4. job[k].cfg \in Contents
    BY <2>1, <2>2, <2>3 DEF Carries, Unpublished
  <2>5. file = job[k].cfg \/ file = job[k].backup
    BY <2>1, <2>2 DEF Follows
  <2>6. Live = job[k].backup /\ Busy = "publishing"
    BY <1>4, <2>1, <2>3, OneIsSeen DEF LiveOf, BusyOf, Publishing
  <2>7. Atomic!Die(job[k].cfg)
    BY <1>1, <1>2, <2>5, <2>6, OneIsSeen DEF Atomic!Die
  <2> QED
    BY <2>4, <2>7 DEF AtomicStep, Atomic!Next
<1> QED
  BY <1>3, <1>4

\* What leaves requests, file and history alone is not seen.
LEMMA OthersAreUnseen ==
  ASSUME UNCHANGED <<job, file, history>>
  PROVE  AtomicStep
BY DEF AtomicStep, Live, Doubtful, Busy, InDoubt, Publishing, Discarding

\* Without callers nothing is in flight, and only drafts change.
LEMMA NoCallers ==
  ASSUME Callers = {}, UNCHANGED <<file, history>>
  PROVE  AtomicStep
BY DEF AtomicStep, Live, Busy

\* Every step is a step of the abstract specification, or not seen by it.
LEMMA StepIsAtomic ==
  ASSUME OneCaller, IInv, SerialInv, IInv', [Next]_vars
  PROVE  [Atomic!Next]_<<Live, history, Busy>>
<1> SUFFICES AtomicStep
  BY DEF AtomicStep
<1> USE DEF IInv
<1>1. ASSUME NEW k \in Callers, Step(k)
      PROVE  AtomicStep
  <2>1. CASE SaveFails(k)
    <3>1. job'[k] = Idle /\ UNCHANGED <<file, history>>
      BY <2>1 DEF SaveFails, Done, TypeOK
    <3> QED
      BY <3>1, LossIsAtomic
  <2> QED
    BY <1>1, <2>1, PrepareIsUnseen, ReplaceIsUnseen, SaveIsAtomic, DiscardIsAtomic DEF Step
<1>2. CASE \E k \in Callers, op \in Operations : Request(k, op)
  BY <1>2, RequestIsAtomic
<1>3. CASE Crash
  <2>1. CASE Callers = {}
    BY <1>3, <2>1, NoCallers DEF Crash
  <2>2. CASE Callers # {}
    <3>1. PICK k \in Callers : TRUE
      BY <2>2
    <3>2. job'[k] = Idle /\ UNCHANGED <<file, history>>
      BY <1>3 DEF Crash
    <3> QED
      BY <3>2, LossIsAtomic
  <2> QED
    BY <2>1, <2>2
<1>4. CASE \/ \E t \in Tables, rows \in SUBSET Items : EditTable(t, rows)
           \/ \E x \in Texts \cup {NoText} : EditRaw(x)
           \/ MihomoRestart \/ UNCHANGED vars
  <2>1. UNCHANGED <<job, file, history>>
    BY <1>4 DEF EditTable, EditRaw, MihomoRestart, vars
  <2> QED
    BY <2>1, OthersAreUnseen
<1> QED
  BY <1>1, <1>2, <1>3, <1>4 DEF Next, Environment

\* One administrator's publishes are atomic, whatever fails, whatever is
\* edited meanwhile and whenever mihomo or the control plane restarts.
THEOREM PublishesAtomically ==
  ASSUME OneCaller
  PROVE  Spec => PublishIsAtomic
<1>1. Init => Atomic!Init
  <2> SUFFICES ASSUME Init
               PROVE  Atomic!Init
    OBVIOUS
  <2>1. \A k \in Callers : ~InDoubt(k) /\ ~Publishing(k) /\ ~Discarding(k)
    BY DEF Init, InDoubt, Publishing, Discarding
  <2>2. Live = file /\ Busy = "nothing"
    BY <2>1 DEF Live, Busy
  <2>3. file \in Contents \cup {Absent} /\ history = <<>>
    BY TableAssumption DEF Init
  <2> QED
    BY <2>2, <2>3 DEF Atomic!Init
<1>2. IInv /\ SerialInv /\ IInv' /\ [Next]_vars => [Atomic!Next]_<<Live, history, Busy>>
  BY StepIsAtomic
<1> QED
  BY <1>1, <1>2, Invariance, VersionsAreCounted, PTL
    DEF Spec, PublishIsAtomic, Atomic!Spec, Atomic!publishVars
=============================================================================
