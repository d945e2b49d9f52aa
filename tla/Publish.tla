------------------------------ MODULE Publish ------------------------------
(***************************************************************************)
(* Publishing: internal/service/publish_service.go and the handlers that   *)
(* share the draft and the configuration file with it, publish.go,         *)
(* import_handler.go, settings.go (raw draft) and system_config.go.        *)
(*                                                                         *)
(* The draft is the entity tables plus the system configuration, or a raw  *)
(* text that takes precedence over both.  A publish renders it, replaces   *)
(* the file, asks mihomo to reload it, restores the previous file when the *)
(* reload fails, and records the outcome.  No lock orders these calls, and *)
(* each call is a sequence of single statements.                           *)
(*                                                                         *)
(* Abstractions.  A table is the set of its entities, a rendered YAML text *)
(* is the function from tables to sets it was rendered from (rendering and *)
(* parsing such a text are inverse), any other text is a value of Texts.   *)
(* Deleting the listed rows of a table one by one is one step.  Records    *)
(* get the order of their insertion, and all of them are of one day.       *)
(***************************************************************************)
EXTENDS Naturals, Sequences, FiniteSets

CONSTANTS
  Order,        \* the tables in statement order; the system configuration first
  Named,        \* tables whose rows have unique names
  Items,        \* what a table can hold
  Texts,        \* raw texts of the YAML editor
  Parse,        \* text |-> its tables, or NoDoc when it is not parsable
  Accepted,     \* texts and documents mihomo accepts
  Valid,        \* documents without error-level structural issues
  NoText, NoDoc, Absent, Down, Idle,
  Callers,      \* requests that can be in flight
  Operations,   \* which requests are made
  MaxEdits,     \* bound: draft edits
  MaxRequests,  \* bound: requests
  MaxFaults,    \* bound: failed writes, reloads and records that nothing explains
  MaxCrashes    \* bound: restarts of the control plane

Tables == {Order[i] : i \in 1..Len(Order)}
System == Order[1]
Docs == [Tables -> SUBSET Items]
Contents == Docs \cup Texts

ASSUME TableAssumption ==
  /\ Order \in Seq(Tables) /\ Order # <<>>
  /\ Parse \in [Texts -> Docs \cup {NoDoc}]
  /\ Accepted \subseteq Contents /\ Valid \subseteq Docs
ASSUME TextAssumption ==
  /\ Docs \cap Texts = {} /\ NoDoc \notin Docs
  /\ {NoText, Absent, Down} \cap Contents = {} /\ Absent # Down
ASSUME BoundAssumption ==
  /\ Operations \subseteq {"publish", "rollback", "discard", "import"}
  /\ MaxEdits \in Nat /\ MaxRequests \in Nat /\ MaxFaults \in Nat /\ MaxCrashes \in Nat

VARIABLES
  db,      \* table |-> its rows
  raw,     \* raw_config_draft
  file,    \* the configuration file
  running, \* the configuration mihomo runs, Down when it does not run
  history, \* publish_history by created_at
  job,     \* caller |-> its request
  edits, requests, faults, crashes

draftVars == <<db, raw>>
boundVars == <<edits, requests, faults, crashes>>
vars == <<db, raw, file, running, history, job, edits, requests, faults, crashes>>

-----------------------------------------------------------------------------
ParseConfig(c) == IF c \in Docs THEN c ELSE Parse[c]

At(k, stage) == job[k] # Idle /\ job[k].stage = stage
Goto(k, stage) == job' = [job EXCEPT ![k].stage = stage]
Done(k) == job' = [job EXCEPT ![k] = Idle]

\* A request record: the position in Order of the next table, the tables read
\* or parsed so far, the text to publish and its source, the backup of the
\* file (Absent when there was none), the outcome.
Start(op, stage) ==
  [op |-> op, stage |-> stage, at |-> 1, doc |-> [t \in Tables |-> {}],
   cfg |-> Absent, origin |-> "tables", version |-> 0, backup |-> Absent,
   status |-> "failed", note |-> "none"]

FirstStage == [publish |-> "draft", rollback |-> "last", discard |-> "load",
               import |-> "load"]

Init ==
  /\ db \in Docs /\ raw = NoText
  /\ file \in Accepted \cup {Absent} /\ running = file
  /\ history = <<>>
  /\ job = [k \in Callers |-> Idle]
  /\ edits = 0 /\ requests = 0 /\ faults = 0 /\ crashes = 0

Request(k, op) ==
  /\ job[k] = Idle /\ op \in Operations
  /\ requests < MaxRequests /\ requests' = requests + 1
  /\ job' = [job EXCEPT ![k] = Start(op, FirstStage[op])]
  /\ UNCHANGED <<draftVars, file, running, history, edits, faults, crashes>>

\* A failure of the disk, of the controller or of the history table.
Fault == faults < MaxFaults /\ faults' = faults + 1
NoFault == UNCHANGED faults

-----------------------------------------------------------------------------
(* renderDraft, by Publish and at the end of Discard. *)

Render(k, c, from) ==
  job' = [job EXCEPT ![k].cfg = c, ![k].origin = from,
                     ![k].stage = IF job[k].op = "discard" THEN "rewrite" ELSE "check"]

\* The raw draft takes precedence over the tables.
RenderRaw(k) ==
  /\ At(k, "draft")
  /\ IF raw # NoText
     THEN Render(k, raw, "raw")
     ELSE job' = [job EXCEPT ![k].stage = "tables", ![k].at = 1]
  /\ UNCHANGED <<draftVars, file, running, history, boundVars>>

RenderTable(k) ==
  /\ At(k, "tables") /\ job[k].at <= Len(Order)
  /\ LET t == Order[job[k].at]
     IN job' = [job EXCEPT ![k].doc[t] = db[t], ![k].at = @ + 1]
  /\ UNCHANGED <<draftVars, file, running, history, boundVars>>

RenderDone(k) ==
  /\ At(k, "tables") /\ job[k].at > Len(Order)
  /\ Render(k, job[k].doc, "tables")
  /\ UNCHANGED <<draftVars, file, running, history, boundVars>>

-----------------------------------------------------------------------------
(* Publish and Rollback. *)

PassesDraftNow(k) == job[k].origin = "raw" \/ db \in Valid

\* Structural validation, of the slices that were rendered; 422 on an error.
\* A raw draft is not validated.
Passes(k) == job[k].origin = "raw" \/ job[k].cfg \in Valid

Check(k) ==
  /\ At(k, "check")
  /\ IF Passes(k) THEN Goto(k, "version") ELSE Done(k)
  /\ UNCHANGED <<draftVars, file, running, history, boundVars>>

\* GetLastSuccess, or an error when there is none.
RollbackLast(k) ==
  /\ At(k, "last")
  /\ \/ \E i \in 1..Len(history) :
          /\ history[i].status = "success"
          /\ \A j \in i + 1..Len(history) : history[j].status # "success"
          /\ job' = [job EXCEPT ![k].cfg = history[i].cfg, ![k].origin = "history",
                                ![k].stage = "version"]
     \/ /\ \A i \in 1..Len(history) : history[i].status # "success"
        /\ Done(k)
  /\ UNCHANGED <<draftVars, file, running, history, boundVars>>

CountOfSuccesses == Cardinality({i \in 1..Len(history) : history[i].status = "success"}) + 1

\* The number of today's records, plus one.
NextVersion == Len(history) + 1

TakeVersion(k) ==
  /\ At(k, "version")
  /\ job' = [job EXCEPT ![k].version = NextVersion, ![k].stage = "backup"]
  /\ UNCHANGED <<draftVars, file, running, history, boundVars>>

Backup(k) ==
  /\ At(k, "backup")
  /\ job' = [job EXCEPT ![k].backup = file, ![k].stage = "write"]
  /\ UNCHANGED <<draftVars, file, running, history, boundVars>>

\* WriteConfigFile replaces the file or leaves it alone; a failure ends the
\* request without a record.
WriteNew(k) ==
  /\ At(k, "write")
  /\ \/ file' = job[k].cfg /\ Goto(k, "reload") /\ NoFault
     \/ Fault /\ Done(k) /\ UNCHANGED file
  /\ UNCHANGED <<draftVars, running, history, edits, requests, crashes>>

\* mihomo reads the file when it is asked to; it keeps what it runs when it
\* rejects the file.
CanReload == running # Down /\ file \in Accepted
ReloadConfig == CanReload /\ running' = file /\ NoFault
ReloadFails ==
  \/ ~CanReload /\ UNCHANGED running /\ NoFault
  \/ Fault /\ running' \in {running} \cup (IF CanReload THEN {file} ELSE {})

Reload(k) ==
  /\ At(k, "reload")
  /\ \/ /\ ReloadConfig
        /\ job' = [job EXCEPT ![k].status = "success", ![k].stage = "save"]
     \/ ReloadFails /\ Goto(k, "restore")
  /\ UNCHANGED <<draftVars, file, history, edits, requests, crashes>>

RestoredFromHistory(k) ==
  IF history = <<>> THEN Absent ELSE history[Len(history)].cfg

\* The backup is written back, or the file removed when there was none.
Restored(k) == job[k].backup

Restore(k) ==
  /\ At(k, "restore")
  /\ \/ /\ ~(job[k].backup = Absent /\ file = Absent)
        /\ file' = Restored(k)
        /\ Goto(k, IF job[k].backup = Absent THEN "save" ELSE "rereload")
        /\ NoFault
     \/ /\ \/ Fault
           \/ job[k].backup = Absent /\ file = Absent /\ NoFault
        /\ job' = [job EXCEPT ![k].note = "restore", ![k].stage = "save"]
        /\ UNCHANGED file
  /\ UNCHANGED <<draftVars, running, history, edits, requests, crashes>>

Rereload(k) ==
  /\ At(k, "rereload")
  /\ \/ ReloadConfig /\ Goto(k, "save")
     \/ /\ ReloadFails
        /\ job' = [job EXCEPT ![k].note = "reload", ![k].stage = "save"]
  /\ UNCHANGED <<draftVars, file, history, edits, requests, crashes>>

\* A successful Publish goes on to clear the raw draft.
Save(k) ==
  /\ At(k, "save")
  /\ history' = Append(history, [version |-> job[k].version, cfg |-> job[k].cfg,
                                 status |-> job[k].status, note |-> job[k].note,
                                 origin |-> job[k].origin])
  /\ IF job[k].op = "publish" /\ job[k].status = "success"
     THEN Goto(k, "clear") ELSE Done(k)
  /\ UNCHANGED <<draftVars, file, running, boundVars>>

\* The record cannot be saved: the request ends with an error, whatever it
\* wrote and reloaded.
SaveFails(k) ==
  /\ At(k, "save")
  /\ Fault /\ Done(k)
  /\ UNCHANGED <<draftVars, file, running, history, edits, requests, crashes>>

\* ClearRawConfigDraft, at the end of Publish and inside Discard.
ClearRaw(k) ==
  /\ At(k, "clear")
  /\ raw' = NoText
  /\ IF job[k].op = "discard" THEN Goto(k, "draft") ELSE Done(k)
  /\ UNCHANGED <<db, file, running, history, boundVars>>

-----------------------------------------------------------------------------
(* Discard and Import. *)

\* Discard reads the configured file, Import that one or any other.
Load(k) ==
  /\ At(k, "load")
  /\ \E c \in {file} \cup (IF job[k].op = "import" THEN Contents ELSE {}) :
       IF c = Absent \/ ParseConfig(c) = NoDoc
       THEN Done(k)
       ELSE job' = [job EXCEPT ![k].doc = ParseConfig(c), ![k].at = 2,
                               ![k].stage = "empty"]
  /\ UNCHANGED <<draftVars, file, running, history, boundVars>>

\* clearAll: the entity tables one after the other.
ClearTable(k) ==
  /\ At(k, "empty")
  /\ IF job[k].at <= Len(Order)
     THEN /\ db' = [db EXCEPT ![Order[job[k].at]] = {}]
          /\ job' = [job EXCEPT ![k].at = @ + 1]
     ELSE /\ job' = [job EXCEPT ![k].at = 2, ![k].stage = "fill"]
          /\ UNCHANGED db
  /\ UNCHANGED <<raw, file, running, history, boundVars>>

\* An import stops at a row whose name was taken meanwhile; a discard skips it.
Clashes(k, t) ==
  job[k].op = "import" /\ t \in Named /\ db[t] \cap job[k].doc[t] # {}
Fill(t, rows) == db' = [db EXCEPT ![t] = @ \cup rows]

\* The parsed rows are added table by table, then the system configuration
\* is replaced if the text had one.
FillTable(k) ==
  /\ At(k, "fill")
  /\ LET t == Order[job[k].at]
     IN \/ /\ job[k].at <= Len(Order) /\ ~Clashes(k, t)
           /\ Fill(t, job[k].doc[t])
           /\ job' = [job EXCEPT ![k].at = @ + 1]
        \/ /\ job[k].at <= Len(Order) /\ Clashes(k, t)
           /\ \E rows \in SUBSET (job[k].doc[t] \ db[t]) : Fill(t, rows)
           /\ Done(k)
        \/ /\ job[k].at > Len(Order)
           /\ db' = IF job[k].doc[System] # {}
                    THEN [db EXCEPT ![System] = job[k].doc[System]] ELSE db
           /\ IF job[k].op = "discard" THEN Goto(k, "clear") ELSE Done(k)
  /\ UNCHANGED <<raw, file, running, history, boundVars>>

\* Discard overwrites the file with what renderDraft returned.
Rewrite(k) ==
  /\ At(k, "rewrite")
  /\ \/ file' = job[k].cfg /\ NoFault
     \/ Fault /\ UNCHANGED file
  /\ Done(k)
  /\ UNCHANGED <<draftVars, running, history, edits, requests, crashes>>

-----------------------------------------------------------------------------
(* Editors, mihomo, restarts. *)

Edit == edits < MaxEdits /\ edits' = edits + 1

\* A row is created, changed or deleted; the system configuration is put.
EditTable(t, rows) ==
  /\ Edit
  /\ db[t] # rows /\ db' = [db EXCEPT ![t] = rows]
  /\ UNCHANGED <<raw, file, running, history, job, requests, faults, crashes>>

\* PUT and DELETE of the raw draft.
EditRaw(x) ==
  /\ Edit
  /\ raw # x /\ raw' = x
  /\ UNCHANGED <<db, file, running, history, job, requests, faults, crashes>>

\* mihomo restarts on the file it finds.
MihomoRestart ==
  /\ running' = IF file \in Accepted \cup {Absent} THEN file ELSE Down
  /\ UNCHANGED <<draftVars, file, history, job, boundVars>>

\* The control plane dies: its requests are gone, all else is durable.
Crash ==
  /\ crashes < MaxCrashes /\ crashes' = crashes + 1
  /\ job' = [k \in Callers |-> Idle]
  /\ UNCHANGED <<draftVars, file, running, history, edits, requests, faults>>

Step(k) ==
  \/ RenderRaw(k) \/ RenderTable(k) \/ RenderDone(k)
  \/ Check(k) \/ RollbackLast(k) \/ TakeVersion(k) \/ Backup(k) \/ WriteNew(k)
  \/ Reload(k) \/ Restore(k) \/ Rereload(k) \/ Save(k) \/ SaveFails(k) \/ ClearRaw(k)
  \/ Load(k) \/ ClearTable(k) \/ FillTable(k) \/ Rewrite(k)

Environment ==
  \/ \E t \in Tables, rows \in SUBSET Items : EditTable(t, rows)
  \/ \E x \in Texts \cup {NoText} : EditRaw(x)
  \/ MihomoRestart \/ Crash

Next ==
  \/ \E k \in Callers : Step(k) \/ \E op \in Operations : Request(k, op)
  \/ Environment

Spec == Init /\ [][Next]_vars

-----------------------------------------------------------------------------
(* Properties *)

Stages == {"draft", "tables", "check", "last", "version", "backup", "write",
           "reload", "restore", "rereload", "save", "clear", "load", "empty",
           "fill", "rewrite"}
Origins == {"tables", "raw", "history"}
Notes == {"none", "restore", "reload"}
Record == [version : Nat, cfg : Contents, status : {"success", "failed"},
           note : Notes, origin : Origins]
Job == [op : {"publish", "rollback", "discard", "import"}, stage : Stages, at : Nat \ {0},
        doc : Docs, cfg : Contents \cup {Absent}, origin : Origins, version : Nat,
        backup : Contents \cup {Absent}, status : {"success", "failed"}, note : Notes]
ASSUME IdleAssumption == Idle \notin Job

TypeOK ==
  /\ db \in Docs /\ raw \in Texts \cup {NoText}
  /\ file \in Contents \cup {Absent} /\ running \in Contents \cup {Absent, Down}
  /\ history \in Seq(Record)
  /\ job \in [Callers -> Job \cup {Idle}]
  /\ edits \in 0..MaxEdits /\ requests \in 0..MaxRequests
  /\ faults \in 0..MaxFaults /\ crashes \in 0..MaxCrashes

\* A configuration is in the history, and was sent to mihomo, only if exactly
\* that rendering of the tables passed the structural validation, or it is a
\* raw text, or a rollback took it from an earlier success: whatever was
\* edited, discarded, imported or published while it was rendered.
OnlyCheckedIsPublished ==
  \A i \in 1..Len(history) :
    /\ history[i].origin = "tables" => history[i].cfg \in Valid
    /\ history[i].origin = "history" =>
         \E j \in 1..i - 1 : /\ history[j].status = "success"
                             /\ history[j].cfg = history[i].cfg

Quiet == \A k \in Callers : job[k] = Idle
Latest(i) ==
  /\ history[i].status = "success"
  /\ \A j \in i + 1..Len(history) : history[j].status # "success"

\* web/src/components/publish/history-list.tsx:90 "The latest successful record
\* is the currently running one": whenever no request is in flight and mihomo
\* runs, also after failed publishes and after mihomo restarted in the middle
\* of one, on the file it found.
LatestSuccessRuns ==
  Quiet /\ running # Down =>
    \A i \in 1..Len(history) : Latest(i) => running = history[i].cfg

-----------------------------------------------------------------------------
(* Inductive invariants of the proofs. *)

Unpublished == {"draft", "tables", "check", "last", "load", "empty", "fill", "rewrite"}
EarlierSuccess(c, n) ==
  \E j \in 1..n : history[j].status = "success" /\ history[j].cfg = c

\* What a request carries past the check is a text that may be published.
Carries(k) ==
  /\ job[k].stage \in {"check", "rewrite"} =>
       job[k].cfg \in Contents /\ job[k].origin \in {"tables", "raw"}
  /\ job[k].op \in {"publish", "rollback"} /\ job[k].stage \notin Unpublished =>
       /\ job[k].cfg \in Contents
       /\ job[k].origin = "tables" => job[k].cfg \in Valid
       /\ job[k].origin = "history" => EarlierSuccess(job[k].cfg, Len(history))
Belongs(k) ==
  CASE job[k].op = "discard" -> job[k].stage \in
         {"load", "empty", "fill", "clear", "draft", "tables", "rewrite"}
    [] job[k].op = "import" -> job[k].stage \in {"load", "empty", "fill"}
    [] OTHER -> job[k].stage \notin {"load", "empty", "fill", "rewrite"}

CarriesChecked == \A k \in Callers : job[k] # Idle => Carries(k) /\ Belongs(k)

IInv == TypeOK /\ CarriesChecked /\ OnlyCheckedIsPublished

\* Versions are unique and count the records (with one publisher at a time,
\* restarts included).
VersionsCount == \A i \in 1..Len(history) : history[i].version = i

\* What the file and the history are while a request is in flight.
Follows(k) ==
  /\ job[k].stage \in {"backup", "write", "reload", "restore", "rereload", "save"}
       => job[k].version = Len(history) + 1
  /\ job[k].stage \notin {"save", "clear"} \/ job[k].op = "discard"
       => job[k].status = "failed" /\ job[k].note = "none"
  /\ job[k].stage \in {"write", "rereload"} => file = job[k].backup
  /\ job[k].stage \in {"reload", "restore"} => file = job[k].cfg
  /\ job[k].stage = "save" =>
       IF job[k].status = "success"
       THEN file = job[k].cfg /\ job[k].note = "none"
       ELSE file = IF job[k].note = "restore" THEN job[k].cfg ELSE job[k].backup
FileFollowsStage == \A k \in Callers : job[k] # Idle => Follows(k)

SerialInv == VersionsCount /\ FileFollowsStage

-----------------------------------------------------------------------------
(* One administrator's publishes are atomic. *)

\* The stages between the write and the record.
InDoubt(k) ==
  job[k] # Idle /\ job[k].stage \in {"reload", "restore", "rereload", "save"}
Publishing(k) ==
  job[k] # Idle /\ job[k].op \in {"publish", "rollback"} /\ job[k].stage # "clear"
Discarding(k) == job[k] # Idle /\ job[k].op = "discard"

Doubtful == CHOOSE k \in Callers : InDoubt(k)
Live == IF \E k \in Callers : InDoubt(k) THEN job[Doubtful].backup ELSE file
Busy == IF \E k \in Callers : Publishing(k) THEN "publishing"
        ELSE IF \E k \in Callers : Discarding(k) THEN "discarding" ELSE "nothing"

Atomic == INSTANCE AtomicPublish WITH live <- Live, log <- history, busy <- Busy

\* With one request at a time, and drafts edited meanwhile: a publish takes
\* effect when it is recorded, or leaves the file as it was; only a recorded
\* recovery failure, a discard, a crash or a record that could not be saved
\* explains any other file.
PublishIsAtomic == Atomic!Spec
=============================================================================
