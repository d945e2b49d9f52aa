--------------------------- MODULE AtomicPublish ---------------------------
(***************************************************************************)
(* What publishing promises to one administrator, without tables, drafts,  *)
(* backups or reloads: a publish puts a configuration in force and records *)
(* it in one step, or records a failure and leaves the configuration in    *)
(* force alone.  Only a failed recovery, which the record tells, a discard *)
(* and an end without a record, because the process dies or the history    *)
(* cannot be written, escape that rule.  Versions count the records.       *)
(***************************************************************************)
EXTENDS Naturals, Sequences

CONSTANTS
  Contents,  \* texts of a configuration file
  Origins,   \* where a configuration to publish comes from
  Absent     \* there is no file

VARIABLES
  live,  \* the configuration in force
  log,   \* the publish history
  busy   \* what is going on

publishVars == <<live, log, busy>>

Entry(c, o, status, note) ==
  [version |-> Len(log) + 1, cfg |-> c, status |-> status, note |-> note, origin |-> o]

Init == live \in Contents \cup {Absent} /\ log = <<>> /\ busy = "nothing"

Begin ==
  /\ busy = "nothing"
  /\ busy' \in {"publishing", "discarding"}
  /\ UNCHANGED <<live, log>>

\* Refused, not found, or an error before anything was written.
Quit == busy' = "nothing" /\ UNCHANGED <<live, log>>

Commit(c, o) ==
  /\ busy = "publishing"
  /\ live' = c
  /\ log' = Append(log, Entry(c, o, "success", "none"))
  /\ busy' = "nothing"

\* note tells whether the controller took the restored file back.
Revert(c, o, note) ==
  /\ busy = "publishing"
  /\ log' = Append(log, Entry(c, o, "failed", note))
  /\ busy' = "nothing"
  /\ UNCHANGED live

\* The failed configuration could not be taken back, and the record says so.
Stick(c, o) ==
  /\ busy = "publishing"
  /\ live' = c
  /\ log' = Append(log, Entry(c, o, "failed", "restore"))
  /\ busy' = "nothing"

Rewrite(c) ==
  /\ busy = "discarding"
  /\ live' = c /\ busy' = "nothing"
  /\ UNCHANGED log

\* The process dies, or the record cannot be saved: what it was publishing may
\* be in force, unrecorded.
Die(c) ==
  /\ busy = "publishing"
  /\ live' \in {c, live, Absent} /\ busy' = "nothing"
  /\ UNCHANGED log

Next ==
  \/ Begin \/ Quit
  \/ \E c \in Contents : Rewrite(c) \/ Die(c)
  \/ \E c \in Contents, o \in Origins :
       Commit(c, o) \/ Stick(c, o) \/ Revert(c, o, "none") \/ Revert(c, o, "reload")

Spec == Init /\ [][Next]_publishVars
=============================================================================
