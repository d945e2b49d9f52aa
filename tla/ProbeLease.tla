----------------------------- MODULE ProbeLease -----------------------------
(***************************************************************************)
(* What the durable score queue promises about probes, without rows,       *)
(* scans, batches or configurations: a probe token is leased to one node   *)
(* at a time, and the durable mark "testing" of a node is backed by a      *)
(* lease except between a restart and the recovery pass.  Anyone may take  *)
(* a mark away (an edit, a manual refresh, a deletion); only taking a      *)
(* lease sets one.                                                         *)
(***************************************************************************)
CONSTANTS
  Tokens,  \* what a lease is taken with
  Items,   \* what is leased
  None     \* not an item

VARIABLES
  holder,     \* token |-> the item it is leased to
  marked,     \* items durably marked as under test
  recovering  \* the marks may be left over from a previous process

leaseVars == <<holder, marked, recovering>>

Held == {holder[t] : t \in Tokens} \ {None}

Init ==
  /\ holder = [t \in Tokens |-> None]
  /\ marked = {}
  /\ recovering = TRUE

\* Two leases of one item are impossible, and so is a lease before recovery.
Acquire(t, i) ==
  /\ ~recovering
  /\ holder[t] = None /\ i \notin Held
  /\ holder' = [holder EXCEPT ![t] = i]
  /\ marked' = marked \cup {i}
  /\ UNCHANGED recovering

\* The outcome replaces the mark.
Release(t) ==
  /\ holder[t] # None
  /\ holder' = [holder EXCEPT ![t] = None]
  /\ marked' = marked \ {holder[t]}
  /\ UNCHANGED recovering

Unmark(S) ==
  /\ marked' = marked \ S
  /\ UNCHANGED <<holder, recovering>>

Restart ==
  /\ holder' = [t \in Tokens |-> None]
  /\ recovering' = TRUE
  /\ UNCHANGED marked

Recover ==
  /\ recovering
  /\ marked' = {}
  /\ recovering' = FALSE
  /\ UNCHANGED holder

Next ==
  \/ \E t \in Tokens : Release(t) \/ \E i \in Items : Acquire(t, i)
  \/ \E S \in SUBSET Items : Unmark(S)
  \/ Restart \/ Recover

Spec == Init /\ [][Next]_leaseVars
=============================================================================
