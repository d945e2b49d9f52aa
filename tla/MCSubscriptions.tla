---------------------------- MODULE MCSubscriptions ----------------------------
(* Instances of SubscriptionsPage for TLC: a native row, a traffic row and  *)
(* a provider nobody manages.  A behaviour either edits or refreshes.       *)
EXTENDS SubscriptionsPage
CONSTANTS s1, s2, np, nx, u, ta, q1, r1

Native  == [name |-> np, enabled |-> TRUE, src |-> "native", prov |-> np, tp |-> None,
            quota |-> q1, expire |-> None, reset |-> r1, snap |-> None, failure |-> None]
Traffic == [name |-> nx, enabled |-> TRUE, src |-> "traffic", prov |-> None, tp |-> ta,
            quota |-> q1, expire |-> None, reset |-> None, snap |-> None, failure |-> None]

MCInitial ==
    [subs  |-> [i \in Ids |-> IF i = s1 THEN Native ELSE IF i = s2 THEN Traffic ELSE None],
     draft |-> [n \in Names |-> IF n = nx THEN None ELSE u],
     tps   |-> [t \in Tps |-> [url |-> u, quota |-> q1, reset |-> r1]]]

Budget(t, s, o, p, r, f) ==
    [typed |-> t, saves |-> s, others |-> o, polls |-> p, refreshes |-> r, faults |-> f]

MCBudgets == {Budget(3, 1, 0, 0, 0, 0), Budget(1, 1, 1, 0, 0, 0), Budget(0, 0, 1, 0, 1, 0),
              Budget(0, 1, 0, 0, 1, 0), Budget(0, 0, 0, 0, 1, 1), Budget(0, 1, 0, 1, 0, 1)}
=============================================================================
