--------------------------- MODULE MCWebInventory ---------------------------
(* Bounds per page: the rules page starts with two rules and MATCH, which  *)
(* is last but not the newest, the proxies page with one proxy and, once   *)
(* the runtime API has answered, one node of a subscription.               *)
EXTENDS WebInventory

MCMaxId    == [p \in Pages |-> IF p = "rules" THEN 3 ELSE 2]
MCFirst    == [p \in Pages |-> IF p = "rules" THEN 3 ELSE IF p = "providers" THEN 2 ELSE 1]
MCFirstOrd == [p \in Pages |-> IF p = "rules" THEN <<0, 2, 1>> ELSE <<0, 1, 0>>]
MCMaxSends == [p \in Pages |-> IF p = "proxies" THEN 2 ELSE 3]
MCHideable == [p \in {"rules", "groups"} |-> IF p = "rules" THEN {1, 2} ELSE {1}]
MCMaxCalls == [p \in Pages |-> IF p \in {"rules", "groups"} THEN 2 ELSE 1]

MCInventories == {<<[name |-> "sub", status |-> "ok", nodes |-> <<[id |-> <<10>>, name |-> 10]>>]>>}
=============================================================================
