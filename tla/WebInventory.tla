---------------------------- MODULE WebInventory ----------------------------
(***************************************************************************)
(* The inventory pages of the web client over the server, and the traffic  *)
(* page over its service.  The router mounts one page at a time, so each   *)
(* behaviour is that of one page; in one, no page but only traffic.        *)
(***************************************************************************)
EXTENDS ProxiesPage, GroupsPage, RulesPage, RuleProvidersPage, TrafficPage

VARIABLES
    view,        \* "inventory" (page says which), "traffic" or "counting"
    disordered   \* the server has written sort_orders that do not respect
                 \* the other rules' (observed only)

inventoryVars == <<crudVars, proxyVars, editorVars, disordered>>
vars == <<view, inventoryVars, trafficPageVars>>

Init ==
    /\ CrudInit /\ ProxiesInit /\ ProvidersInit /\ disordered = FALSE
    /\ view \in {"inventory", "traffic", "counting"} /\ (view # "inventory" => page = "groups")
    /\ TrafficPageInit(view)

Rest == <<proxyVars, editorVars, disordered>>

PageStep ==
    \/ ProxiesNext /\ UNCHANGED <<editorVars, disordered>>
    \/ (GroupsNext \/ RulesNext) /\ UNCHANGED Rest
    \/ ProvidersNext /\ UNCHANGED <<proxyVars, disordered>>

(* A save writes sort_order 0; a reorder gives the places of its list,     *)
(* beside whatever the rules have that a filter had left out of it.        *)
Disorders(c) == c.op = "save" \/ (c.op = "reorder" /\ ~(db \subseteq IdsOf(c.arg)))

ServerStep ==
    /\ Serve
    /\ disordered' = (disordered \/ \E c \in calls \ calls' : Disorders(c))
    /\ UNCHANGED <<proxyVars, editorVars>>

TrafficStep ==
    \/ view = "traffic" /\ TrafficPageNext
    \/ view = "counting" /\ CountingNext

Next ==
    \/ view = "inventory" /\ (PageStep \/ ServerStep) /\ UNCHANGED <<view, trafficPageVars>>
    \/ TrafficStep /\ UNCHANGED <<view, inventoryVars>>

Spec == Init /\ [][Next]_vars

-----------------------------------------------------------------------------
TypeOK ==
    /\ TrafficPageTypeOK
    /\ page \in Pages
    /\ db \subseteq 1..made
    /\ ord \in [Ids -> Orders]
    /\ made \in First[page]..MaxId[page]
    /\ rows \in Lists
    /\ loading \in BOOLEAN
    /\ hides \in Ids \cup {NoId}
    /\ form \in [open : BOOLEAN, editing : Ids \cup {NoId}]
    /\ confirm \in [open : BOOLEAN, about : Ids \cup {NoId}, deleting : Ids \cup {NoId}]
    /\ sent \in 0..MaxSends[page]
    /\ calls \subseteq Call
    /\ \A c, d \in calls : c.n = d.n => c = d
    /\ editor \in [open : BOOLEAN, provider : Ids \cup {NoId}, content : Ids \cup {NoId},
                   loading : BOOLEAN, saving : BOOLEAN]
    /\ loads \subseteq Loads

(* The text of the confirm dialog and the row its button deletes agree,    *)
(* whatever replies to older clicks and deletions arrive while it is open. *)
ConfirmNamesTarget == confirm.open => confirm.deleting \in {NoId, confirm.about}

(* A row that shows a running test has one: no spinner is left behind when *)
(* tests of one row overlap, when the list is unmounted under them or when *)
(* they fail.                                                              *)
SpinnerMeansTest ==
    \A k \in DOMAIN delays : delays[k] = "testing" => \E t \in tests : t.key = k /\ t.mine

(* As long as no rule was saved and no drag of a filtered list has reached *)
(* the server, drags leave the MATCH rule last there: also drags of a      *)
(* stale list, several in flight, or lost ones.                            *)
DragsKeepMatchLast ==
    (page = "rules" /\ ~disordered /\ MatchRule \in db) => Last(Listed) = MatchRule

(* The test-all button waits for something: for the list to run the tests  *)
(* of the last click, or for a test of a test-all that is still running.   *)
TestingMeansWork ==
    testing => (trigger /\ ~seen) \/ \E t \in tests : t.batch # Alone

(* The list's spinner waits for a request: every way out of a handler that *)
(* set loading clears it or fetches again.                                 *)
LoadingMeansFetch == loading => \E c \in calls : c.op = "list"

(* No spinner and no disabled button of any of these pages is left behind, *)
(* whatever fails, times out, overlaps or outlives the list it was for.    *)
NothingWaitsInVain == TestingMeansWork /\ LoadingMeansFetch /\ BusyMeansRequest

=============================================================================
