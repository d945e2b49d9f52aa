----------------------------- MODULE TrafficPage -----------------------------
(***************************************************************************)
(* pages/traffic.tsx over the traffic service: what it loads (all of it or *)
(* nothing) every minute and after each change, the provider dialog, the   *)
(* alert settings.  Requests overlap, fail and are answered in any order;  *)
(* one that timed out may still be executed.  What is typed in the two     *)
(* forms is chosen when it is sent.                                        *)
(***************************************************************************)
EXTENDS Traffic, Functions

CONSTANT MaxClicks  \* bound: requests of the user

Flags == {"traffic.loading", "account.saving", "notify.testing"}

ASSUME TrafficPageAssumption == MaxClicks \in Nat /\ None \notin Flags

VARIABLES
    overview,       \* the providers shown, None when there is none of that id
    accountDialog,  \* the provider dialog
    busy,           \* the loading, saving and testing flags that are set
    wire,           \* requests: [op, arg, flag, st, ans]
    clicks          \* requests the user made

shown == <<overview, accountDialog>>
clientVars == <<shown, busy, wire, clicks>>
trafficPageVars == <<clientVars, trafficVars>>

AccountDialogClosed == [open |-> FALSE, editing |-> None]

Request(op, arg, flag) == [op |-> op, arg |-> arg, flag |-> flag, st |-> "sent", ans |-> None]
Without(n) == Restrict(wire, DOMAIN wire \ {n})
With(n, r) == [m \in DOMAIN wire \cup {n} |-> IF m = n THEN r ELSE wire[m]]

-----------------------------------------------------------------------------
(* The service answers. *)

Unserved(n, op) == wire[n].op = op /\ wire[n].st \in {"sent", "lost"}
Progress(n, stage, v) ==
    wire' = IF wire[n].st = "lost" THEN Without(n)
            ELSE [wire EXCEPT ![n].st = stage, ![n].ans = v]
Answered(n, v) == Progress(n, "done", v)

(* The flush of the summary is SummaryFlush and SummaryWrite; it leaves    *)
(* what is answered alone.                                                 *)
LoadServed ==
    /\ \E n \in DOMAIN wire : Unserved(n, "load") /\ Answered(n, accounts)
    /\ UNCHANGED <<shown, busy, clicks, trafficVars>>

ChangeServed ==
    /\ \E n \in DOMAIN wire :
          LET r == wire[n] IN
          \/ Unserved(n, "createAccount") /\ Answered(n, "ok") /\ \E p \in Accounts : CreateProvider(p, r.arg)
          \/ Unserved(n, "updateAccount") /\ Answered(n, "ok") /\ UpdateProvider(r.arg.id, r.arg.row)
          \/ Unserved(n, "deleteAccount") /\ Progress(n, "deleting", None) /\ DeleteAlerts(r.arg)
          \/ Unserved(n, "putChannel") /\ Answered(n, "ok") /\ UpdateChannel(r.arg)
          \/ Unserved(n, "testNotify") /\ channel # "" /\ Answered(n, "ok") /\ UNCHANGED trafficVars
    /\ UNCHANGED <<shown, busy, clicks>>

(* The last statement of a deletion, also of one nobody waits for.         *)
DeletionServed ==
    /\ \E p \in Accounts :
          /\ DeleteRow(p)
          /\ LET Waiting == {n \in DOMAIN wire : wire[n].st = "deleting" /\ wire[n].arg = p} IN
             \/ \E n \in Waiting : Answered(n, "ok")
             \/ Waiting = {} /\ UNCHANGED wire
    /\ UNCHANGED <<shown, busy, clicks>>

-----------------------------------------------------------------------------
(* Sending and answering. *)

Sends(op, arg, flag) ==
    /\ clicks < MaxClicks /\ clicks' = clicks + 1
    /\ wire' = With(clicks', Request(op, arg, flag))
    /\ busy' = busy \cup ({flag} \ {None})

Succeeded(n, op) == wire[n].op = op /\ wire[n].st = "done"

(* Refused, or failed in the client: then it may still be on its way.      *)
Failed(n, op) ==
    /\ wire[n].op = op /\ wire[n].st # "lost"
    /\ \/ wire' = Without(n)
       \/ wire[n].st = "sent" /\ wire' = [wire EXCEPT ![n].st = "lost"]

Idle(flag) == flag \notin busy

-----------------------------------------------------------------------------
(* fetchAll. *)

(* An answer replaces what is shown (and the alert form, what was typed in *)
(* it included); the last answer wins, whatever was asked first.           *)
OverviewLoaded ==
    /\ \E n \in DOMAIN wire :
          \/ Succeeded(n, "load") /\ overview' = wire[n].ans /\ wire' = Without(n)
          \/ Failed(n, "load") /\ UNCHANGED overview
    /\ busy' = busy \ {"traffic.loading"}
    /\ UNCHANGED <<accountDialog, clicks, trafficVars>>

(* The interval, here not before its last request was answered. *)
LoadAgain ==
    /\ 0 \notin DOMAIN wire /\ wire' = With(0, Request("load", None, None))
    /\ UNCHANGED <<shown, busy, clicks, trafficVars>>

-----------------------------------------------------------------------------
(* The provider dialog. *)

Ready == Idle("traffic.loading")

AddOrEditAccount ==
    /\ Ready /\ ~accountDialog.open
    /\ \/ accountDialog' = [AccountDialogClosed EXCEPT !.open = TRUE]
       \/ \E p \in Accounts : overview[p] # None /\ accountDialog' = [open |-> TRUE, editing |-> p]
    /\ UNCHANGED <<overview, busy, wire, clicks, trafficVars>>

AccountCancelled ==
    /\ accountDialog.open
    /\ accountDialog' = AccountDialogClosed
    /\ UNCHANGED <<overview, busy, wire, clicks, trafficVars>>

(* An invalid form is not sent. *)
AccountSave ==
    /\ accountDialog.open /\ Idle("account.saving")
    /\ \E form \in Account :
          IF accountDialog.editing = None THEN Sends("createAccount", form, "account.saving")
          ELSE Sends("updateAccount", [id |-> accountDialog.editing, row |-> form], "account.saving")
    /\ UNCHANGED <<shown, trafficVars>>

LoadsAfter(n) == wire' = [wire EXCEPT ![n] = Request("load", None, None)]

(* Closes the dialog, whatever it is open for by then, and loads again. *)
ClosesAndLoads(n) == LoadsAfter(n) /\ accountDialog' = AccountDialogClosed

AccountSaved ==
    /\ \E n \in DOMAIN wire, op \in {"createAccount", "updateAccount"} :
          \/ Succeeded(n, op) /\ ClosesAndLoads(n)
          \/ Failed(n, op) /\ UNCHANGED accountDialog
    /\ busy' = busy \ {"account.saving"}
    /\ UNCHANGED <<overview, clicks, trafficVars>>

AccountDelete ==
    /\ accountDialog.open /\ accountDialog.editing # None
    /\ Sends("deleteAccount", accountDialog.editing, None)
    /\ UNCHANGED <<shown, trafficVars>>

AccountDeleted ==
    /\ \E n \in DOMAIN wire :
          \/ Succeeded(n, "deleteAccount") /\ ClosesAndLoads(n)
          \/ Failed(n, "deleteAccount") /\ UNCHANGED accountDialog
    /\ UNCHANGED <<overview, busy, clicks, trafficVars>>

-----------------------------------------------------------------------------
(* The alert settings. *)

ChannelSave ==
    /\ Ready /\ \E c \in {"", "ntfy"} : Sends("putChannel", c, None)
    /\ UNCHANGED <<shown, trafficVars>>

ChannelSaved ==
    /\ \E n \in DOMAIN wire :
          (Succeeded(n, "putChannel") /\ LoadsAfter(n)) \/ Failed(n, "putChannel")
    /\ UNCHANGED <<shown, busy, clicks, trafficVars>>

(* Enabled when a channel is chosen in the form, saved or not. *)
TestNotify ==
    /\ Ready /\ Idle("notify.testing")
    /\ Sends("testNotify", None, "notify.testing")
    /\ UNCHANGED <<shown, trafficVars>>

NotifyTested ==
    /\ \E n \in DOMAIN wire : (Succeeded(n, "testNotify") /\ wire' = Without(n)) \/ Failed(n, "testNotify")
    /\ busy' = busy \ {"notify.testing"}
    /\ UNCHANGED <<shown, clicks, trafficVars>>

-----------------------------------------------------------------------------
FirstLoad == [n \in {0} |-> Request("load", None, "traffic.loading")]
NoOverview == [p \in Accounts |-> None]

(* A restart ends every session and what was under way: the page goes to   *)
(* the login (Session) and is opened again.                                *)
PageReopened ==
    /\ wire' = FirstLoad /\ busy' = {"traffic.loading"}
    /\ overview' = NoOverview /\ accountDialog' = AccountDialogClosed
    /\ UNCHANGED clicks

(* The quota is used up when the page is opened.  Where only traffic is    *)
(* counted it is not yet touched, and there is a provider to warn about.   *)
TrafficPageInit(which) ==
    /\ overview = NoOverview /\ accountDialog = AccountDialogClosed /\ clicks = 0
    /\ wire = (IF which = "traffic" THEN FirstLoad ELSE << >>)
    /\ busy = {wire[n].flag : n \in DOMAIN wire}
    /\ TrafficInit
    /\ which = "counting" => /\ moved = [n \in Nodes |-> 0] /\ channel # ""
                             /\ \A p \in Accounts : Exists(p) /\ accounts[p].enabled
    /\ which # "counting" => moved = [n \in Nodes |-> MaxMoved]
    /\ which \notin {"traffic", "counting"} => channel = "" /\ \A p \in Accounts : ~Exists(p)

(* Traffic is counted, while others load the page now and then. *)
CountingNext ==
    /\ \/ ConnOpens \/ ConnMoves \/ ConnCloses \/ LoopNext \/ NextCycle \/ Restart
       \/ SummaryFlush \/ SummaryWrite
    /\ UNCHANGED clientVars

(* The page is used while quotas are checked. *)
TrafficPageNext ==
    \/ CheckNext /\ UNCHANGED clientVars
    \/ Restart /\ PageReopened
    \/ LoadServed \/ OverviewLoaded \/ LoadAgain
    \/ ChangeServed \/ DeletionServed
    \/ AddOrEditAccount \/ AccountCancelled \/ AccountSave \/ AccountSaved
    \/ AccountDelete \/ AccountDeleted
    \/ ChannelSave \/ ChannelSaved \/ TestNotify \/ NotifyTested

TrafficPageTypeOK ==
    /\ TrafficTypeOK
    /\ overview \in [Accounts -> Account \cup {None}]
    /\ accountDialog.editing \in Accounts \cup {None}

(* A spinner or a disabled button of the page waits for a request that is  *)
(* still out.                                                              *)
BusyMeansRequest == \A f \in busy : \E n \in DOMAIN wire : wire[n].flag = f /\ wire[n].st # "lost"
=============================================================================
