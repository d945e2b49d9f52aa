------------------------- MODULE SubscriptionsPage -------------------------
(***************************************************************************)
(* pages/subscriptions.tsx over the server of Subscriptions: the polled    *)
(* lists, the form, the confirm dialog and the refresh buttons, beside     *)
(* another administrator, the traffic page, the draft editor and the       *)
(* background refreshes.                                                   *)
(***************************************************************************)
EXTENDS SubscriptionForm, Integers

CONSTANTS
    Initial,     \* what the server holds when the page mounts: [subs, draft, tps]
    Budgets      \* bounds of one behaviour: [typed, saves, others, polls, refreshes, faults]

Left == [typed : Nat, saves : Nat, others : Nat, polls : Nat, refreshes : Nat, faults : Nat]

(* The page mounts on a server that has run: what it holds is typed, and   *)
(* is as the invariants of Subscriptions say.  "all" is the page's own     *)
(* name for the refresh of every row, and never the id of one.             *)
ASSUME PageAssumption ==
    /\ "all" \notin Ids
    /\ Budgets \subseteq Left
    /\ Initial.subs \in [Ids -> Sub \cup {None}]
    /\ Initial.draft \in [Names -> Urls \cup {None}]
    /\ Initial.tps \in [Tps -> Tp \cup {None}]
    /\ \A i \in Ids : Initial.subs[i] # None =>
          LET s == Initial.subs[i] IN
          /\ s.prov = None <=> s.src = "traffic"
          /\ s.src = "traffic" => s.snap \in {None, s.tp} /\ s.failure \in {None, s.tp}
          /\ \A j \in Ids \ {i} : Initial.subs[j] # None =>
                LET o == Initial.subs[j] IN
                /\ s.src = "native" => s.prov # o.prov
                /\ s.src = "traffic" /\ o.src = "traffic" => s.tp # o.tp

VARIABLES
    seen,        \* client: the lists as last set: [subs, links, tps]
    phase,       \* client: "loading", "error" or "shown"
    form,        \* client: the form dialog
    saving,      \* client: the form's saving flag
    save,        \* the save request, from its click to its reply
    deleting,    \* client: the row the confirm dialog is about
    removal,     \* deletions in flight
    gets,        \* fetchAll calls in flight
    refreshing,  \* client: the rows whose refresh button spins
    asks,        \* refresh requests in flight
    left         \* what is left of the bounds

formVars == <<form, saving, save>>
deleteVars == <<deleting, removal>>
listVars == <<seen, phase, gets>>
askVars == <<refreshing, asks>>
clientVars == <<listVars, formVars, deleteVars, askVars>>
vars == <<serverVars, clientVars, left>>

Spend(what) == left[what] > 0 /\ left' = [left EXCEPT ![what] = @ - 1]
NothingSpent == UNCHANGED left

Lists == [subs |-> subs, links |-> Links(subs, draft), tps |-> tps]

(* providers() and trafficApi.providers() are caught: a failed one gives   *)
(* an empty list.                                                          *)
NoLinks == [p \in Names |-> Absent]
NoTps   == [t \in Tps |-> None]

NoDialog == ~form.open /\ deleting = None
CardShown(i) == phase = "shown" /\ seen.subs[i] # None

-----------------------------------------------------------------------------
(* fetchAll: the poll of 60 s, and after a save, a deletion or a refresh.  *)
(* The three lists are taken to be read at one time.                       *)

Get(who) == [who |-> who, lists |-> None]

Poll ==
    /\ Spend("polls")
    /\ \A g \in gets : g.who # "poll"
    /\ gets' = gets \cup {Get("poll")}
    /\ UNCHANGED <<serverVars, seen, phase, formVars, deleteVars, askVars>>

ServeGet ==
    /\ \E g \in gets :
          /\ g.lists = None
          /\ \E links \in {Lists.links, NoLinks}, ts \in {tps, NoTps} :
                /\ gets' = (gets \ {g}) \cup {[g EXCEPT !.lists = [subs |-> subs, links |-> links, tps |-> ts]]}
                /\ IF links = Lists.links /\ ts = tps THEN NothingSpent ELSE Spend("faults")
    /\ UNCHANGED <<serverVars, seen, phase, formVars, deleteVars, askVars>>

(* The reply, or the error that is caught; then what awaited it goes on:   *)
(* save resolves, and the form closes whatever it is open for by now.      *)
Fetched ==
    /\ \E g \in gets :
          /\ gets' = gets \ {g}
          /\ \/ g.lists # None /\ seen' = g.lists /\ phase' = "shown" /\ NothingSpent
             \/ UNCHANGED seen /\ phase' = "error" /\ Spend("faults")
          /\ IF g.who = "save" THEN form' = ClosedForm /\ saving' = FALSE
             ELSE UNCHANGED <<form, saving>>
          /\ refreshing' = refreshing \ {g.who}
    /\ UNCHANGED <<serverVars, save, deleteVars, asks>>

-----------------------------------------------------------------------------
(* The form. *)

Open ==
    /\ NoDialog
    /\ \/ form' = CreateForm
       \/ \E i \in Ids : CardShown(i) /\ form' = EditForm(i, seen.subs[i])
    /\ UNCHANGED <<serverVars, listVars, saving, save, deleteVars, askVars, left>>

(* The form sees the polled lists as they change under it. *)
Type ==
    /\ form.open
    /\ form' \in Edits(form, seen.tps) \ {form}
    /\ Spend("typed")
    /\ UNCHANGED <<serverVars, listVars, saving, save, deleteVars, askVars>>

Cancel ==
    /\ form.open
    /\ form' = ClosedForm
    /\ UNCHANGED <<serverVars, listVars, saving, save, deleteVars, askVars, left>>

(* submit up to its await. *)
Submit ==
    /\ form.open /\ ~saving
    /\ Valid(form, seen.links)
    /\ Spend("saves")
    /\ save' = save \cup {[n |-> left.saves, id |-> form.id, base |-> form.base, touched |-> form.touched,
                            req |-> Input(form, seen.links), st |-> "sent"]}
    /\ saving' = TRUE
    /\ UNCHANGED <<serverVars, listVars, form, deleteVars, askVars>>

(* The server creates or updates, or refuses: for a check that fails, or   *)
(* an error of the database after which the draft is put back.             *)
Executes(c) ==
    \E i \in IF c.id = None THEN Ids \ born ELSE {c.id} : Saved(i, c.req)

SaveIs(c, st) == save' = (save \ {c}) \cup (IF c.st = "lost" THEN {} ELSE {[c EXCEPT !.st = st]})

ServeSave ==
    /\ \E c \in save :
          /\ c.st \in {"sent", "lost"}
          /\ \/ Executes(c) /\ SaveIs(c, "ok")
             \/ UNCHANGED serverVars /\ SaveIs(c, "refused")
    /\ UNCHANGED <<listVars, form, saving, deleteVars, askVars, left>>

(* As SaveReplied when the flag is cleared by a reply only. *)
SaveRepliedNoFinally ==
    /\ \E c \in save :
          \/ c.st = "ok" /\ save' = save \ {c} /\ gets' = gets \cup {Get("save")} /\ UNCHANGED <<saving, left>>
          \/ c.st = "refused" /\ save' = save \ {c} /\ saving' = FALSE /\ UNCHANGED <<gets, left>>
          \/ /\ c.st = "sent" /\ Spend("faults")
             /\ save' = (save \ {c}) \cup {[c EXCEPT !.st = "lost"]}
             /\ UNCHANGED <<saving, gets>>
    /\ UNCHANGED <<serverVars, seen, phase, form, deleteVars, askVars>>

(* After the await of the request: on to fetchAll, or a toast and the form *)
(* stays.  A request that timed out may still be executed.                 *)
SaveReplied ==
    /\ \E c \in save :
          \/ /\ c.st = "ok"
             /\ save' = save \ {c}
             /\ gets' = gets \cup {Get("save")}
             /\ UNCHANGED <<saving, left>>
          \/ c.st = "refused" /\ save' = save \ {c} /\ saving' = FALSE /\ UNCHANGED <<gets, left>>
          \/ /\ c.st = "sent" /\ Spend("faults")
             /\ save' = (save \ {c}) \cup {[c EXCEPT !.st = "lost"]}
             /\ saving' = FALSE
             /\ UNCHANGED gets
    /\ UNCHANGED <<serverVars, seen, phase, form, deleteVars, askVars>>

-----------------------------------------------------------------------------
(* Deletion: the form's delete button closes the form and asks; the dialog *)
(* closes when it is confirmed, and the reply clears deleting again.       *)

AskDelete ==
    /\ form.open /\ ~Creating(form)
    /\ form' = ClosedForm
    /\ deleting' = form.id
    /\ UNCHANGED <<serverVars, listVars, saving, save, removal, askVars, left>>

Confirm ==
    /\ deleting # None
    /\ \/ removal' = removal \cup {[id |-> deleting, st |-> "sent"]} /\ Spend("saves")
       \/ UNCHANGED <<removal, left>>
    /\ deleting' = None
    /\ UNCHANGED <<serverVars, listVars, formVars, askVars>>

(* Refused while a group uses the provider. *)
ServeRemoval ==
    /\ \E d \in removal :
          /\ d.st \in {"sent", "lost"}
          /\ \E st \in {"ok", "refused"} :
                /\ IF st = "ok" THEN Delete(d.id) ELSE UNCHANGED serverVars
                /\ removal' = (removal \ {d}) \cup (IF d.st = "lost" THEN {} ELSE {[d EXCEPT !.st = st]})
    /\ UNCHANGED <<listVars, formVars, deleting, askVars, left>>

RemovalReplied ==
    /\ \E d \in removal :
          \/ /\ d.st = "ok"
             /\ removal' = removal \ {d}
             /\ deleting' = None
             /\ gets' = gets \cup {Get("removal")}
             /\ NothingSpent
          \/ d.st = "refused" /\ removal' = removal \ {d} /\ UNCHANGED <<deleting, gets, left>>
          \/ /\ d.st = "sent" /\ Spend("faults")
             /\ removal' = (removal \ {d}) \cup {[d EXCEPT !.st = "lost"]}
             /\ UNCHANGED <<deleting, gets>>
    /\ UNCHANGED <<serverVars, seen, phase, formVars, askVars>>

-----------------------------------------------------------------------------
(* Refreshing: one row by its card's button, or every enabled row at once. *)

Ask(i, who) == [id |-> i, who |-> who, n |-> None, row |-> None, st |-> "sent"]

RefreshOne ==
    /\ NoDialog
    /\ \E i \in Ids \ refreshing :
          /\ CardShown(i) /\ seen.subs[i].enabled
          /\ refreshing' = refreshing \cup {i}
          /\ asks' = asks \cup {Ask(i, "one")}
    /\ Spend("refreshes")
    /\ UNCHANGED <<serverVars, listVars, formVars, deleteVars>>

RefreshAll ==
    /\ NoDialog /\ "all" \notin refreshing
    /\ LET Enabled == {i \in Ids : seen.subs[i] # None /\ seen.subs[i].enabled} IN
          /\ Enabled # {}
          /\ asks' = asks \cup {Ask(i, "all") : i \in Enabled}
    /\ refreshing' = refreshing \cup {"all"}
    /\ Spend("refreshes")
    /\ UNCHANGED <<serverVars, listVars, formVars, deleteVars>>

(* The server's two steps of a refresh, for a request or in the            *)
(* background.  A row that is gone is a 404.                               *)
ServeAsk ==
    /\ \E a \in asks :
          /\ a.st = "sent"
          /\ \/ \E n \in FetchIds : /\ RefreshStart(n, a.id, FALSE)
                                   /\ asks' = (asks \ {a}) \cup {[a EXCEPT !.n = n, !.st = "run"]}
             \/ /\ a.id \notin Rows
                /\ asks' = (asks \ {a}) \cup {[a EXCEPT !.st = "failed"]}
                /\ UNCHANGED serverVars
    /\ UNCHANGED <<listVars, formVars, deleteVars, refreshing, left>>

Background ==
    /\ \E n \in FetchIds, i \in Ids : RefreshStart(n, i, TRUE)
    /\ Spend("refreshes")
    /\ UNCHANGED clientVars

ServeRefresh ==
    /\ \E f \in fetches, ok \in BOOLEAN :
          /\ RefreshEnd(f, ok)
          /\ asks' = {IF a.st = "run" /\ a.n = f.n THEN [a EXCEPT !.st = "done", !.row = subs'[a.id]]
                      ELSE a : a \in asks}
    /\ UNCHANGED <<listVars, formVars, deleteVars, refreshing, left>>

(* The reply of refreshOne puts its row in the list, then all lists are    *)
(* fetched; an error, or no answer in 120 s, ends it.                      *)
RefreshReplied ==
    /\ \E a \in asks :
          /\ a.who = "one" /\ asks' = asks \ {a}
          /\ \/ /\ a.st = "done" /\ a.row # None
                /\ seen' = [seen EXCEPT !.subs[a.id] = IF @ = None THEN None ELSE a.row]
                /\ gets' = gets \cup {Get(a.id)}
                /\ UNCHANGED refreshing
                /\ NothingSpent
             \/ /\ IF a.st \in {"done", "failed"} THEN NothingSpent ELSE Spend("faults")
                /\ refreshing' = refreshing \ {a.id} /\ UNCHANGED <<seen, gets>>
    /\ UNCHANGED <<serverVars, phase, formVars, deleteVars>>

(* Promise.allSettled of refreshAll: an error or no answer settles too.    *)
AllSettled ==
    /\ \E a \in asks : a.who = "all"
    /\ IF \A a \in asks : a.who = "all" => a.st \in {"done", "failed"} THEN NothingSpent ELSE Spend("faults")
    /\ asks' = {a \in asks : a.who = "one"}
    /\ refreshing' = refreshing \ {"all"}
    /\ gets' = gets \cup {Get("all")}
    /\ UNCHANGED <<serverVars, seen, phase, formVars, deleteVars>>

-----------------------------------------------------------------------------
(* Everybody else. *)

(* A request that changes nothing, and the requests that change one thing. *)
Echo(s) == [name |-> s.name, enabled |-> s.enabled, src |-> s.src, prov |-> Keep, url |-> None,
            tp |-> s.tp, quota |-> Keep, expire |-> Keep, reset |-> Keep]
OneChange(s) ==
    {[Echo(s) EXCEPT !.enabled = ~@]} \cup {[Echo(s) EXCEPT !.quota = v] : v \in Quotas}
    \cup {[Echo(s) EXCEPT !.expire = v] : v \in Expiries} \cup {[Echo(s) EXCEPT !.reset = v] : v \in Resets}
    \cup {[Echo(s) EXCEPT !.tp = v] : v \in Tps}
    \cup (IF s.src = "native" THEN {[Echo(s) EXCEPT !.prov = v] : v \in Names} ELSE {})

TpChanges(t) ==
    {None} \cup (IF tps[t] = None THEN {}
                 ELSE {[tps[t] EXCEPT !.url = v] : v \in Urls})

Others ==
    /\ \/ \E i \in Rows : \E r \in OneChange(subs[i]) : Saved(i, r)
       \/ \E i \in Rows : Delete(i)
       \/ \E t \in Tps : \E row \in TpChanges(t) : TpChanged(t, row)
       \/ \E p \in Names : \E url \in Urls \cup {None} : DraftChanged(p, url)
    /\ Spend("others")
    /\ UNCHANGED clientVars

-----------------------------------------------------------------------------
(* The page mounts.                                                        *)
Init ==
    /\ subs = Initial.subs /\ draft = Initial.draft /\ tps = Initial.tps
    /\ born = Rows
    /\ fetches = {}
    /\ seen = [subs |-> [i \in Ids |-> None], links |-> NoLinks, tps |-> NoTps]
    /\ phase = "loading"
    /\ gets = {Get("poll")}
    /\ form = ClosedForm /\ saving = FALSE /\ save = {}
    /\ deleting = None /\ removal = {}
    /\ refreshing = {} /\ asks = {}
    /\ left \in Budgets

Next ==
    \/ Poll \/ ServeGet \/ Fetched
    \/ Open \/ Type \/ Cancel \/ Submit \/ ServeSave \/ SaveReplied
    \/ AskDelete \/ Confirm \/ ServeRemoval \/ RemovalReplied
    \/ RefreshOne \/ RefreshAll \/ ServeAsk \/ Background \/ ServeRefresh \/ RefreshReplied \/ AllSettled
    \/ Others

Spec == Init /\ [][Next]_vars

-----------------------------------------------------------------------------
Snapshot == [subs : [Ids -> Sub \cup {None}], links : [Names -> {Absent, Free} \cup Ids],
             tps : [Tps -> Tp \cup {None}]]
TypeOK ==
    /\ ServerTypeOK
    /\ seen \in Snapshot
    /\ \A g \in gets : g.lists = None \/ g.lists \in Snapshot
    /\ form.tp \in Tps \cup {None} /\ form.base \in Sub \cup {None}
    /\ \A c \in save : c.req \in Request
    /\ deleting \in Ids \cup {None}
    /\ refreshing \subseteq Ids \cup {"all"}

(* "Only send supplement fields the user deliberately changed"             *)
(* (subscription-form.tsx): a save that updates a row leaves a quota, an   *)
(* expiry and a traffic source's schedule that nobody typed in as they are *)
(* by then, not as they were when the form opened.                         *)
UntouchedSurvive ==
    [][\A c \in save \ save' :
         (c.id # None /\ subs' # subs /\ c.id \in Rows) =>
            /\ "quota" \notin c.touched => subs'[c.id].quota = subs[c.id].quota
            /\ "expire" \notin c.touched => subs'[c.id].expire = subs[c.id].expire
            /\ (c.req.src = "traffic" /\ "reset" \notin c.touched) => subs'[c.id].reset = subs[c.id].reset]_vars

(* A save writes the URL of a provider entry only if the entry is new, or  *)
(* the row had it when its form opened: linking a provider never changes   *)
(* where it downloads from, however old the lists are the form goes by.    *)
LinksKeepUrls ==
    [][\A c \in save \ save' : \A p \in Names :
         (draft'[p] # draft[p] /\ draft[p] # None) => (c.id # None /\ p = c.base.prov)]_vars

(* A button that waits for the server is waiting for something: no way     *)
(* through failures, time-outs and closed dialogs leaves it disabled.      *)
WaitingMeansWork ==
    /\ saving => \/ \E c \in save : c.st # "lost"
                 \/ \E g \in gets : g.who = "save"
    /\ \A i \in refreshing :
          \/ \E a \in asks : IF i = "all" THEN a.who = "all" ELSE a.who = "one" /\ a.id = i
          \/ \E g \in gets : g.who = i
=============================================================================
