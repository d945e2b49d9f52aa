------------------------------ MODULE CrudPage ------------------------------
(***************************************************************************)
(* What the four inventory pages of the web client share (pages/proxies,   *)
(* proxy-groups, rules and rule-providers): a list fetched from the        *)
(* server, a form dialog that creates or edits one row, and a dialog that  *)
(* confirms a deletion.  Nothing is cancelled or sequenced: every handler  *)
(* awaits its own request and applies the reply whenever it arrives.       *)
(*                                                                         *)
(* One page is mounted at a time, so the pages share these variables and   *)
(* page says whose handlers run.  The server keeps the rows of that page   *)
(* in db with their sort_order; the rows' other columns are abstracted.    *)
(***************************************************************************)
EXTENDS Integers, FiniteSets, Sequences, SequencesExt

CONSTANTS
    MaxId,       \* bound: rows ever created on the server, per page
    First,       \* rows 1..First[p] exist when page p opens
    FirstOrd,    \* ... with these sort_orders
    MaxCalls,    \* bound: requests of the page in flight, per page
    MaxSends,    \* bound: requests of the user's clicks, per page
    Hideable     \* the rows the filters of a page ask to hide, one at a time

Pages == {"proxies", "groups", "rules", "providers"}

ASSUME CrudAssumption ==
    /\ MaxId \in [Pages -> Nat] /\ First \in [Pages -> Nat]
    /\ MaxCalls \in [Pages -> Nat \ {0}]
    /\ MaxSends \in [Pages -> Nat]
    /\ \A p \in Pages : First[p] <= MaxId[p]
    /\ \A p \in {"rules", "groups"} : Hideable[p] \subseteq 1..MaxId[p]

Ids  == UNION {1..MaxId[p] : p \in Pages}
NoId == 0        \* undefined / null in the code

(* sort_orders are places in a list, or 0.                                 *)
Orders == 0..Cardinality(Ids)

ASSUME OrderAssumption == FirstOrd \in [Pages -> [Ids -> Orders]]

VARIABLES
    page,        \* the mounted page
    db,          \* server: the rows that exist
    ord,         \* server: sort_order of every row
    made,        \* server: rows inserted so far; the rowids are 1..made
    rows,        \* client: the list as last set (useState)
    loading,     \* client: the list's loading flag
    hides,       \* client: the row that search and type filter leave out, if any
    form,        \* client: [open, editing]
    confirm,     \* client: [open, about, deleting]
    sent,        \* requests the user's clicks have sent
    calls        \* requests in flight: [n, op, id, hide, arg, st, ok, mine]

crudVars == <<page, db, ord, made, rows, loading, hides, form, confirm, sent, calls>>
serverVars == <<db, ord, made>>

(* The dialogs.  form.editing is the page's editingProxy and its like,     *)
(* confirm.about the row the dialog's text describes, confirm.deleting the *)
(* page's deletingId.                                                      *)
ClosedForm    == [open |-> FALSE, editing |-> NoId]
ClosedConfirm == [open |-> FALSE, about |-> NoId, deleting |-> NoId]

(* What a dialog keeps while it is closed is overwritten when it opens.    *)
Disarmed == [confirm EXCEPT !.deleting = NoId]

Ops == {"list", "save", "delete", "refs", "reorder", "copy"}
Lists == UNION {[1..n -> Ids] : n \in 0..Cardinality(Ids)}
Call == [n : UNION {1..MaxCalls[p] : p \in Pages}, op : Ops, id : Ids \cup {NoId}, hide : Ids \cup {NoId},
         arg : Lists, st : {"sent", "done", "lost"}, ok : BOOLEAN, mine : BOOLEAN]

-----------------------------------------------------------------------------
(* The server. *)

(* SELECT ... ORDER BY sort_order: equal sort_orders come in rowid order.  *)
InOrder(a, b) == ord[a] < ord[b] \/ (ord[a] = ord[b] /\ a < b)
Place(i, S) == Cardinality({j \in S : InOrder(j, i)}) + 1
InPlaces(S) == [k \in 1..Cardinality(S) |-> CHOOSE i \in S : Place(i, S) = k]
Listed == InPlaces(db)

(* The search and type parameters leave rows out (WHERE); the handler of   *)
(* the groups ignores them.                                                *)
Visible(c) == IF page = "groups" THEN Listed ELSE InPlaces(db \ {c.hide})

IdsOf(s) == {s[i] : i \in 1..Len(s)}

(* As Reordered for a client that sends indexOf of every row.              *)
ReorderedByIndexOf(s) == [i \in Ids |-> IF i \in IdsOf(s)
                                        THEN (CHOOSE k \in 1..Len(s) : s[k] = i) - 1
                                        ELSE -1]

(* Reorder: sort_order becomes the position in the list that was sent;     *)
(* rows the list does not name keep theirs.                                *)
Reordered(s) == [i \in Ids |-> IF i \in IdsOf(s)
                               THEN (CHOOSE k \in 1..Len(s) : s[k] = i) - 1
                               ELSE ord[i]]

Executed(c, ok, snap) ==
    calls' = IF c.st = "lost" THEN calls \ {c}
             ELSE (calls \ {c}) \cup {[c EXCEPT !.st = "done", !.ok = ok, !.arg = snap]}

Pending(c, op) == c \in calls /\ c.op = op /\ c.st \in {"sent", "lost"}

(* INSERT: the body of the request has no sort_order, so the row gets 0;   *)
(* a copy keeps the sort_order of the row it was made from.                *)
Insert(c, o) ==
    /\ made < MaxId[page]
    /\ made' = made + 1
    /\ db' = db \cup {made'}
    /\ ord' = [ord EXCEPT ![made'] = o]
    /\ Executed(c, TRUE, <<>>)

ServeList(c) == Pending(c, "list") /\ Executed(c, TRUE, Visible(c)) /\ UNCHANGED serverVars

(* PUT: the body has no sort_order either, and UPDATE writes the column;   *)
(* a row that is gone is not an error.                                     *)
ServeUpdate(c) ==
    /\ Pending(c, "save") /\ c.id # NoId
    /\ ord' = [ord EXCEPT ![c.id] = IF c.id \in db THEN 0 ELSE @]
    /\ Executed(c, TRUE, <<>>)
    /\ UNCHANGED <<db, made>>

ServeCreate(c) == Pending(c, "save") /\ c.id = NoId /\ Insert(c, 0)

(* A copy of a row that is gone is a 404; a second copy of the same row    *)
(* has a name that is taken.                                               *)
ServeCopy(c) ==
    /\ Pending(c, "copy")
    /\ \/ c.id \in db /\ Insert(c, ord[c.id])
       \/ Executed(c, FALSE, <<>>) /\ UNCHANGED serverVars

(* DELETE.  A proxy that is gone is a 404, a group that is referenced a    *)
(* 409; a rule or a provider that is gone is no error.                     *)
ServeDelete(c) ==
    /\ Pending(c, "delete")
    /\ \/ /\ db' = db \ {c.id}
          /\ Executed(c, page # "proxies" \/ c.id \in db, <<>>)
       \/ page = "groups" /\ Executed(c, FALSE, <<>>) /\ UNCHANGED db
    /\ UNCHANGED <<ord, made>>

ServeRefs(c) == Pending(c, "refs") /\ Executed(c, c.id \in db, <<>>) /\ UNCHANGED serverVars

ServeReorder(c) ==
    /\ Pending(c, "reorder")
    /\ ord' = Reordered(c.arg)
    /\ Executed(c, TRUE, <<>>)
    /\ UNCHANGED <<db, made>>

Serve ==
    /\ \E c \in calls : \/ ServeList(c) \/ ServeUpdate(c) \/ ServeCreate(c) \/ ServeCopy(c)
                        \/ ServeDelete(c) \/ ServeRefs(c) \/ ServeReorder(c)
    /\ UNCHANGED <<page, sent, rows, loading, hides, form, confirm>>

-----------------------------------------------------------------------------
(* Requests of the page. *)

FreeSlots == {n \in 1..MaxCalls[page] : \A c \in calls : c.n # n}
NewCall(n, op, id, hide, arg) == [n |-> n, op |-> op, id |-> id, hide |-> hide, arg |-> arg,
                                  st |-> "sent", ok |-> FALSE, mine |-> TRUE]
Asked(op, id, hide, arg) ==
    {calls \cup {NewCall(n, op, id, hide, arg)} : n \in {m \in FreeSlots : \A k \in FreeSlots : m <= k}}
SendNow(op, id, arg) == calls' \in Asked(op, id, hides, arg)
Send(op, id, arg) ==
    /\ sent < MaxSends[page]
    /\ sent' = sent + 1
    /\ SendNow(op, id, arg)

(* The reply to a request: ok, or an error (an HTTP error, a network error *)
(* or ky's timeout, after which the server may still run the request).     *)
Replies(op, ok) ==
    {c \in calls : /\ c.op = op
                   /\ \/ ok /\ c.st = "done" /\ c.ok
                      \/ ~ok /\ c.st # "lost"}
Reads == {"list", "refs"}
Over(c) == (calls \ {c}) \cup (IF c.st = "sent" /\ c.op \notin Reads
                               THEN {[c EXCEPT !.st = "lost"]} ELSE {})

(* A reply after which the handler fetches the list again, in the slot the *)
(* request leaves and with the filters of the render the handler is of.    *)
OverAndFetch(c) == (calls \ {c}) \cup {NewCall(c.n, "list", NoId, c.hide, <<>>)}

(* What a component that is unmounted leaves behind: its requests go on,   *)
(* but what their handlers would set in it is dropped.                     *)
Orphaned(cs) == {[c EXCEPT !.mine = @ /\ c.op # "delete"] : c \in cs}

-----------------------------------------------------------------------------
(* The halves of the pages' handlers, before and after their await.        *)
(* mounted: whether the component that owns the confirm dialog stays       *)
(* mounted while the page loads.                                           *)

(* The table is not rendered while the page loads; a dialog is modal.      *)
NoDialog == ~form.open /\ ~confirm.open
TableShown == ~loading
RowShown(i) == TableShown /\ i \in IdsOf(rows)

(* fetch...(): setLoading(true), then the list or an error toast. *)
ListReplied ==
    /\ \/ \E c \in Replies("list", TRUE) : rows' = c.arg /\ calls' = Over(c)
       \/ \E c \in Replies("list", FALSE) : calls' = Over(c) /\ UNCHANGED rows
    /\ loading' = FALSE
    /\ UNCHANGED <<page, sent, db, ord, made, hides, form, confirm>>

(* The search box and the type filter, on the pages that have them: the    *)
(* effect on fetch... fetches with the new parameters.                     *)
Filtered(mounted) ==
    /\ NoDialog /\ sent < MaxSends[page]
    /\ sent' = sent + 1
    /\ hides' \in (Hideable[page] \cup {NoId}) \ {hides}
    /\ loading' = TRUE
    /\ \E cs \in Asked("list", NoId, hides', <<>>) : calls' = IF mounted THEN cs ELSE Orphaned(cs)
    /\ confirm' = IF mounted THEN confirm ELSE ClosedConfirm
    /\ UNCHANGED <<page, db, ord, made, rows, form>>

(* Open the form for a row, or for a new one. *)
OpenForm(i) ==
    /\ form' = [open |-> TRUE, editing |-> i]
    /\ UNCHANGED <<page, sent, db, ord, made, rows, loading, hides, confirm, calls>>

(* onOpenChange(false): cancel, escape or a click outside. *)
CloseForm ==
    /\ form.open
    /\ form' = ClosedForm
    /\ UNCHANGED <<page, sent, db, ord, made, rows, loading, hides, confirm, calls>>

(* handleSave up to its await: update the row being edited, or create. *)
SaveSent ==
    /\ form.open
    /\ Send("save", form.editing, <<>>)
    /\ UNCHANGED <<page, db, ord, made, rows, loading, hides, form, confirm>>

(* handleSave after its await: whatever form is open by now is closed. *)
SaveReplied(mounted) ==
    /\ \/ \E c \in Replies("save", TRUE) :
             /\ form' = ClosedForm
             /\ loading' = TRUE
             /\ confirm' = IF mounted THEN confirm ELSE ClosedConfirm
             /\ calls' = IF mounted THEN OverAndFetch(c) ELSE Orphaned(OverAndFetch(c))
       \/ \E c \in Replies("save", FALSE) :
             calls' = Over(c) /\ UNCHANGED <<form, loading, confirm>>
    /\ UNCHANGED <<page, sent, db, ord, made, rows, hides>>

(* handleDeleteClick without an await. *)
AskDelete(i) ==
    /\ confirm' = [open |-> TRUE, about |-> i, deleting |-> i]
    /\ UNCHANGED <<page, sent, db, ord, made, rows, loading, hides, form, calls>>

(* handleDeleteClick that first asks who refers to the row. *)
RefsSent(i) ==
    /\ SendNow("refs", i, <<>>)
    /\ UNCHANGED <<page, sent, db, ord, made, rows, loading, hides, form, confirm>>

(* As RefsReplied when a dialog that is open keeps its deletingId. *)
RefsRepliedOnce ==
    /\ \E c \in Replies("refs", TRUE) \cup Replies("refs", FALSE) :
          /\ confirm' = [open |-> TRUE, about |-> c.id,
                         deleting |-> IF confirm.deleting = NoId THEN c.id ELSE confirm.deleting]
          /\ calls' = Over(c)
    /\ UNCHANGED <<page, sent, db, ord, made, rows, loading, hides, form>>

(* The dialog opens with what the last answer says and deletes its row.    *)
RefsReplied ==
    /\ \E c \in Replies("refs", TRUE) \cup Replies("refs", FALSE) :
          /\ confirm' = [open |-> TRUE, about |-> c.id, deleting |-> c.id]
          /\ calls' = Over(c)
    /\ UNCHANGED <<page, sent, db, ord, made, rows, loading, hides, form>>

CancelDelete ==
    /\ confirm.open
    /\ confirm' = ClosedConfirm
    /\ UNCHANGED <<page, sent, db, ord, made, rows, loading, hides, form, calls>>

(* ConfirmDialog calls onConfirm and closes; handleDeleteConfirm does      *)
(* nothing when deletingId is null.                                        *)
ConfirmDelete ==
    /\ confirm.open
    /\ confirm' = ClosedConfirm
    /\ IF confirm.deleting = NoId THEN UNCHANGED <<sent, calls>>
       ELSE Send("delete", confirm.deleting, <<>>)
    /\ UNCHANGED <<page, db, ord, made, rows, loading, hides, form>>

(* After the await: the list is fetched again, and deletingId is cleared   *)
(* whatever it is by now.                                                  *)
DeleteReplied(mounted) ==
    /\ \/ \E c \in Replies("delete", TRUE) :
             /\ calls' = IF mounted THEN OverAndFetch(c) ELSE Orphaned(OverAndFetch(c))
             /\ loading' = TRUE
             /\ confirm' = IF mounted THEN Disarmed ELSE ClosedConfirm
       \/ \E c \in Replies("delete", FALSE) :
             /\ calls' = Over(c)
             /\ confirm' = IF c.mine THEN Disarmed ELSE confirm
             /\ UNCHANGED loading
    /\ UNCHANGED <<page, sent, db, ord, made, rows, hides, form>>

(* The page mounts: every useState at its initial value, the list asked    *)
(* for by the mount effect.                                                *)
CrudInit ==
    /\ page \in Pages
    /\ db = 1..First[page]
    /\ ord = FirstOrd[page]
    /\ made = First[page]
    /\ rows = <<>>
    /\ loading = TRUE
    /\ hides = NoId
    /\ form = ClosedForm
    /\ confirm = ClosedConfirm
    /\ sent = 0
    /\ calls = {NewCall(1, "list", NoId, NoId, <<>>)}
=============================================================================
