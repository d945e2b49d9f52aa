----------------------------- MODULE RulesPage -----------------------------
(***************************************************************************)
(* pages/rules.tsx with components/rules/rule-list.tsx.  Rules are tried   *)
(* in the order of the list, so their order is their meaning; the MATCH    *)
(* rule catches everything and belongs last.  RuleList, which owns the     *)
(* confirm dialog, is unmounted while the page loads.                      *)
(***************************************************************************)
EXTENDS CrudPage

CONSTANT MatchRule   \* the id of the rule of type MATCH

(* It is last when the page opens, as the validator wants it. *)
ASSUME MatchAssumption ==
    /\ MatchRule \in 1..First["rules"]
    /\ \A i \in 1..First["rules"] \ {MatchRule} : FirstOrd["rules"][i] < FirstOrd["rules"][MatchRule]

OnRules == page = "rules"

(* arrayMove(s, i, j) of dnd-kit: the element at i is taken out and put    *)
(* back so that it stands at j.                                            *)
ArrayMove(s, i, j) == InsertAt(RemoveAt(s, i), j, s[i])

(* As Drag without the check of the row under the pointer. *)
DragAnywhere(i, j) ==
    /\ i # j
    /\ rows[i] # MatchRule
    /\ rows' = ArrayMove(rows, i, j)

(* handleDragEnd: the handle of a MATCH row is disabled, and a row dropped *)
(* on the MATCH row stays where it was.                                    *)
Drag(i, j) ==
    /\ i # j
    /\ rows[i] # MatchRule
    /\ rows[j] # MatchRule
    /\ rows' = ArrayMove(rows, i, j)

(* handleReorder: the new order is shown at once and sent whole.           *)
RulesReorder ==
    /\ OnRules /\ NoDialog /\ TableShown
    /\ \E i, j \in 1..Len(rows) : Drag(i, j) /\ Send("reorder", NoId, rows')
    /\ UNCHANGED <<page, db, ord, made, loading, hides, form, confirm>>

(* Its await: nothing on success, a refetch on an error. *)
RulesReordered ==
    /\ OnRules
    /\ \/ \E c \in Replies("reorder", TRUE) : calls' = Over(c) /\ UNCHANGED <<loading, confirm>>
       \/ \E c \in Replies("reorder", FALSE) :
             /\ \/ c.st = "done" /\ calls' = Orphaned(OverAndFetch(c))
                \/ /\ c.st = "sent"
                   /\ \E n \in FreeSlots :
                         calls' = Orphaned(Over(c) \cup {NewCall(n, "list", NoId, c.hide, <<>>)})
             /\ loading' = TRUE
             /\ confirm' = ClosedConfirm
    /\ UNCHANGED <<page, sent, db, ord, made, rows, hides, form>>

RulesFetched == OnRules /\ (Filtered(FALSE) \/ ListReplied)

(* A row's click and its edit button, and the page's add button. *)
RulesEdit == OnRules /\ NoDialog /\ \E i \in Ids : RowShown(i) /\ OpenForm(i)
RulesAdd  == OnRules /\ NoDialog /\ OpenForm(NoId)
RulesForm == OnRules /\ CloseForm

RulesSave == OnRules /\ (SaveSent \/ SaveReplied(FALSE))

RulesDelete ==
    /\ OnRules
    /\ \/ NoDialog /\ \E i \in Ids : RowShown(i) /\ AskDelete(i)
       \/ CancelDelete
       \/ ConfirmDelete
       \/ DeleteReplied(FALSE)

RulesNext ==
    \/ RulesFetched \/ RulesEdit \/ RulesAdd \/ RulesForm \/ RulesSave
    \/ RulesDelete \/ RulesReorder \/ RulesReordered
=============================================================================
