----------------------------- MODULE GroupsPage -----------------------------
(***************************************************************************)
(* pages/proxy-groups.tsx.  The page owns its confirm dialog, so a reload  *)
(* does not close it, and a click on delete first asks the server which    *)
(* groups and rules refer to the group.                                    *)
(***************************************************************************)
EXTENDS CrudPage

OnGroups == page = "groups"

GroupsFetched == OnGroups /\ (Filtered(TRUE) \/ ListReplied)

GroupsAdd  == OnGroups /\ NoDialog /\ OpenForm(NoId)
GroupsEdit == OnGroups /\ NoDialog /\ \E i \in Ids : RowShown(i) /\ OpenForm(i)
GroupsForm == OnGroups /\ CloseForm

GroupsSave == OnGroups /\ (SaveSent \/ SaveReplied(TRUE))

GroupsDeleteClick ==
    /\ OnGroups
    /\ \/ NoDialog /\ \E i \in Ids : RowShown(i) /\ RefsSent(i)
       \/ RefsReplied

GroupsDelete == OnGroups /\ (CancelDelete \/ ConfirmDelete \/ DeleteReplied(TRUE))

GroupsNext ==
    \/ GroupsFetched \/ GroupsAdd \/ GroupsEdit \/ GroupsForm \/ GroupsSave
    \/ GroupsDeleteClick \/ GroupsDelete
=============================================================================
