-------------------------- MODULE RuleProvidersPage -------------------------
(***************************************************************************)
(* pages/rule-providers.tsx: the provider list, its form, and an editor    *)
(* for the text file a provider reads its rules from.  The editor loads    *)
(* the file when it opens, keeps its text when it closes, and saves to the *)
(* provider it is open for.                                                *)
(***************************************************************************)
EXTENDS CrudPage

CONSTANT MaxLoads   \* bound: file requests of the editor in flight

VARIABLES
    editor,      \* [open, provider, content, loading, saving]
    files,       \* server: whose text each provider's file holds
    loads,       \* editor requests: [n, op, id, content, st]
    refreshing   \* the provider whose refresh button spins

pageVars == <<page, db, ord, made, rows, loading, hides, form, confirm, calls>>
editorVars == <<editor, files, loads, refreshing>>

(* A text is named by the provider whose file it was first; NoId is the    *)
(* empty text of an editor that has not loaded anything.                   *)
ClosedEditor == [open |-> FALSE, provider |-> NoId, content |-> NoId,
                 loading |-> FALSE, saving |-> FALSE]

OnProviders == page = "providers"
EditorOpen == editor.open
NoEditor == ~EditorOpen /\ NoDialog

Loads == [n : 1..MaxLoads, op : {"get", "put", "refresh"}, id : Ids, content : Ids \cup {NoId},
          st : {"sent", "done", "lost"}]

FreeLoads == {n \in 1..MaxLoads : \A c \in loads : c.n # n}
SendLoad(op, id, content) ==
    /\ sent < MaxSends[page]
    /\ sent' = sent + 1
    /\ \E n \in FreeLoads :
          /\ \A m \in FreeLoads : n <= m
          /\ loads' = loads \cup {[n |-> n, op |-> op, id |-> id, content |-> content, st |-> "sent"]}

LoadOver(c) == (loads \ {c}) \cup (IF c.st = "sent" /\ c.op = "put"
                                   THEN {[c EXCEPT !.st = "lost"]} ELSE {})

ProvidersFetched == OnProviders /\ ListReplied /\ UNCHANGED editorVars

ProvidersForm ==
    /\ OnProviders
    /\ \/ NoEditor /\ OpenForm(NoId)
       \/ NoEditor /\ \E i \in Ids : RowShown(i) /\ OpenForm(i)
       \/ CloseForm
    /\ UNCHANGED editorVars

ProvidersSave == OnProviders /\ (SaveSent \/ SaveReplied(TRUE)) /\ UNCHANGED editorVars

ProvidersDeleteClick ==
    /\ OnProviders /\ NoEditor
    /\ \E i \in Ids : RowShown(i) /\ AskDelete(i)
    /\ UNCHANGED editorVars

ProvidersDelete ==
    OnProviders /\ (CancelDelete \/ ConfirmDelete \/ DeleteReplied(TRUE)) /\ UNCHANGED editorVars

(* handleRefresh: one spinner for the whole page, cleared by whichever     *)
(* refresh ends first.                                                     *)
ProvidersRefresh ==
    /\ OnProviders
    /\ \/ /\ NoEditor
          /\ \E i \in Ids : /\ RowShown(i) /\ refreshing # i
                            /\ refreshing' = i
                            /\ SendLoad("refresh", i, NoId)
       \/ /\ \E c \in loads : c.op = "refresh" /\ loads' = LoadOver(c)
          /\ refreshing' = NoId
          /\ UNCHANGED sent
    /\ UNCHANGED <<pageVars, editor, files>>

(* The row's content button, and the effect on [open, provider] that asks  *)
(* for the file.  setContent is not called: the text shown last is kept.   *)
EditorOpened ==
    /\ OnProviders /\ NoEditor
    /\ \E i \in Ids :
          /\ RowShown(i)
          /\ editor' = [editor EXCEPT !.open = TRUE, !.provider = i, !.loading = TRUE]
          /\ SendLoad("get", i, NoId)
    /\ UNCHANGED <<pageVars, files, refreshing>>

(* The reply of getContent: the text is set whatever provider the editor   *)
(* is open for by now; an error leaves it as it was.  Loading ends.        *)
EditorLoaded ==
    /\ OnProviders
    /\ \E c \in loads :
          /\ c.op = "get"
          /\ \/ c.st = "done" /\ editor' = [editor EXCEPT !.content = c.content, !.loading = FALSE]
             \/ editor' = [editor EXCEPT !.loading = FALSE]
          /\ loads' = LoadOver(c)
    /\ UNCHANGED <<pageVars, sent, files, refreshing>>

EditorClosed ==
    /\ OnProviders /\ EditorOpen
    /\ editor' = [editor EXCEPT !.open = FALSE, !.provider = NoId]
    /\ UNCHANGED <<crudVars, files, loads, refreshing>>

(* The editor's handleSave; the button is disabled while a load or a save  *)
(* is known to run.                                                        *)
EditorSave ==
    /\ OnProviders
    /\ \/ /\ EditorOpen /\ ~editor.loading /\ ~editor.saving
          /\ SendLoad("put", editor.provider, editor.content)
          /\ editor' = [editor EXCEPT !.saving = TRUE]
       \/ \E c \in loads :
             /\ c.op = "put" /\ c.st # "lost"
             /\ \/ c.st = "done" /\ editor' = [editor EXCEPT !.open = FALSE, !.provider = NoId,
                                                             !.saving = FALSE]
                \/ editor' = [editor EXCEPT !.saving = FALSE]
             /\ loads' = LoadOver(c)
             /\ UNCHANGED sent
    /\ UNCHANGED <<pageVars, files, refreshing>>

(* GetContent and UpdateContent on the server. *)
ServeContent ==
    /\ OnProviders
    /\ \E c \in loads :
          \/ /\ c.op = "get" /\ c.st = "sent"
             /\ loads' = (loads \ {c}) \cup {[c EXCEPT !.st = "done", !.content = files[c.id]]}
             /\ UNCHANGED files
          \/ /\ c.op = "put" /\ c.st \in {"sent", "lost"}
             /\ files' = [files EXCEPT ![c.id] = c.content]
             /\ loads' = (loads \ {c}) \cup
                         (IF c.st = "sent" THEN {[c EXCEPT !.st = "done"]} ELSE {})
    /\ UNCHANGED <<crudVars, editor, refreshing>>

ProvidersInit ==
    /\ editor = ClosedEditor
    /\ files = [i \in Ids |-> i]
    /\ loads = {}
    /\ refreshing = NoId

ProvidersNext ==
    \/ ProvidersFetched \/ ProvidersForm \/ ProvidersSave \/ ProvidersDeleteClick \/ ProvidersDelete
    \/ ProvidersRefresh
    \/ EditorOpened \/ EditorLoaded \/ EditorClosed \/ EditorSave \/ ServeContent
=============================================================================
