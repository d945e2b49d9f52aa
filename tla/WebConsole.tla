----------------------------- MODULE WebConsole -----------------------------
(***************************************************************************)
(* The rest of the web client: the item dialogs, the settings page, the    *)
(* system configuration, the publish page and the session.  They share no  *)
(* state but what the modules name, so a behaviour opens one of them; the  *)
(* settings page's cards, which only share the wire, are opened one by one *)
(* too.  The pages that list items are in WebInventory, the subscriptions  *)
(* page is in SubscriptionsPage.                                           *)
(***************************************************************************)
EXTENDS ItemForms, SettingsPages, PublishPage, Session

VARIABLE page       \* what the user opened

vars == <<page, formsVars, settingsVars, publishVars, sessionVars>>

Pages == {"dialogs", "settings", "users", "editor", "system-config", "publish", "session"}

Init ==
    /\ page \in Pages
    /\ FormsInit /\ SettingsStart(page) /\ PublishPageInit /\ SessionInit

Dialogs == page = "dialogs" /\ FormsNext /\ UNCHANGED <<page, settingsVars, publishVars, sessionVars>>

Settings ==
    /\ \/ page = "settings" /\ SettingsCardNext
       \/ page = "users" /\ UsersCardNext
       \/ page = "editor" /\ EditorCardNext
       \/ page = "system-config" /\ SystemConfigNext
    /\ UNCHANGED <<page, formsVars, publishVars, sessionVars>>

Publishing ==
    page = "publish" /\ PublishPageNext /\ UNCHANGED <<page, formsVars, settingsVars, sessionVars>>

LoggingInAndOut ==
    page = "session" /\ SessionNext /\ UNCHANGED <<page, formsVars, settingsVars, publishVars>>

Next == Dialogs \/ Settings \/ Publishing \/ LoggingInAndOut

(* The header's interval fires, what it asks is served and answered sooner *)
(* or later (even if the user reloads the page now and then before that),  *)
(* and page loads end.                                                     *)
Fairness ==
    /\ WF_publishVars(page = "publish" /\ Poll) /\ WF_publishVars(page = "publish" /\ ServeStatus)
    /\ WF_publishVars(page = "publish" /\ StatusAnswered(TRUE))
    /\ WF_publishVars(page = "publish" /\ StatusAnswered(FALSE))
    /\ WF_sessionVars(page = "session" /\ PollStatus) /\ WF_sessionVars(page = "session" /\ LeaveForLogin)
    /\ SF_sessionVars(page = "session" /\ ServeCall("status")) /\ SF_sessionVars(page = "session" /\ PollAnswered)

Spec == Init /\ [][Next]_vars /\ Fairness

TypeOK == page \in Pages /\ FormsTypeOK /\ SettingsTypeOK /\ PublishPageTypeOK /\ SessionTypeOK
=============================================================================
