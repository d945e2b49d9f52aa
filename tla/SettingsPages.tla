--------------------------- MODULE SettingsPages ---------------------------
(***************************************************************************)
(* pages/settings.tsx (application settings, users, the raw configuration  *)
(* editor) and pages/system-config.tsx over the server's settings row, its *)
(* users and the draft's configuration.  Requests overlap, fail and are    *)
(* answered in any order; one that timed out may still be executed.        *)
(***************************************************************************)
EXTENDS Naturals, Functions

CONSTANTS
    Me, Users,      \* the administrator at the page; users there may be
    Keys,           \* section of the configuration -> its keys
    MaxClicks,      \* bound: requests and edits of one behaviour
    MaxUnread,      \* bound: reads of the settings row that fail in a put
    Nobody

ASSUME UsersAssumption == Me \in Users /\ Nobody \notin Users

VARIABLES
    st,             \* server: app_settings
    users,          \* server: role by id, Nobody for none
    cfg,            \* server: section -> key -> value
    handling,       \* server: what the handlers of puts hold between two statements
    unread,         \* puts that could not read the settings row (history)
    settings,       \* client: what AppSettingsCard holds, a partial record
    list,           \* client: the users shown, role by id
    userDialog,     \* client: the user dialog
    deletingId,     \* client: the user the confirm dialog is about
    confirmOpen,    \* client: whether that dialog is open
    editor,         \* client: the raw editor
    config,         \* client: what SystemConfigPage holds
    loaded, edited, \* what config was loaded as, and the paths set since
    flags,          \* client: the loading, saving and clearing flags that are set
    wire,           \* requests
    clicks

serverSide == <<st, users, cfg, handling, unread>>
userCard == <<list, userDialog, deletingId, confirmOpen>>
configPage == <<config, loaded, edited>>
cards == <<settings, userCard, editor, configPage>>
settingsVars == <<serverSide, cards, flags, wire, clicks>>

Roles == {"admin", "readonly"}
At(f, k) == IF k \in DOMAIN f THEN f[k] ELSE ""
Shown == {i \in Users : list[i] # Nobody}

Put(f, k, v) == [x \in DOMAIN f \cup {k} |-> IF x = k THEN v ELSE f[x]]
Without(n) == Restrict(wire, DOMAIN wire \ {n})

-----------------------------------------------------------------------------
(* The server. *)

(* As Merged when empty fields are stored as they were sent. *)
Unmerged(s, stored) == s

(* An empty isolation field is replaced by the stored one. *)
Merged(s, stored) ==
    IF At(s, "isolation_dns") = "" THEN Put(s, "isolation_dns", stored.isolation_dns) ELSE s

(* A put's first statement.  The row is read when an isolation field is    *)
(* empty; when that fails the put goes on with what was sent.              *)
ReadStored(n) ==
    LET sent == wire[n].arg IN
    /\ wire[n].op = "putSettings" /\ n \notin DOMAIN handling
    /\ \/ handling' = Put(handling, n, Merged(sent, st)) /\ UNCHANGED unread
       \/ /\ At(sent, "isolation_dns") = "" /\ unread < MaxUnread
          /\ handling' = Put(handling, n, sent) /\ unread' = unread + 1
    /\ UNCHANGED <<st, users, cfg, wire>>

(* Its second one: the row is what the handler holds, but for the raw      *)
(* draft.                                                                  *)
UpdateSettings(s) ==
    st' = [st EXCEPT !.mihomo_config = At(s, "mihomo_config"), !.isolation_dns = At(s, "isolation_dns")]

(* What request n does, and the value it answers.                          *)
Answered(n, v) ==
    wire' = IF wire[n].st = "lost" THEN Without(n)
            ELSE [wire EXCEPT ![n].st = "done", ![n].ans = v]

ConfigYaml == IF st.raw # "" THEN [content |-> st.raw, source |-> "draft"]
              ELSE [content |-> "file text", source |-> "file"]

UserRequest(n) ==
    LET r == wire[n] IN
    /\ \/ r.op = "listUsers" /\ Answered(n, users) /\ UNCHANGED users
       \/ /\ r.op = "createUser" /\ Answered(n, "ok")
          /\ \E i \in Users : users[i] = Nobody /\ users' = [users EXCEPT ![i] = r.arg.role]
       \/ /\ r.op = "updateUser" /\ users[r.arg.id] # Nobody /\ Answered(n, "ok")
          /\ users' = [users EXCEPT ![r.arg.id] = r.arg.role]
       \/ /\ r.op = "deleteUser" /\ Answered(n, "ok")
          /\ users' = [users EXCEPT ![r.arg] = Nobody]
    /\ UNCHANGED <<st, cfg, handling, unread>>

SettingsRequest(n) ==
    LET r == wire[n] IN
    /\ \/ r.op = "getSettings" /\ Answered(n, st) /\ UNCHANGED <<st, handling>>
       \/ /\ r.op = "putSettings" /\ n \in DOMAIN handling
          /\ Answered(n, "ok") /\ UpdateSettings(handling[n])
          /\ handling' = Restrict(handling, DOMAIN handling \ {n})
       \/ r.op = "getYaml" /\ Answered(n, ConfigYaml) /\ UNCHANGED <<st, handling>>
       \/ r.op = "putYaml" /\ r.arg # "" /\ Answered(n, "ok") /\ st' = [st EXCEPT !.raw = r.arg]
          /\ UNCHANGED handling
       \/ r.op = "deleteYaml" /\ Answered(n, "ok") /\ st' = [st EXCEPT !.raw = ""] /\ UNCHANGED handling
    /\ UNCHANGED <<users, cfg, unread>>

SystemConfigRequest(n) ==
    LET r == wire[n] IN
    /\ \/ r.op = "getConfig" /\ Answered(n, cfg) /\ UNCHANGED cfg
       \/ r.op = "putConfig" /\ Answered(n, "ok") /\ cfg' = r.arg.body
    /\ UNCHANGED <<st, users, handling, unread>>

ServeRequest ==
    /\ \E n \in DOMAIN wire :
          /\ wire[n].st \in {"sent", "lost"}
          /\ UserRequest(n) \/ ReadStored(n) \/ SettingsRequest(n) \/ SystemConfigRequest(n)
    /\ UNCHANGED <<cards, flags, clicks>>

-----------------------------------------------------------------------------
(* Sending and answering. *)

Request(op, arg, flag) == [op |-> op, arg |-> arg, flag |-> flag, st |-> "sent", ans |-> ""]

Sends(op, arg, flag) ==
    /\ clicks < MaxClicks /\ clicks' = clicks + 1
    /\ wire' = Put(wire, clicks', Request(op, arg, flag))
    /\ flags' = flags \cup ({flag} \ {""})
    /\ UNCHANGED serverSide

Follows(n, op, flag) == wire' = [wire EXCEPT ![n] = Request(op, "", flag)]

Succeeded(n, op) == wire[n].op = op /\ wire[n].st = "done"

(* Refused, or failed in the client: then it may still be on its way.      *)
Failed(n, op) ==
    /\ wire[n].op = op /\ wire[n].st # "lost"
    /\ \/ wire' = Without(n)
       \/ wire[n].st = "sent" /\ wire' = [wire EXCEPT ![n].st = "lost"]

Ended(n, op) == (Succeeded(n, op) /\ wire' = Without(n)) \/ Failed(n, op)

(* A button is disabled while its flag is set.                             *)
Idle(flag) == flag \notin flags

-----------------------------------------------------------------------------
(* AppSettingsCard. *)

SettingsFetched ==
    /\ \E n \in DOMAIN wire :
          \/ Succeeded(n, "getSettings") /\ settings' = wire[n].ans /\ wire' = Without(n)
          \/ Failed(n, "getSettings") /\ UNCHANGED settings
    /\ flags' = flags \ {"settings.loading"}
    /\ UNCHANGED <<serverSide, userCard, editor, configPage, clicks>>

SettingTyped ==
    /\ Idle("settings.loading") /\ clicks < MaxClicks /\ clicks' = clicks + 1
    /\ settings' = Put(settings, "mihomo_config_path", "typed")
    /\ UNCHANGED <<serverSide, userCard, editor, configPage, flags, wire>>

SettingsSave ==
    /\ Idle("settings.loading") /\ Idle("settings.saving")
    /\ Sends("putSettings", settings, "settings.saving")
    /\ UNCHANGED cards

SettingsSaved ==
    /\ \E n \in DOMAIN wire : Ended(n, "putSettings")
    /\ flags' = flags \ {"settings.saving"}
    /\ UNCHANGED <<serverSide, cards, clicks>>

-----------------------------------------------------------------------------
(* UserManagementCard and UserDialog. *)

ClosedDialog == [open |-> FALSE, editing |-> Nobody, role |-> "readonly"]
NoDialogOpen == ~userDialog.open /\ ~confirmOpen

UsersFetched ==
    /\ \E n \in DOMAIN wire :
          \/ Succeeded(n, "listUsers") /\ list' = wire[n].ans /\ wire' = Without(n)
          \/ Failed(n, "listUsers") /\ list' = [i \in Users |-> Nobody]
    /\ flags' = flags \ {"users.loading"}
    /\ UNCHANGED <<serverSide, settings, userDialog, deletingId, confirmOpen, editor, configPage, clicks>>

UserAddOrEdit ==
    /\ NoDialogOpen
    /\ \/ userDialog' = [ClosedDialog EXCEPT !.open = TRUE]
       \/ \E i \in Shown : userDialog' = [open |-> TRUE, editing |-> i, role |-> list[i]]
    /\ UNCHANGED <<serverSide, settings, list, deletingId, confirmOpen, editor, configPage, flags, wire, clicks>>

UserRoleChosen ==
    /\ userDialog.open /\ clicks < MaxClicks /\ clicks' = clicks + 1
    /\ \E role \in Roles \ {userDialog.role} : userDialog' = [userDialog EXCEPT !.role = role]
    /\ UNCHANGED <<serverSide, settings, list, deletingId, confirmOpen, editor, configPage, flags, wire>>

UserDialogClosed ==
    /\ userDialog.open
    /\ userDialog' = ClosedDialog
    /\ UNCHANGED <<serverSide, settings, list, deletingId, confirmOpen, editor, configPage, flags, wire, clicks>>

(* handleSave, once a name and a password are typed. *)
UserSave ==
    /\ userDialog.open /\ Idle("user.saving")
    /\ IF userDialog.editing = Nobody THEN Sends("createUser", [role |-> userDialog.role], "user.saving")
       ELSE Sends("updateUser", [id |-> userDialog.editing, role |-> userDialog.role], "user.saving")
    /\ UNCHANGED cards

(* onSaved fetches the users, and the dialog closes whatever it is open    *)
(* for by then.                                                            *)
UserSaved ==
    /\ \E n \in DOMAIN wire, op \in {"createUser", "updateUser"} :
          \/ Succeeded(n, op) /\ Follows(n, "listUsers", "") /\ userDialog' = ClosedDialog
          \/ Failed(n, op) /\ UNCHANGED userDialog
    /\ flags' = flags \ {"user.saving"}
    /\ UNCHANGED <<serverSide, settings, list, deletingId, confirmOpen, editor, configPage, clicks>>

UserDeleteClick ==
    /\ NoDialogOpen
    /\ \E i \in Shown \ {Me} : deletingId' = i
    /\ confirmOpen' = TRUE
    /\ UNCHANGED <<serverSide, settings, list, userDialog, editor, configPage, flags, wire, clicks>>

UserDeleteConfirm ==
    /\ confirmOpen
    /\ confirmOpen' = FALSE
    /\ \/ deletingId # Nobody /\ Sends("deleteUser", deletingId, "")
       \/ UNCHANGED <<serverSide, flags, wire, clicks>>
    /\ UNCHANGED <<settings, list, userDialog, deletingId, editor, configPage>>

UserDeleted ==
    /\ \E n \in DOMAIN wire :
          \/ Succeeded(n, "deleteUser") /\ Follows(n, "listUsers", "")
          \/ Failed(n, "deleteUser")
    /\ deletingId' = Nobody
    /\ UNCHANGED <<serverSide, settings, list, userDialog, confirmOpen, editor, configPage, flags, clicks>>

-----------------------------------------------------------------------------
(* ConfigEditorCard. *)

YamlFetched ==
    /\ \E n \in DOMAIN wire :
          /\ \/ Succeeded(n, "getYaml") /\ editor' = wire[n].ans /\ wire' = Without(n)
             \/ Failed(n, "getYaml") /\ UNCHANGED editor
          /\ flags' = flags \ {"editor.loading", wire[n].flag}
    /\ UNCHANGED <<serverSide, settings, userCard, configPage, clicks>>

YamlTyped ==
    /\ Idle("editor.loading") /\ clicks < MaxClicks /\ clicks' = clicks + 1
    /\ editor' = [editor EXCEPT !.content = "typed"]
    /\ UNCHANGED <<serverSide, settings, userCard, configPage, flags, wire>>

YamlSave ==
    /\ Idle("editor.loading") /\ Idle("editor.saving")
    /\ Sends("putYaml", editor.content, "editor.saving")
    /\ UNCHANGED cards

YamlSaved ==
    /\ \E n \in DOMAIN wire :
          \/ Succeeded(n, "putYaml") /\ editor' = [editor EXCEPT !.source = "draft"] /\ wire' = Without(n)
          \/ Failed(n, "putYaml") /\ UNCHANGED editor
    /\ flags' = flags \ {"editor.saving"}
    /\ UNCHANGED <<serverSide, settings, userCard, configPage, clicks>>

YamlClear ==
    /\ Idle("editor.loading") /\ Idle("editor.clearing") /\ editor.source = "draft"
    /\ Sends("deleteYaml", "", "editor.clearing")
    /\ UNCHANGED cards

(* As YamlCleared when an error leaves before the flag is cleared. *)
YamlClearedNoFinally ==
    /\ \E n \in DOMAIN wire :
          \/ Succeeded(n, "deleteYaml") /\ Follows(n, "getYaml", "editor.clearing") /\ UNCHANGED flags
          \/ Failed(n, "deleteYaml") /\ UNCHANGED flags
    /\ UNCHANGED <<serverSide, cards, clicks>>

(* The file is fetched before the flag is cleared. *)
YamlCleared ==
    /\ \E n \in DOMAIN wire :
          \/ Succeeded(n, "deleteYaml") /\ Follows(n, "getYaml", "editor.clearing") /\ UNCHANGED flags
          \/ Failed(n, "deleteYaml") /\ flags' = flags \ {"editor.clearing"}
    /\ UNCHANGED <<serverSide, cards, clicks>>

-----------------------------------------------------------------------------
(* SystemConfigPage. *)

(* As SetNestedValue when only the last key of the path is used. *)
SetLastKey(c, s, k, v) == Put(c, k, v)

(* As SetNestedValue when the section is not copied. *)
SetSection(c, s, k, v) == Put(c, s, [x \in {k} |-> v])

SetNestedValue(c, s, k, v) == Put(c, s, Put(IF s \in DOMAIN c THEN c[s] ELSE << >>, k, v))

(* A failed load leaves the page empty, and its Save button enabled.       *)
ConfigFetched ==
    /\ \E n \in DOMAIN wire :
          \/ Succeeded(n, "getConfig") /\ config' = wire[n].ans /\ loaded' = wire[n].ans /\ wire' = Without(n)
          \/ Failed(n, "getConfig") /\ UNCHANGED <<config, loaded>>
    /\ flags' = flags \ {"config.loading"}
    /\ UNCHANGED <<serverSide, settings, userCard, editor, edited, clicks>>

ConfigSet ==
    /\ Idle("config.loading") /\ clicks < MaxClicks /\ clicks' = clicks + 1
    /\ \E s \in DOMAIN Keys : \E k \in Keys[s] :
          /\ config' = SetNestedValue(config, s, k, "typed")
          /\ edited' = edited \cup {<<s, k>>}
    /\ UNCHANGED <<serverSide, settings, userCard, editor, loaded, flags, wire>>

ConfigSave ==
    /\ Idle("config.loading") /\ Idle("config.saving")
    /\ Sends("putConfig", [body |-> config, loaded |-> loaded, edited |-> edited], "config.saving")
    /\ UNCHANGED cards

ConfigSaved ==
    /\ \E n \in DOMAIN wire : Ended(n, "putConfig")
    /\ flags' = flags \ {"config.saving"}
    /\ UNCHANGED <<serverSide, cards, clicks>>

-----------------------------------------------------------------------------
ServerStart ==
    /\ st = [mihomo_config |-> "path", isolation_dns |-> "dns", raw |-> ""]
    /\ users = [i \in Users |-> IF i = Me THEN "admin" ELSE Nobody]
    /\ cfg = [s \in DOMAIN Keys |-> [k \in Keys[s] |-> "stored"]]
    /\ handling = << >> /\ unread = 0

First(op, flag) == [n \in {0} |-> Request(op, "", flag)]

(* which is the page that mounts, "none" when it is another. *)
SettingsStart(which) ==
    /\ ServerStart
    /\ settings = << >> /\ list = [i \in Users |-> Nobody]
    /\ userDialog = ClosedDialog /\ deletingId = Nobody /\ confirmOpen = FALSE
    /\ editor = [content |-> "", source |-> "file"]
    /\ config = << >> /\ loaded = << >> /\ edited = {}
    /\ wire = CASE which = "settings"      -> First("getSettings", "settings.loading")
                [] which = "users"         -> First("listUsers", "users.loading")
                [] which = "editor"        -> First("getYaml", "editor.loading")
                [] which = "system-config" -> First("getConfig", "config.loading")
                [] OTHER                   -> << >>
    /\ flags = {wire[n].flag : n \in DOMAIN wire}
    /\ clicks = 0

SettingsCardNext == ServeRequest \/ SettingsFetched \/ SettingTyped \/ SettingsSave \/ SettingsSaved
UsersCardNext ==
    \/ ServeRequest \/ UsersFetched \/ UserAddOrEdit \/ UserRoleChosen \/ UserDialogClosed \/ UserSave
    \/ UserSaved \/ UserDeleteClick \/ UserDeleteConfirm \/ UserDeleted
EditorCardNext ==
    ServeRequest \/ YamlFetched \/ YamlTyped \/ YamlSave \/ YamlSaved \/ YamlClear \/ YamlCleared
SystemConfigNext == ServeRequest \/ ConfigFetched \/ ConfigSet \/ ConfigSave \/ ConfigSaved

-----------------------------------------------------------------------------
SettingsTypeOK ==
    /\ DOMAIN st = {"mihomo_config", "isolation_dns", "raw"}
    /\ {users, list} \subseteq [Users -> Roles \cup {Nobody}]
    /\ \A c \in {cfg, config} : \A s \in DOMAIN c :
          s \in DOMAIN Keys /\ DOMAIN c[s] \subseteq Keys[s] /\ \A k \in DOMAIN c[s] : c[s][k] \in {"stored", "typed"}
    /\ deletingId \in Users \cup {Nobody}
    /\ editor.source \in {"draft", "file"}

(* The isolation settings of an operator survive a page that shows none of *)
(* them, one whose load failed and a late request, with other puts between *)
(* a put's read and its write, as long as every put could read the row.    *)
(* The handler promises it without that condition ("existing clients ...   *)
(* cannot silently clear them", handler/settings.go): a put whose read     *)
(* fails stores them empty and answers ok.                                 *)
IsolationSurvives == unread = 0 => st.isolation_dns # ""

(* What a save of the system configuration stores is what the page loaded, *)
(* except for the paths that were set: the siblings of an edited key and   *)
(* the keys the page has no input for go back unchanged.                   *)
SavesWhatWasLoaded ==
    \A n \in DOMAIN wire : wire[n].op = "putConfig" =>
        LET saved == wire[n].arg IN
        \A s \in DOMAIN saved.loaded : \A k \in DOMAIN saved.loaded[s] :
            <<s, k>> \notin saved.edited =>
                k \in DOMAIN saved.body[s] /\ saved.body[s][k] = saved.loaded[s][k]

(* A spinner or a disabled button waits for a request that is still out.   *)
FlagsMeanWork == \A f \in flags : \E n \in DOMAIN wire : wire[n].flag = f /\ wire[n].st # "lost"

(* What was typed in the settings card is in force once it is saved        *)
(* (README.md, "go to Settings and configure").                            *)
SettingsAreSaved ==
    [][\A n \in DOMAIN wire \cap DOMAIN wire' :
         (wire[n].op = "putSettings" /\ wire[n].st = "sent" /\ wire'[n].st = "done"
            /\ "mihomo_config_path" \in DOMAIN wire[n].arg)
         => st'.mihomo_config = wire[n].arg["mihomo_config_path"]]_settingsVars
=============================================================================
