----------------------------- MODULE ItemForms -----------------------------
(***************************************************************************)
(* The dialogs that create and edit proxies, proxy groups, rules and rule  *)
(* providers: proxy-form.tsx, group-form.tsx with group-member-list.tsx,   *)
(* rule-form.tsx and the dialog of rule-providers.tsx.  A dialog is filled *)
(* when it opens, changed input by input, and makes a request body.  When  *)
(* the pages open and close it is in CrudPage.                             *)
(*                                                                         *)
(* A value is named by the type that was selected when it was entered: "" *)
(* is an input that was never filled.  The server stands for the port too. *)
(***************************************************************************)
EXTENDS Naturals, Sequences, FiniteSets

CONSTANTS
    ProxyRows, GroupRows, RuleRows, ProviderRows,   \* rows the pages may edit
    ProxyTypesUsed, RuleTypesUsed,                  \* bound: the types selected
    Available,                                      \* members a group has or may get
    MaxInputs,                                      \* bound: inputs per dialog
    New                                             \* the dialog that creates

VARIABLES
    dialog,     \* "closed", "proxy", "group", "rule" or "provider"
    row,        \* the row the dialog edits, or New
    fields,     \* the dialog's form state
    inputs,     \* inputs so far
    sent        \* the request just made: [kind, row, body]; empty otherwise

formsVars == <<dialog, row, fields, inputs, sent>>

-----------------------------------------------------------------------------
(* What each type has. *)

PROTOCOL_FIELDS ==
    [ss        |-> {"cipher", "password", "udp"},
     trojan    |-> {"password", "sni", "skip-cert-verify"},
     vmess     |-> {"uuid", "alterId", "cipher", "tls", "servername", "network"},
     vless     |-> {"uuid", "flow", "tls", "servername", "network"},
     http      |-> {"username", "password", "tls"},
     socks5    |-> {"username", "password", "tls", "udp"},
     hysteria2 |-> {"password", "obfs", "obfs-password", "sni", "skip-cert-verify"},
     tuic      |-> {"uuid", "password", "congestion-controller", "sni", "skip-cert-verify"}]

FieldsOf(t) == IF t \in DOMAIN PROTOCOL_FIELDS THEN PROTOCOL_FIELDS[t] ELSE {}

GROUP_TYPES      == {"select", "fallback", "url-test", "load-balance", "relay"}
RULE_TYPES       == {"DOMAIN", "DOMAIN-SUFFIX", "DOMAIN-KEYWORD", "IP-CIDR", "IP-CIDR6", "SRC-IP-CIDR",
                     "DST-PORT", "PROCESS-NAME", "GEOIP", "RULE-SET", "MATCH"}
NO_RESOLVE_TYPES == {"IP-CIDR", "IP-CIDR6", "SRC-IP-CIDR"}
NO_PAYLOAD_TYPES == {"MATCH"}

Restricted(f, S) == [k \in DOMAIN f \cap S |-> f[k]]
WithField(f, k, v) == [x \in DOMAIN f \cup {k} |-> IF x = k THEN v ELSE f[x]]

(* What the server stores: imported items have whatever type and members   *)
(* the file had, a known one or not, and once or more.                     *)
ASSUME FormsAssumption ==
    /\ \A r \in GroupRows : r.members \in Seq(Available)
    /\ \A r \in RuleRows : r.payload \in {"", r.type}
    /\ ProxyTypesUsed \subseteq DOMAIN PROTOCOL_FIELDS /\ RuleTypesUsed \subseteq RULE_TYPES
    /\ MaxInputs \in Nat

-----------------------------------------------------------------------------
(* Filling: the effect on [open, item]. *)

ValueOr(config, k, default) == IF k \in DOMAIN config THEN config[k] ELSE default

ProxyFields(r) ==
    IF r = New THEN [type |-> "ss", server |-> "", config |-> << >>]
    ELSE [type |-> r.type, server |-> ValueOr(r.config, "server", ""), config |-> r.config]

DefaultGroup == [type |-> "select", members |-> << >>, url |-> "default", strategy |-> "default"]
GroupFields(r) ==
    IF r = New THEN DefaultGroup
    ELSE [type |-> r.type, members |-> r.members, url |-> ValueOr(r.config, "url", "default"),
          strategy |-> ValueOr(r.config, "strategy", "default")]

RuleFields(r) ==
    IF r = New THEN [type |-> "DOMAIN", payload |-> "", noResolve |-> FALSE]
    ELSE [type |-> r.type, payload |-> r.payload, noResolve |-> r.noResolve]

(* A new rule for what a connection shows: overview.tsx, connection-table. *)
RuleFieldsFor(t) == [type |-> t, payload |-> t, noResolve |-> FALSE]

ProviderFields(r) ==
    IF r = New THEN [type |-> "http", url |-> "", path |-> ""]
    ELSE [type |-> r.type, url |-> ValueOr(r.config, "url", ""),
          path |-> ValueOr(r.config, "path", "")]

-----------------------------------------------------------------------------
(* Inputs. *)

(* As ProxyTypeChosen when the whole configuration is kept. *)
ProxyTypeKept(f, t) == [f EXCEPT !.type = t]

(* Fields that both protocols have are kept, everything else is dropped.   *)
ProxyTypeChosen(f, t) ==
    [f EXCEPT !.type = t,
              !.config = Restricted(@, FieldsOf(f.type) \cap FieldsOf(t))]

ProxyInputs(f) ==
    {ProxyTypeChosen(f, t) : t \in ProxyTypesUsed}
    \cup {[f EXCEPT !.config = WithField(@, k, f.type)] : k \in FieldsOf(f.type)}
    \cup {[f EXCEPT !.server = f.type]}

Has(s, x) == \E i \in 1..Len(s) : s[i] = x

(* As MemberAdded without the look at the list. *)
MemberAppended(f, x) == [f EXCEPT !.members = Append(@, x)]

MemberAdded(f, x) == IF Has(f.members, x) THEN f ELSE [f EXCEPT !.members = Append(@, x)]

(* filter: the k-th that stays is the one with k up to it that stay.       *)
MemberRemoved(f, x) ==
    LET m == f.members
        Stay == {i \in 1..Len(m) : m[i] # x}
        Nth(k) == CHOOSE i \in Stay : Cardinality({j \in Stay : j <= i}) = k IN
    [f EXCEPT !.members = [k \in 1..Cardinality(Stay) |-> m[Nth(k)]]]

(* arrayMove: the member at i is taken out and put back at j. *)
MemberMoved(f, i, j) ==
    LET m == f.members
        Without == [k \in 1..(Len(m) - 1) |-> IF k < i THEN m[k] ELSE m[k + 1]] IN
    [f EXCEPT !.members = [k \in 1..Len(m) |-> IF k = j THEN m[i]
                                               ELSE IF k < j THEN Without[k] ELSE Without[k - 1]]]

(* The + button may add what the select held before its last addition.     *)
GroupInputs(f) ==
    {[f EXCEPT !.type = t] : t \in GROUP_TYPES}
    \cup {MemberAdded(f, x) : x \in Available}
    \cup {MemberRemoved(f, f.members[i]) : i \in 1..Len(f.members)}
    \cup {MemberMoved(f, i, j) : i, j \in 1..Len(f.members)}
    \cup (IF f.type \in {"url-test", "fallback"} THEN {[f EXCEPT !.url = "typed"]} ELSE {})
    \cup (IF f.type = "load-balance" THEN {[f EXCEPT !.strategy = "typed"]} ELSE {})

RuleTypeChosen(f, t) == [f EXCEPT !.type = t, !.payload = ""]
RuleInputs(f) ==
    {RuleTypeChosen(f, t) : t \in RuleTypesUsed}
    \cup (IF f.type \in NO_PAYLOAD_TYPES THEN {} ELSE {[f EXCEPT !.payload = f.type]})
    \cup (IF f.type \in NO_RESOLVE_TYPES THEN {[f EXCEPT !.noResolve = ~@]} ELSE {})

ProviderInputs(f) ==
    {[f EXCEPT !.type = t] : t \in {"http", "file"}}
    \cup (IF f.type = "http" THEN {[f EXCEPT !.url = "http"]} ELSE {})
    \cup {[f EXCEPT !.path = "typed"]}

-----------------------------------------------------------------------------
(* handleSubmit; the inputs marked required must be filled. *)

ProxyBody(f) == [type |-> f.type, config |-> WithField(f.config, "server", f.server)]

GroupConfig(f) ==
    IF f.type \in {"url-test", "fallback"} THEN [url |-> f.url]
    ELSE IF f.type = "load-balance" THEN [strategy |-> f.strategy] ELSE << >>
GroupBody(f) == [type |-> f.type, config |-> GroupConfig(f), members |-> f.members]

RuleBody(f) ==
    [type |-> f.type, payload |-> IF f.type \in NO_PAYLOAD_TYPES THEN "" ELSE f.payload,
     noResolve |-> f.type \in NO_RESOLVE_TYPES /\ f.noResolve]

ProviderBody(f) ==
    [type |-> f.type,
     config |-> IF f.type = "http" THEN [path |-> f.path, url |-> f.url] ELSE [path |-> f.path]]

Complete(f) ==
    CASE dialog = "proxy"    -> f.server # ""
      [] dialog = "group"    -> TRUE
      [] dialog = "rule"     -> f.type \in NO_PAYLOAD_TYPES \/ f.payload # ""
      [] dialog = "provider" -> IF f.type = "http" THEN f.url # "" ELSE f.path # ""

Body(f) ==
    CASE dialog = "proxy" -> ProxyBody(f) [] dialog = "group" -> GroupBody(f)
      [] dialog = "rule" -> RuleBody(f)   [] dialog = "provider" -> ProviderBody(f)

-----------------------------------------------------------------------------
Show(kind, r, f) == dialog' = kind /\ row' = r /\ fields' = f /\ inputs' = 0 /\ sent' = << >>

OpenDialog ==
    /\ dialog = "closed"
    /\ \/ \E r \in ProxyRows \cup {New} : Show("proxy", r, ProxyFields(r))
       \/ \E r \in GroupRows \cup {New} : Show("group", r, GroupFields(r))
       \/ \E r \in RuleRows \cup {New} : Show("rule", r, RuleFields(r))
       \/ \E t \in RuleTypesUsed \ NO_PAYLOAD_TYPES : Show("rule", New, RuleFieldsFor(t))
       \/ \E r \in ProviderRows \cup {New} : Show("provider", r, ProviderFields(r))

ChangeInput ==
    /\ inputs < MaxInputs
    /\ \/ dialog = "proxy" /\ fields' \in ProxyInputs(fields)
       \/ dialog = "group" /\ fields' \in GroupInputs(fields)
       \/ dialog = "rule" /\ fields' \in RuleInputs(fields)
       \/ dialog = "provider" /\ fields' \in ProviderInputs(fields)
    /\ inputs' = inputs + 1 /\ sent' = << >>
    /\ UNCHANGED <<dialog, row>>

SubmitDialog ==
    /\ dialog # "closed" /\ Complete(fields)
    /\ sent' = [kind |-> dialog, row |-> row, body |-> Body(fields)]
    /\ UNCHANGED <<dialog, row, fields, inputs>>

CloseDialog ==
    /\ dialog # "closed"
    /\ dialog' = "closed" /\ row' = New /\ fields' = << >> /\ inputs' = 0 /\ sent' = << >>

FormsInit == dialog = "closed" /\ row = New /\ fields = << >> /\ inputs = 0 /\ sent = << >>
FormsNext == OpenDialog \/ ChangeInput \/ SubmitDialog \/ CloseDialog

-----------------------------------------------------------------------------
TypesOf(rows) == {r.type : r \in rows}

FormsTypeOK ==
    /\ dialog \in {"closed", "proxy", "group", "rule", "provider"}
    /\ inputs \in 0..MaxInputs
    /\ dialog = "group" => /\ fields.type \in GROUP_TYPES \cup TypesOf(GroupRows)
                           /\ \A i \in DOMAIN fields.members : fields.members[i] \in Available
    /\ dialog = "rule" => fields.type \in RULE_TYPES \cup TypesOf(RuleRows)
    /\ dialog = "proxy" => fields.type \in DOMAIN PROTOCOL_FIELDS \cup TypesOf(ProxyRows)

Sent(kind) == sent # << >> /\ sent.kind = kind

(* Nothing of one type ends in an item of another: a proxy that changed    *)
(* its protocol has the fields of the new one and no leftovers, a group    *)
(* or a provider the options of its type, and a rule the payload that was  *)
(* entered for its type.                                                   *)
SentBelongsToType ==
    LET b == sent.body IN
    /\ Sent("proxy") =>
         LET Kept == sent.row # New /\ sent.row.type = b.type IN
         ~Kept => DOMAIN b.config \subseteq {"server"} \cup FieldsOf(b.type)
    /\ Sent("rule") => b.payload = IF b.type = "MATCH" THEN "" ELSE b.type
    /\ Sent("rule") => (b.noResolve => b.type \in NO_RESOLVE_TYPES)
    /\ Sent("provider") => ("url" \in DOMAIN b.config <=> b.type = "http")
    /\ Sent("group") => ("url" \in DOMAIN b.config => b.type \in {"url-test", "fallback"})

Distinct(m) == \A i, j \in 1..Len(m) : m[i] = m[j] => i = j

(* The dialog never makes a group list a member twice, in whatever order   *)
(* members are added, removed and dragged: the list finds members by their *)
(* name.                                                                   *)
MembersAreDistinct ==
    Sent("group") /\ (sent.row # New => Distinct(sent.row.members)) => Distinct(sent.body.members)
=============================================================================
