-------------------------- MODULE WebConsoleProofs --------------------------
(***************************************************************************)
(* Type correctness and the invariants of the item dialogs, the settings   *)
(* cards and the system configuration, for every value of the constants.   *)
(* The components share no variable, so each has an invariant of its own   *)
(* and a lemma that its steps preserve it; Spec is put together last.      *)
(***************************************************************************)
EXTENDS WebConsole, FiniteSetTheorems, WellFoundedInduction, TLAPS

-----------------------------------------------------------------------------
(* The inductive invariant of the dialogs. *)

(* Either the configuration is still that of the row, of the row's type,   *)
(* or it has nothing that is not the selected type's.                      *)
ProxyDialogOK ==
    /\ DOMAIN fields = {"type", "server", "config"} /\ row \in ProxyRows \cup {New}
    /\ fields.type \in DOMAIN PROTOCOL_FIELDS \cup TypesOf(ProxyRows)
    /\ (row # New /\ row.type = fields.type) \/ DOMAIN fields.config \subseteq FieldsOf(fields.type)

GroupDialogOK ==
    /\ DOMAIN fields = {"type", "members", "url", "strategy"} /\ row \in GroupRows \cup {New}
    /\ fields.type \in GROUP_TYPES \cup TypesOf(GroupRows)
    /\ fields.members \in Seq(Available)
    /\ (row # New => Distinct(row.members)) => Distinct(fields.members)

(* The payload was entered for the selected type, or not at all.           *)
RuleDialogOK ==
    /\ DOMAIN fields = {"type", "payload", "noResolve"}
    /\ fields.type \in RULE_TYPES \cup TypesOf(RuleRows)
    /\ fields.payload \in {"", fields.type}

(* What was sent is what the dialog shows: every input and every opening   *)
(* forgets it.                                                             *)
SentIsShown ==
    sent = << >> \/ (Complete(fields) /\ sent = [kind |-> dialog, row |-> row, body |-> Body(fields)])

FormsInv ==
    /\ dialog \in {"closed", "proxy", "group", "rule", "provider"}
    /\ inputs \in 0..MaxInputs
    /\ dialog = "proxy" => ProxyDialogOK
    /\ dialog = "group" => GroupDialogOK
    /\ dialog = "rule" => RuleDialogOK
    /\ SentIsShown

-----------------------------------------------------------------------------
(* The inductive invariant of the settings page and the configuration.     *)

UserTable == [Users -> Roles \cup {Nobody}]

ConfigOK(c) ==
    \A s \in DOMAIN c :
        s \in DOMAIN Keys /\ DOMAIN c[s] \subseteq Keys[s] /\ \A k \in DOMAIN c[s] : c[s][k] \in {"stored", "typed"}

(* c is what was loaded except for the paths that were set. *)
KeepsLoaded(c, l, e) ==
    \A s \in DOMAIN l : s \in DOMAIN c /\ \A k \in DOMAIN l[s] :
        <<s, k>> \notin e => k \in DOMAIN c[s] /\ c[s][k] = l[s][k]

(* The flags that may wait for a request. *)
FlagOK(op, flag) ==
    /\ op = "getSettings" => flag = "settings.loading"
    /\ op = "putSettings" => flag = "settings.saving"
    /\ op = "listUsers" => flag \in {"", "users.loading"}
    /\ op \in {"createUser", "updateUser"} => flag = "user.saving"
    /\ op = "deleteUser" => flag = ""
    /\ op = "putYaml" => flag = "editor.saving"
    /\ op = "deleteYaml" => flag = "editor.clearing"
    /\ op = "getConfig" => flag = "config.loading"
    /\ op = "putConfig" => flag = "config.saving"

(* What a request asks for, and what its answer is once it has one.        *)
ArgOK(op, arg) ==
    /\ op \in {"createUser", "updateUser"} => arg.role \in Roles
    /\ op = "updateUser" => arg.id \in Users
    /\ op = "deleteUser" => arg \in Users
    /\ op = "putConfig" => ConfigOK(arg.body) /\ KeepsLoaded(arg.body, arg.loaded, arg.edited)
AnswerOK(op, ans) ==
    /\ op = "listUsers" => ans \in UserTable
    /\ op = "getYaml" => DOMAIN ans = {"content", "source"} /\ ans.source \in {"draft", "file"}
    /\ op = "getConfig" => ConfigOK(ans)
RequestOK(r) ==
    /\ DOMAIN r = {"op", "arg", "flag", "st", "ans"}
    /\ FlagOK(r.op, r.flag)
    /\ ArgOK(r.op, r.arg)
    /\ r.st = "done" => AnswerOK(r.op, r.ans)

WireInv ==
    /\ clicks \in Nat
    /\ DOMAIN wire \subseteq 0..clicks
    /\ \A n \in DOMAIN wire : RequestOK(wire[n])

(* What the handlers of puts are about to store. *)
HandlersKeep == unread = 0 => \A n \in DOMAIN handling : At(handling[n], "isolation_dns") # ""

ServerOK ==
    /\ DOMAIN st = {"mihomo_config", "isolation_dns", "raw"}
    /\ IsolationSurvives /\ HandlersKeep /\ unread \in Nat
    /\ users \in UserTable
    /\ ConfigOK(cfg)
UserCardOK ==
    /\ list \in UserTable
    /\ DOMAIN userDialog = {"open", "editing", "role"}
    /\ userDialog.role \in Roles /\ userDialog.editing \in Users \cup {Nobody}
    /\ deletingId \in Users \cup {Nobody}
EditorOK == DOMAIN editor = {"content", "source"} /\ editor.source \in {"draft", "file"}
ConfigPageOK == ConfigOK(config) /\ KeepsLoaded(config, loaded, edited)
FlagsOK == "" \notin flags /\ FlagsMeanWork

SettingsInv == WireInv /\ ServerOK /\ UserCardOK /\ EditorOK /\ ConfigPageOK /\ FlagsOK

-----------------------------------------------------------------------------
(* Sets of numbers, and lists. *)

(* A nonempty set of natural numbers has a smallest one. *)
LEMMA Smallest ==
    ASSUME NEW T \in SUBSET Nat, T # {}
    PROVE  \E i \in T : \A j \in T : i <= j
<1>1. IsWellFoundedOn(OpToRel(<, Nat), Nat)
  BY NatLessThanWellFounded
<1>2. PICK i \in T : \A j \in T : ~(<<j, i>> \in OpToRel(<, Nat))
  BY <1>1, WFMin
<1>3. \A j \in T : i <= j
  <2>1. TAKE j \in T
  <2>2. ~(j < i)
    BY <1>2, <2>1 DEF OpToRel
  <2>3. QED
    BY <2>1, <2>2
<1>4. QED
  BY <1>3

(* A nonempty set of numbers up to n has a largest one. *)
LEMMA Largest ==
    ASSUME NEW n \in Nat, NEW T \in SUBSET (1..n), T # {}
    PROVE  \E i \in T : \A j \in T : j <= i
<1>1. DEFINE D == {y \in 0..n : n - y \in T}
<1>2. PICK t \in T : t \in 1..n
  OBVIOUS
<1>3. D \in SUBSET Nat /\ n - t \in D
  BY <1>2
<1>4. PICK d \in D : \A e \in D : d <= e
  BY <1>3, Smallest
<1>5. \A j \in T : j <= n - d
  <2>1. TAKE j \in T
  <2>2. j \in 1..n /\ n - j \in D
    OBVIOUS
  <2>3. d <= n - j
    BY <1>4, <2>2
  <2>4. QED
    BY <1>4, <2>2, <2>3
<1>6. QED
  BY <1>4, <1>5

(* The members of a set of numbers can be counted off: some member has     *)
(* exactly k members up to it.                                             *)
LEMMA Ranks ==
    ASSUME NEW n \in Nat, NEW S \in SUBSET (1..n), NEW k \in 1..Cardinality(S)
    PROVE  \E i \in S : Cardinality({j \in S : j <= i}) = k
<1>1. DEFINE Upto(i) == {j \in S : j <= i}
             T == {i \in 0..n : Cardinality(Upto(i)) >= k}
<1>2. IsFiniteSet(S) /\ Cardinality(S) \in Nat
  <2>1. IsFiniteSet(1..n)
    BY FS_Interval
  <2>2. IsFiniteSet(S)
    BY <2>1, FS_Subset
  <2>3. QED
    BY <2>2, FS_CardinalityType
<1>3. \A i : Upto(i) \in SUBSET S /\ IsFiniteSet(Upto(i)) /\ Cardinality(Upto(i)) \in Nat
  <2>1. TAKE i
  <2>2. Upto(i) \in SUBSET S
    OBVIOUS
  <2>3. IsFiniteSet(Upto(i))
    BY <1>2, <2>2, FS_Subset
  <2>4. QED
    BY <2>2, <2>3, FS_CardinalityType
<1>4. n \in T
  <2>1. \A j \in S : j <= n
    OBVIOUS
  <2>2. Upto(n) = S
    BY <2>1
  <2>3. QED
    BY <1>2, <2>2
<1>5. 0 \notin T
  <2>1. \A j \in S : ~(j <= 0)
    OBVIOUS
  <2>2. Upto(0) = {}
    BY <2>1
  <2>3. Cardinality(Upto(0)) = 0
    BY <2>2, FS_EmptySet
  <2>4. QED
    BY <2>3
<1>6. T \in SUBSET Nat
  OBVIOUS
<1>7. PICK i \in T : \A j \in T : i <= j
  BY <1>4, <1>6, Smallest
<1>8. i \in 1..n /\ i - 1 \in 0..n /\ i - 1 \notin T
  <2>1. i \in 0..n /\ i # 0
    BY <1>5, <1>7
  <2>2. i \in 1..n /\ i - 1 \in 0..n /\ ~(i <= i - 1)
    BY <2>1
  <2>3. QED
    BY <1>7, <2>2
<1>9. Cardinality(Upto(i)) >= k /\ Cardinality(Upto(i - 1)) < k
  <2>1. Cardinality(Upto(i - 1)) \in Nat
    BY <1>3
  <2>2. ~(Cardinality(Upto(i - 1)) >= k)
    BY <1>8
  <2>3. QED
    BY <1>7, <2>1, <2>2
<1>10. \A j \in S : j <= i <=> j <= i - 1 \/ j = i
  BY <1>8
<1>11. i \notin Upto(i - 1)
  BY <1>8
<1>12. i \in S
  <2>1. SUFFICES ASSUME i \notin S PROVE FALSE
    OBVIOUS
  <2>2. Upto(i) = Upto(i - 1)
    BY <1>10, <2>1
  <2>3. QED
    BY <1>3, <1>9, <2>2
<1>13. Upto(i) = Upto(i - 1) \cup {i}
  BY <1>10, <1>12
<1>14. Cardinality(Upto(i)) = Cardinality(Upto(i - 1)) + 1
  <2>1. IsFiniteSet(Upto(i - 1))
    BY <1>3
  <2>2. QED
    BY <1>11, <1>13, <2>1, FS_AddElement
<1>15. k \in Nat
  BY <1>2
<1>16. Cardinality(Upto(i)) = k
  <2>1. Cardinality(Upto(i - 1)) \in Nat
    BY <1>3
  <2>2. QED
    BY <1>9, <1>14, <1>15, <2>1
<1>17. QED
  BY <1>12, <1>16

-----------------------------------------------------------------------------
(* The member list. *)

(* Removing a name leaves a list, without new repetitions. *)
LEMMA Removed ==
    ASSUME NEW f, "members" \in DOMAIN f, f.members \in Seq(Available), NEW x
    PROVE  /\ MemberRemoved(f, x).members \in Seq(Available)
           /\ Distinct(f.members) => Distinct(MemberRemoved(f, x).members)
<1>1. DEFINE m == f.members
             Stay == {i \in 1..Len(m) : m[i] # x}
             Nth(k) == CHOOSE i \in Stay : Cardinality({j \in Stay : j <= i}) = k
             g == [k \in 1..Cardinality(Stay) |-> m[Nth(k)]]
<1>2. MemberRemoved(f, x).members = g
  BY DEF MemberRemoved
<1>3. Len(m) \in Nat /\ Stay \in SUBSET (1..Len(m))
  OBVIOUS
<1>4. Cardinality(Stay) \in Nat
  <2>1. IsFiniteSet(1..Len(m))
    BY <1>3, FS_Interval
  <2>2. IsFiniteSet(Stay)
    BY <1>3, <2>1, FS_Subset
  <2>3. QED
    BY <2>2, FS_CardinalityType
<1>5. \A k \in 1..Cardinality(Stay) : Nth(k) \in Stay /\ Cardinality({j \in Stay : j <= Nth(k)}) = k
  <2>1. TAKE k \in 1..Cardinality(Stay)
  <2>2. \E i \in Stay : Cardinality({j \in Stay : j <= i}) = k
    BY <1>3, <2>1, Ranks
  <2>3. QED
    BY <2>2
<1>6. \A i \in Stay : i \in 1..Len(m) /\ m[i] \in Available
  BY <1>3
<1>7. \A a, b \in 1..Cardinality(Stay) : Nth(a) = Nth(b) => a = b
  <2>1. TAKE a, b \in 1..Cardinality(Stay)
  <2>2. HAVE Nth(a) = Nth(b)
  <2>3. Cardinality({j \in Stay : j <= Nth(a)}) = a /\ Cardinality({j \in Stay : j <= Nth(b)}) = b
    BY <1>5
  <2>4. HIDE DEF Nth, Stay
  <2>5. QED
    BY <2>2, <2>3
<1>8. HIDE DEF m, Stay, Nth
<1>9. g \in Seq(Available)
  <2>1. \A k \in 1..Cardinality(Stay) : m[Nth(k)] \in Available
    BY <1>5, <1>6
  <2>2. QED
    BY <1>4, <2>1
<1>10. Distinct(m) => Distinct(g)
  <2>1. SUFFICES ASSUME Distinct(m) PROVE Distinct(g)
    OBVIOUS
  <2>2. Len(g) = Cardinality(Stay)
    BY <1>4, <1>9
  <2>3. SUFFICES ASSUME NEW a \in 1..Cardinality(Stay), NEW b \in 1..Cardinality(Stay), g[a] = g[b]
                 PROVE  a = b
    BY <2>2 DEF Distinct
  <2>4. m[Nth(a)] = m[Nth(b)]
    BY <2>3
  <2>5. Nth(a) = Nth(b)
    BY <1>5, <1>6, <2>1, <2>3, <2>4 DEF Distinct
  <2>6. QED
    BY <1>7, <2>3, <2>5
<1>11. QED
  BY <1>2, <1>9, <1>10 DEF m

(* So does adding one that is not in the list. *)
LEMMA Added ==
    ASSUME NEW f, "members" \in DOMAIN f, f.members \in Seq(Available), NEW x \in Available
    PROVE  /\ MemberAdded(f, x).members \in Seq(Available)
           /\ Distinct(f.members) => Distinct(MemberAdded(f, x).members)
<1>1. CASE Has(f.members, x)
  BY <1>1 DEF MemberAdded
<1>2. CASE ~Has(f.members, x)
  <2>1. DEFINE m == f.members
  <2>2. MemberAdded(f, x).members = Append(m, x)
    BY <1>2 DEF MemberAdded
  <2>3. \A i \in 1..Len(m) : m[i] # x
    BY <1>2 DEF Has
  <2>4. Distinct(m) => Distinct(Append(m, x))
    BY <2>3 DEF Distinct
  <2>5. QED
    BY <2>2, <2>4
<1>3. QED
  BY <1>1, <1>2

(* Moving a member permutes the list: where(k) is the old place of the     *)
(* member at k.                                                            *)
LEMMA Moved ==
    ASSUME NEW f, "members" \in DOMAIN f, f.members \in Seq(Available),
           NEW i \in 1..Len(f.members), NEW j \in 1..Len(f.members)
    PROVE  /\ MemberMoved(f, i, j).members \in Seq(Available)
           /\ Distinct(f.members) => Distinct(MemberMoved(f, i, j).members)
<1>1. DEFINE m == f.members
             where(k) == IF k = j THEN i
                         ELSE IF k < j THEN IF k < i THEN k ELSE k + 1
                         ELSE IF k - 1 < i THEN k - 1 ELSE k
             g == MemberMoved(f, i, j).members
<1>2. Len(m) \in Nat /\ i \in 1..Len(m) /\ j \in 1..Len(m)
  OBVIOUS
<1>3. \A k \in 1..Len(m) : where(k) \in 1..Len(m)
  BY <1>2
<1>4. \A a, b \in 1..Len(m) : where(a) = where(b) => a = b
  BY <1>2
<1>5. DOMAIN g = 1..Len(m) /\ \A k \in 1..Len(m) : g[k] = m[where(k)]
  <2>1. DEFINE Gap == [k \in 1..(Len(m) - 1) |-> IF k < i THEN m[k] ELSE m[k + 1]]
               h == [k \in 1..Len(m) |-> IF k = j THEN m[i] ELSE IF k < j THEN Gap[k] ELSE Gap[k - 1]]
  <2>2. g = h
    BY DEF MemberMoved
  <2>3. \A k \in 1..Len(m) : h[k] = m[where(k)]
    <3>1. TAKE k \in 1..Len(m)
    <3>2. CASE k = j
      BY <3>2
    <3>3. CASE k < j
      <4>1. k \in 1..(Len(m) - 1)
        BY <1>2, <3>3
      <4>2. QED
        BY <3>3, <4>1
    <3>4. CASE k > j
      <4>1. k - 1 \in 1..(Len(m) - 1) /\ (k - 1) + 1 = k
        BY <1>2, <3>4
      <4>2. QED
        BY <1>2, <3>4, <4>1
    <3>5. QED
      BY <1>2, <3>2, <3>3, <3>4
  <2>4. QED
    BY <2>2, <2>3
<1>6. HIDE DEF where
<1>7. g \in Seq(Available)
  <2>1. \A k \in 1..Len(m) : m[where(k)] \in Available
    BY <1>3
  <2>2. g = [k \in 1..Len(m) |-> m[where(k)]]
    BY <1>5 DEF MemberMoved
  <2>3. QED
    BY <1>2, <2>1, <2>2
<1>8. Distinct(m) => Distinct(g)
  <2>1. SUFFICES ASSUME Distinct(m) PROVE Distinct(g)
    OBVIOUS
  <2>2. Len(g) = Len(m)
    BY <1>2, <1>5, <1>7
  <2>3. SUFFICES ASSUME NEW a \in 1..Len(m), NEW b \in 1..Len(m), g[a] = g[b]
                 PROVE  a = b
    BY <2>2 DEF Distinct
  <2>4. m[where(a)] = m[where(b)]
    BY <1>5, <2>3
  <2>5. where(a) = where(b)
    BY <1>3, <2>1, <2>3, <2>4 DEF Distinct
  <2>6. QED
    BY <1>4, <2>3, <2>5
<1>9. QED
  BY <1>7, <1>8

-----------------------------------------------------------------------------
(* The dialogs' invariant. *)

LEMMA InputsBound == MaxInputs \in Nat
  BY FormsAssumption

LEMMA FormsStart == FormsInit => FormsInv
<1>1. 0 \in 0..MaxInputs
  BY InputsBound
<1>2. QED
  BY <1>1 DEF FormsInit, FormsInv, SentIsShown

(* A dialog opens with what belongs to the type of its row, or is empty.   *)
LEMMA DialogsOpen == OpenDialog => FormsInv'
<1>1. SUFFICES ASSUME OpenDialog PROVE FormsInv'
  OBVIOUS
<1>2. inputs' \in 0..MaxInputs
  BY <1>1, InputsBound DEF OpenDialog, Show
<1>3. ASSUME NEW r \in ProxyRows \cup {New}, Show("proxy", r, ProxyFields(r))
      PROVE  FormsInv'
  <2>1. ProxyDialogOK'
    <3>1. CASE r = New
      <4>1. row' = New /\ fields' = [type |-> "ss", server |-> "", config |-> << >>]
        BY <1>3, <3>1 DEF Show, ProxyFields
      <4>2. DOMAIN << >> = {}
        OBVIOUS
      <4>3. "ss" \in DOMAIN PROTOCOL_FIELDS
        BY DEF PROTOCOL_FIELDS
      <4>4. QED
        BY <4>1, <4>2, <4>3 DEF ProxyDialogOK
    <3>2. CASE r # New
      BY <1>3, <3>2, FormsAssumption DEF Show, ProxyFields, ProxyDialogOK, TypesOf
    <3>3. QED
      BY <3>1, <3>2
  <2>2. QED
    BY <1>2, <1>3, <2>1 DEF Show, FormsInv, SentIsShown
<1>4. ASSUME NEW r \in GroupRows \cup {New}, Show("group", r, GroupFields(r))
      PROVE  FormsInv'
  <2>1. GroupDialogOK'
    <3>1. CASE r = New
      <4>1. fields' = DefaultGroup /\ row' = New
        BY <1>4, <3>1 DEF Show, GroupFields
      <4>2. << >> \in Seq(Available) /\ Distinct(<< >>)
        BY DEF Distinct
      <4>3. QED
        BY <4>1, <4>2 DEF DefaultGroup, GroupDialogOK, GROUP_TYPES
    <3>2. CASE r # New
      <4>1. row' = r /\ fields'.members = r.members /\ fields'.type = r.type
            /\ DOMAIN fields' = {"type", "members", "url", "strategy"}
        BY <1>4, <3>2 DEF Show, GroupFields
      <4>2. QED
        BY <1>4, <3>2, <4>1, FormsAssumption DEF GroupDialogOK, TypesOf
    <3>3. QED
      BY <3>1, <3>2
  <2>2. QED
    BY <1>2, <1>4, <2>1 DEF Show, FormsInv, SentIsShown
<1>5. ASSUME NEW r \in RuleRows \cup {New}, Show("rule", r, RuleFields(r))
      PROVE  FormsInv'
  <2>1. RuleDialogOK'
    BY <1>5, FormsAssumption DEF Show, RuleFields, RuleDialogOK, RULE_TYPES, TypesOf
  <2>2. QED
    BY <1>2, <1>5, <2>1 DEF Show, FormsInv, SentIsShown
<1>6. ASSUME NEW t \in RuleTypesUsed \ NO_PAYLOAD_TYPES, Show("rule", New, RuleFieldsFor(t))
      PROVE  FormsInv'
  <2>1. RuleDialogOK'
    BY <1>6, FormsAssumption DEF Show, RuleFieldsFor, RuleDialogOK
  <2>2. QED
    BY <1>2, <1>6, <2>1 DEF Show, FormsInv, SentIsShown
<1>7. ASSUME NEW r \in ProviderRows \cup {New}, Show("provider", r, ProviderFields(r))
      PROVE  FormsInv'
  BY <1>2, <1>7 DEF Show, FormsInv, SentIsShown
<1>8. QED
  BY <1>1, <1>3, <1>4, <1>5, <1>6, <1>7 DEF OpenDialog

(* An input of the proxy dialog: only choosing a type restricts. *)
LEMMA ProxyInputsBelong ==
    ASSUME ProxyDialogOK, fields' \in ProxyInputs(fields), UNCHANGED row
    PROVE  ProxyDialogOK'
<1>1. DEFINE f == fields
<1>2. CASE \E t \in ProxyTypesUsed : fields' = ProxyTypeChosen(f, t)
  <2>1. PICK t \in ProxyTypesUsed : fields' = ProxyTypeChosen(f, t)
    BY <1>2
  <2>2. fields'.type = t /\ DOMAIN fields' = DOMAIN f
        /\ DOMAIN fields'.config \subseteq FieldsOf(t)
    BY <2>1 DEF ProxyTypeChosen, Restricted, ProxyDialogOK
  <2>3. QED
    BY <2>2, FormsAssumption DEF ProxyDialogOK
<1>3. CASE \E k \in FieldsOf(f.type) : fields' = [f EXCEPT !.config = WithField(@, k, f.type)]
  <2>1. PICK k \in FieldsOf(f.type) : fields' = [f EXCEPT !.config = WithField(@, k, f.type)]
    BY <1>3
  <2>2. fields'.type = f.type /\ DOMAIN fields' = DOMAIN f
        /\ DOMAIN fields'.config = DOMAIN f.config \cup {k}
    BY <2>1 DEF WithField, ProxyDialogOK
  <2>3. QED
    BY <2>2 DEF ProxyDialogOK
<1>4. CASE fields' = [f EXCEPT !.server = f.type]
  BY <1>4 DEF ProxyDialogOK
<1>5. QED
  BY <1>2, <1>3, <1>4 DEF ProxyInputs

LEMMA GroupInputsKeep ==
    ASSUME GroupDialogOK, fields' \in GroupInputs(fields), UNCHANGED row
    PROVE  GroupDialogOK'
<1>1. DEFINE f == fields
<1>2. SUFFICES /\ DOMAIN fields' = DOMAIN f /\ fields'.type \in GROUP_TYPES \cup TypesOf(GroupRows)
               /\ fields'.members \in Seq(Available)
               /\ Distinct(f.members) => Distinct(fields'.members)
  BY DEF GroupDialogOK
<1>3. CASE \E t \in GROUP_TYPES : fields' = [f EXCEPT !.type = t]
  BY <1>3 DEF GroupDialogOK
<1>4. CASE \E x \in Available : fields' = MemberAdded(f, x)
  <2>1. PICK x \in Available : fields' = MemberAdded(f, x)
    BY <1>4
  <2>2. DOMAIN fields' = DOMAIN f /\ fields'.type = f.type
    BY <2>1 DEF MemberAdded
  <2>3. QED
    BY <2>1, <2>2, Added DEF GroupDialogOK
<1>5. CASE \E i \in 1..Len(f.members) : fields' = MemberRemoved(f, f.members[i])
  <2>1. PICK i \in 1..Len(f.members) : fields' = MemberRemoved(f, f.members[i])
    BY <1>5
  <2>2. DOMAIN fields' = DOMAIN f /\ fields'.type = f.type
    BY <2>1 DEF MemberRemoved
  <2>3. QED
    BY <2>1, <2>2, Removed DEF GroupDialogOK
<1>6. CASE \E i, j \in 1..Len(f.members) : fields' = MemberMoved(f, i, j)
  <2>1. PICK i \in 1..Len(f.members), j \in 1..Len(f.members) : fields' = MemberMoved(f, i, j)
    BY <1>6
  <2>2. DOMAIN fields' = DOMAIN f /\ fields'.type = f.type
    BY <2>1 DEF MemberMoved
  <2>3. QED
    BY <2>1, <2>2, Moved DEF GroupDialogOK
<1>7. CASE fields' = [f EXCEPT !.url = "typed"] \/ fields' = [f EXCEPT !.strategy = "typed"]
  BY <1>7 DEF GroupDialogOK
<1>8. QED
  BY <1>3, <1>4, <1>5, <1>6, <1>7 DEF GroupInputs

LEMMA RuleInputsBelong ==
    ASSUME RuleDialogOK, fields' \in RuleInputs(fields)
    PROVE  RuleDialogOK'
<1>1. CASE \E t \in RuleTypesUsed : fields' = RuleTypeChosen(fields, t)
  BY <1>1, FormsAssumption DEF RuleDialogOK, RuleTypeChosen
<1>2. CASE fields' = [fields EXCEPT !.payload = fields.type]
  BY <1>2 DEF RuleDialogOK
<1>3. CASE fields' = [fields EXCEPT !.noResolve = ~@]
  BY <1>3 DEF RuleDialogOK
<1>4. QED
  BY <1>1, <1>2, <1>3 DEF RuleInputs

LEMMA FormsStep == FormsInv /\ [FormsNext]_formsVars => FormsInv'
<1>1. SUFFICES ASSUME FormsInv, [FormsNext]_formsVars PROVE FormsInv'
  OBVIOUS
<1>2. CASE OpenDialog
  BY <1>2, DialogsOpen
<1>3. CASE ChangeInput
  <2>1. dialog' = dialog /\ row' = row /\ sent' = << >> /\ inputs' \in 0..MaxInputs
    BY <1>1, <1>3, InputsBound DEF ChangeInput, FormsInv
  <2>2. dialog = "proxy" => ProxyDialogOK'
    BY <1>1, <1>3, <2>1, ProxyInputsBelong DEF ChangeInput, FormsInv
  <2>3. dialog = "group" => GroupDialogOK'
    BY <1>1, <1>3, <2>1, GroupInputsKeep DEF ChangeInput, FormsInv
  <2>4. dialog = "rule" => RuleDialogOK'
    BY <1>1, <1>3, <2>1, RuleInputsBelong DEF ChangeInput, FormsInv
  <2>5. QED
    BY <1>1, <2>1, <2>2, <2>3, <2>4 DEF FormsInv, SentIsShown
<1>4. CASE SubmitDialog
  <2>1. SentIsShown'
    BY <1>4 DEF SubmitDialog, SentIsShown, Complete, Body
  <2>2. QED
    BY <1>1, <1>4, <2>1 DEF SubmitDialog, FormsInv, ProxyDialogOK, GroupDialogOK, RuleDialogOK
<1>5. CASE CloseDialog
  BY <1>5, InputsBound DEF CloseDialog, FormsInv, SentIsShown
<1>6. CASE UNCHANGED formsVars
  BY <1>1, <1>6 DEF formsVars, FormsInv, SentIsShown, Complete, Body, ProxyDialogOK, GroupDialogOK, RuleDialogOK
<1>7. QED
  BY <1>1, <1>2, <1>3, <1>4, <1>5, <1>6 DEF FormsNext

LEMMA FormsTyped == FormsInv => FormsTypeOK
<1>1. SUFFICES ASSUME FormsInv PROVE FormsTypeOK
  OBVIOUS
<1>2. dialog = "group" => \A i \in DOMAIN fields.members : fields.members[i] \in Available
  BY <1>1 DEF FormsInv, GroupDialogOK
<1>3. QED
  BY <1>1, <1>2 DEF FormsInv, FormsTypeOK, ProxyDialogOK, GroupDialogOK, RuleDialogOK

(* What is sent is the body of a complete dialog. *)
LEMMA SentBodies ==
    ASSUME FormsInv, NEW kind, Sent(kind)
    PROVE  /\ dialog = kind /\ sent.row = row
           /\ Complete(fields) /\ sent.body = Body(fields)
BY DEF FormsInv, SentIsShown, Sent

LEMMA SentBelongs == FormsInv => SentBelongsToType
<1>1. SUFFICES ASSUME FormsInv PROVE SentBelongsToType
  OBVIOUS
<1>2. ASSUME Sent("proxy"), ~(sent.row # New /\ sent.row.type = sent.body.type)
      PROVE  DOMAIN sent.body.config \subseteq {"server"} \cup FieldsOf(sent.body.type)
  <2>1. dialog = "proxy" /\ sent.row = row /\ sent.body = Body(fields) /\ ProxyDialogOK
    BY <1>1, <1>2, SentBodies DEF FormsInv
  <2>2. sent.body = ProxyBody(fields)
    BY <2>1 DEF Body
  <2>3. sent.body.type = fields.type /\ DOMAIN sent.body.config = DOMAIN fields.config \cup {"server"}
    BY <2>2 DEF ProxyBody, WithField
  <2>4. QED
    BY <1>2, <2>1, <2>3 DEF ProxyDialogOK
<1>3. ASSUME Sent("rule")
      PROVE  /\ sent.body.payload = IF sent.body.type = "MATCH" THEN "" ELSE sent.body.type
             /\ sent.body.noResolve => sent.body.type \in NO_RESOLVE_TYPES
  <2>1. dialog = "rule" /\ Complete(fields) /\ sent.body = Body(fields) /\ RuleDialogOK
    BY <1>1, <1>3, SentBodies DEF FormsInv
  <2>2. sent.body = RuleBody(fields) /\ (fields.type = "MATCH" \/ fields.payload # "")
    BY <2>1 DEF Body, Complete, NO_PAYLOAD_TYPES
  <2>3. DEFINE nr == fields.type \in NO_RESOLVE_TYPES /\ fields.noResolve
               pl == IF fields.type \in NO_PAYLOAD_TYPES THEN "" ELSE fields.payload
  <2>4. /\ sent.body.type = fields.type /\ sent.body.payload = pl
        /\ sent.body.noResolve = nr
    <3>1. sent.body = [type |-> fields.type, payload |-> pl, noResolve |-> nr]
      BY <2>2 DEF RuleBody
    <3>2. HIDE DEF nr, pl
    <3>3. QED
      BY <3>1
  <2>5. sent.body.noResolve => sent.body.type \in NO_RESOLVE_TYPES
    BY <2>4, Zenon
  <2>6. sent.body.payload = IF sent.body.type = "MATCH" THEN "" ELSE sent.body.type
    BY <2>1, <2>2, <2>4 DEF RuleDialogOK, NO_PAYLOAD_TYPES
  <2>7. QED
    BY <2>5, <2>6
<1>4. ASSUME Sent("provider")
      PROVE  "url" \in DOMAIN sent.body.config <=> sent.body.type = "http"
  <2>1. sent.body = ProviderBody(fields)
    BY <1>1, <1>4, SentBodies DEF Body
  <2>2. QED
    BY <2>1 DEF ProviderBody
<1>5. ASSUME Sent("group"), "url" \in DOMAIN sent.body.config
      PROVE  sent.body.type \in {"url-test", "fallback"}
  <2>1. sent.body = GroupBody(fields)
    BY <1>1, <1>5, SentBodies DEF Body
  <2>2. sent.body.type = fields.type /\ sent.body.config = GroupConfig(fields)
    BY <2>1 DEF GroupBody
  <2>3. DOMAIN << >> = {}
    OBVIOUS
  <2>4. QED
    BY <1>5, <2>2, <2>3 DEF GroupConfig
<1>6. QED
  BY <1>2, <1>3, <1>4, <1>5 DEF SentBelongsToType

LEMMA SentDistinct == FormsInv => MembersAreDistinct
<1>1. SUFFICES ASSUME FormsInv, Sent("group"), sent.row # New => Distinct(sent.row.members)
               PROVE  Distinct(sent.body.members)
  BY DEF MembersAreDistinct
<1>2. sent.row = row /\ sent.body = GroupBody(fields) /\ GroupDialogOK
  BY <1>1, SentBodies DEF Body, FormsInv
<1>3. sent.body.members = fields.members
  BY <1>2 DEF GroupBody
<1>4. QED
  BY <1>1, <1>2, <1>3 DEF GroupDialogOK

-----------------------------------------------------------------------------
(* The requests of the settings page: what each way to change the wire     *)
(* keeps.                                                                  *)

(* Nothing happens to the other requests. *)
OthersStay(n) == \A i \in DOMAIN wire \ {n} : i \in DOMAIN wire' /\ wire'[i] = wire[i]

LEMMA WireWithout ==
    ASSUME WireInv, NEW n \in DOMAIN wire, wire' = Without(n), UNCHANGED clicks
    PROVE  WireInv' /\ OthersStay(n)
<1>1. DOMAIN wire' = DOMAIN wire \ {n} /\ \A i \in DOMAIN wire \ {n} : wire'[i] = wire[i]
  BY DEF Without, Restrict
<1>2. QED
  BY <1>1 DEF WireInv, OthersStay

(* One request is replaced by one that is in order. *)
LEMMA WireReplaced ==
    ASSUME WireInv, NEW n \in DOMAIN wire, NEW r, RequestOK(r),
           wire' = [wire EXCEPT ![n] = r], UNCHANGED clicks
    PROVE  WireInv' /\ OthersStay(n) /\ n \in DOMAIN wire' /\ wire'[n] = r
<1>1. DOMAIN wire' = DOMAIN wire /\ wire'[n] = r /\ \A i \in DOMAIN wire \ {n} : wire'[i] = wire[i]
  OBVIOUS
<1>2. \A i \in DOMAIN wire' : RequestOK(wire'[i])
  BY <1>1 DEF WireInv
<1>3. QED
  BY <1>1, <1>2 DEF WireInv, OthersStay

LEMMA WireFailed ==
    ASSUME WireInv, NEW n \in DOMAIN wire, NEW op, Failed(n, op), UNCHANGED clicks
    PROVE  WireInv' /\ OthersStay(n)
<1>1. CASE wire' = Without(n)
  BY <1>1, WireWithout
<1>2. CASE wire' = [wire EXCEPT ![n].st = "lost"]
  <2>1. DEFINE r == [wire[n] EXCEPT !.st = "lost"]
  <2>2. RequestOK(r)
    <3>1. RequestOK(wire[n])
      BY DEF WireInv
    <3>2. DOMAIN r = DOMAIN wire[n] /\ r.op = wire[n].op /\ r.flag = wire[n].flag /\ r.arg = wire[n].arg
          /\ r.st = "lost"
      BY <3>1 DEF RequestOK
    <3>3. QED
      BY <3>1, <3>2 DEF RequestOK
  <2>3. wire' = [wire EXCEPT ![n] = r]
    BY <1>2
  <2>4. HIDE DEF r
  <2>5. QED
    BY <2>2, <2>3, WireReplaced
<1>3. QED
  BY <1>1, <1>2 DEF Failed

LEMMA WireEnded ==
    ASSUME WireInv, NEW n \in DOMAIN wire, NEW op, Ended(n, op), UNCHANGED clicks
    PROVE  WireInv' /\ OthersStay(n)
BY WireFailed, WireWithout DEF Ended

LEMMA NewRequests ==
    ASSUME NEW op, NEW arg, NEW flag, FlagOK(op, flag), ArgOK(op, arg)
    PROVE  RequestOK(Request(op, arg, flag))
BY DEF RequestOK, Request

LEMMA WireFollows ==
    ASSUME WireInv, NEW n \in DOMAIN wire, NEW op, NEW flag, FlagOK(op, flag), ArgOK(op, ""),
           Follows(n, op, flag), UNCHANGED clicks
    PROVE  /\ WireInv' /\ OthersStay(n)
           /\ n \in DOMAIN wire' /\ wire'[n].flag = flag /\ wire'[n].st = "sent"
<1>1. DEFINE r == Request(op, "", flag)
<1>2. RequestOK(r)
  BY NewRequests
<1>3. wire' = [wire EXCEPT ![n] = r]
  BY DEF Follows
<1>4. r.flag = flag /\ r.st = "sent"
  BY DEF Request
<1>5. HIDE DEF r
<1>6. QED
  BY <1>2, <1>3, <1>4, WireReplaced

LEMMA WireAnswered ==
    ASSUME WireInv, NEW n \in DOMAIN wire, NEW v, AnswerOK(wire[n].op, v),
           Answered(n, v), UNCHANGED clicks
    PROVE  /\ WireInv' /\ OthersStay(n)
           /\ wire[n].st # "lost" => n \in DOMAIN wire' /\ wire'[n].flag = wire[n].flag /\ wire'[n].st = "done"
<1>1. CASE wire[n].st = "lost"
  BY <1>1, WireWithout DEF Answered
<1>2. CASE wire[n].st # "lost"
  <2>1. DEFINE r == [wire[n] EXCEPT !.st = "done", !.ans = v]
  <2>2. RequestOK(wire[n])
    BY DEF WireInv
  <2>3. DOMAIN r = DOMAIN wire[n] /\ r.op = wire[n].op /\ r.flag = wire[n].flag /\ r.arg = wire[n].arg
        /\ r.st = "done" /\ r.ans = v
    BY <2>2 DEF RequestOK
  <2>4. wire' = [wire EXCEPT ![n] = r]
    BY <1>2 DEF Answered
  <2>5. HIDE DEF r
  <2>6. RequestOK(r)
    BY <2>2, <2>3 DEF RequestOK
  <2>7. QED
    BY <2>3, <2>4, <2>6, WireReplaced
<1>3. QED
  BY <1>1, <1>2

(* A request is sent under a number of its own, and its flag is set.       *)
LEMMA WireSends ==
    ASSUME WireInv, FlagsOK, NEW op, NEW arg, NEW flag, FlagOK(op, flag), ArgOK(op, arg), Sends(op, arg, flag)
    PROVE  WireInv' /\ FlagsOK'
<1>1. DEFINE r == Request(op, arg, flag)
<1>2. RequestOK(r) /\ r.flag = flag /\ r.st = "sent"
  <2>1. RequestOK(r)
    BY NewRequests
  <2>2. QED
    BY <2>1 DEF Request
<1>3. wire' = Put(wire, clicks', r) /\ clicks' = clicks + 1 /\ flags' = flags \cup ({flag} \ {""})
  BY DEF Sends
<1>4. clicks' = clicks + 1
  BY <1>3
<1>5. clicks \in Nat /\ clicks' \in Nat /\ clicks' \notin DOMAIN wire
  <2>1. clicks \in Nat /\ \A i \in DOMAIN wire : i \in 0..clicks
    BY DEF WireInv
  <2>2. clicks' \notin 0..clicks /\ clicks' \in Nat
    BY <1>4, <2>1
  <2>3. QED
    BY <2>1, <2>2
<1>6. DOMAIN wire' = DOMAIN wire \cup {clicks'} /\ wire'[clicks'] = r
      /\ \A i \in DOMAIN wire : wire'[i] = wire[i]
  BY <1>3, <1>5 DEF Put
<1>7. WireInv'
  <2>1. DOMAIN wire' \subseteq 0..clicks'
    <3>1. 0..clicks \subseteq 0..clicks' /\ clicks' \in 0..clicks'
      BY <1>4, <1>5
    <3>2. DOMAIN wire \subseteq 0..clicks
      BY DEF WireInv
    <3>3. QED
      BY <1>6, <3>1, <3>2
  <2>2. QED
    BY <1>2, <1>5, <1>6, <2>1 DEF WireInv
<1>8. FlagsOK'
  <2>1. "" \notin flags'
    BY <1>3 DEF FlagsOK
  <2>2. ASSUME NEW f \in flags'
        PROVE  \E i \in DOMAIN wire' : wire'[i].flag = f /\ wire'[i].st # "lost"
    <3>1. CASE f \in flags
      <4>1. PICK i \in DOMAIN wire : wire[i].flag = f /\ wire[i].st # "lost"
        BY <3>1 DEF FlagsOK, FlagsMeanWork
      <4>2. QED
        BY <1>6, <4>1
    <3>2. CASE f = flag
      BY <1>2, <1>6, <3>2
    <3>3. QED
      BY <1>3, <2>2, <3>1, <3>2
  <2>3. QED
    BY <2>1, <2>2 DEF FlagsOK, FlagsMeanWork
<1>9. QED
  BY <1>7, <1>8

(* A flag may be cleared with the request that set it, whatever becomes of *)
(* that one.                                                               *)
LEMMA FlagsCleared ==
    ASSUME FlagsOK, NEW n \in DOMAIN wire, OthersStay(n), NEW S, flags' = flags \ S,
           wire[n].flag \in S \cup {""}
    PROVE  FlagsOK'
<1>1. "" \notin flags'
  BY DEF FlagsOK
<1>2. ASSUME NEW f \in flags'
      PROVE  \E i \in DOMAIN wire' : wire'[i].flag = f /\ wire'[i].st # "lost"
  <2>1. f \in flags /\ f # "" /\ f \notin S
    BY <1>2 DEF FlagsOK
  <2>2. PICK i \in DOMAIN wire : wire[i].flag = f /\ wire[i].st # "lost"
    BY <2>1 DEF FlagsOK, FlagsMeanWork
  <2>3. i # n
    BY <2>1, <2>2
  <2>4. QED
    BY <2>2, <2>3 DEF OthersStay
<1>3. QED
  BY <1>1, <1>2 DEF FlagsOK, FlagsMeanWork

(* As long as request n still stands for its flag, the flags mean work.    *)
LEMMA FlagsStand ==
    ASSUME FlagsOK, NEW n \in DOMAIN wire, OthersStay(n), UNCHANGED flags,
           wire[n].st # "lost" => n \in DOMAIN wire' /\ wire'[n].flag = wire[n].flag /\ wire'[n].st # "lost"
    PROVE  FlagsOK'
<1>1. "" \notin flags'
  BY DEF FlagsOK
<1>2. ASSUME NEW f \in flags'
      PROVE  \E i \in DOMAIN wire' : wire'[i].flag = f /\ wire'[i].st # "lost"
  <2>1. PICK i \in DOMAIN wire : wire[i].flag = f /\ wire[i].st # "lost"
    BY <1>2 DEF FlagsOK, FlagsMeanWork
  <2>2. CASE i = n
    BY <2>1, <2>2
  <2>3. CASE i # n
    BY <2>1, <2>3 DEF OthersStay
  <2>4. QED
    BY <2>2, <2>3
<1>3. QED
  BY <1>1, <1>2 DEF FlagsOK, FlagsMeanWork

LEMMA Untouched ==
    /\ ServerOK /\ UNCHANGED serverSide => ServerOK'
    /\ UserCardOK /\ UNCHANGED userCard => UserCardOK'
    /\ EditorOK /\ UNCHANGED editor => EditorOK'
    /\ ConfigPageOK /\ UNCHANGED configPage => ConfigPageOK'
    /\ WireInv /\ UNCHANGED <<wire, clicks>> => WireInv'
    /\ FlagsOK /\ UNCHANGED <<wire, flags>> => FlagsOK'
<1>1. ServerOK /\ UNCHANGED serverSide => ServerOK'
  BY DEF ServerOK, serverSide, IsolationSurvives, HandlersKeep
<1>2. UserCardOK /\ UNCHANGED userCard => UserCardOK'
  BY DEF UserCardOK, userCard
<1>3. ConfigPageOK /\ UNCHANGED configPage => ConfigPageOK'
  BY DEF ConfigPageOK, configPage
<1>4. EditorOK /\ UNCHANGED editor => EditorOK'
  BY DEF EditorOK
<1>5. WireInv /\ UNCHANGED <<wire, clicks>> => WireInv'
  BY DEF WireInv
<1>6. FlagsOK /\ UNCHANGED <<wire, flags>> => FlagsOK'
  <2>1. SUFFICES ASSUME FlagsOK, wire' = wire, flags' = flags PROVE FlagsOK'
    OBVIOUS
  <2>2. \A f \in flags' : \E i \in DOMAIN wire' : wire'[i].flag = f /\ wire'[i].st # "lost"
    BY <2>1 DEF FlagsOK, FlagsMeanWork
  <2>3. QED
    BY <2>1, <2>2 DEF FlagsOK, FlagsMeanWork
<1>7. QED
  BY <1>1, <1>2, <1>3, <1>4, <1>5, <1>6

-----------------------------------------------------------------------------
(* The steps of the settings page.  First the server's. *)

LEMMA AnswersWithoutData ==
    ASSUME NEW op, op \notin {"listUsers", "getYaml", "getConfig"}, NEW v
    PROVE  AnswerOK(op, v)
BY DEF AnswerOK

LEMMA UserRequestKeeps ==
    ASSUME SettingsInv, NEW n \in DOMAIN wire, UserRequest(n), UNCHANGED <<flags, clicks>>
    PROVE  ServerOK' /\ \E v : Answered(n, v) /\ AnswerOK(wire[n].op, v)
<1>1. RequestOK(wire[n]) /\ ServerOK
  BY DEF SettingsInv, WireInv
<1>2. SUFFICES users' \in UserTable /\ \E v : Answered(n, v) /\ AnswerOK(wire[n].op, v)
  BY <1>1 DEF UserRequest, ServerOK, IsolationSurvives, HandlersKeep
<1>3. users \in UserTable
  BY <1>1 DEF ServerOK
<1>4. CASE wire[n].op = "listUsers" /\ Answered(n, users) /\ UNCHANGED users
  <2>1. AnswerOK(wire[n].op, users)
    BY <1>3, <1>4 DEF AnswerOK
  <2>2. QED
    BY <1>3, <1>4, <2>1
<1>5. CASE /\ wire[n].op = "createUser" /\ Answered(n, "ok")
           /\ \E i \in Users : users[i] = Nobody /\ users' = [users EXCEPT ![i] = wire[n].arg.role]
  <2>1. wire[n].arg.role \in Roles
    BY <1>1, <1>5 DEF RequestOK, ArgOK
  <2>2. users' \in UserTable
    BY <1>3, <1>5, <2>1 DEF UserTable
  <2>3. QED
    BY <1>5, <2>2, AnswersWithoutData
<1>6. CASE /\ wire[n].op = "updateUser" /\ users[wire[n].arg.id] # Nobody /\ Answered(n, "ok")
           /\ users' = [users EXCEPT ![wire[n].arg.id] = wire[n].arg.role]
  <2>1. wire[n].arg.role \in Roles /\ wire[n].arg.id \in Users
    BY <1>1, <1>6 DEF RequestOK, ArgOK
  <2>2. users' \in UserTable
    BY <1>3, <1>6, <2>1 DEF UserTable
  <2>3. QED
    BY <1>6, <2>2, AnswersWithoutData
<1>7. CASE /\ wire[n].op = "deleteUser" /\ Answered(n, "ok")
           /\ users' = [users EXCEPT ![wire[n].arg] = Nobody]
  <2>1. wire[n].arg \in Users
    BY <1>1, <1>7 DEF RequestOK, ArgOK
  <2>2. users' \in UserTable
    BY <1>3, <1>7, <2>1 DEF UserTable
  <2>3. QED
    BY <1>7, <2>2, AnswersWithoutData
<1>8. QED
  BY <1>4, <1>5, <1>6, <1>7 DEF UserRequest

(* With a row that has isolation settings, what is merged has them too.    *)
LEMMA MergedKeeps ==
    ASSUME NEW s, NEW stored, stored.isolation_dns # ""
    PROVE  At(Merged(s, stored), "isolation_dns") # ""
BY DEF At, Merged, Put

(* The first statement of a put. *)
LEMMA ReadStoredKeeps ==
    ASSUME ServerOK, NEW n \in DOMAIN wire, ReadStored(n)
    PROVE  ServerOK' /\ UNCHANGED wire
<1>1. UNCHANGED <<st, users, cfg, wire>>
  BY DEF ReadStored
<1>2. CASE handling' = Put(handling, n, Merged(wire[n].arg, st)) /\ UNCHANGED unread
  <2>1. ASSUME unread = 0, NEW i \in DOMAIN handling'
        PROVE  At(handling'[i], "isolation_dns") # ""
    <3>1. st.isolation_dns # ""
      BY <2>1 DEF ServerOK, IsolationSurvives
    <3>2. DEFINE m == Merged(wire[n].arg, st)
    <3>3. At(m, "isolation_dns") # ""
      BY <3>1, MergedKeeps
    <3>4. HIDE DEF m
    <3>5. handling' = Put(handling, n, m)
      BY <1>2 DEF m
    <3>6. (i = n /\ handling'[i] = m) \/ (i \in DOMAIN handling /\ handling'[i] = handling[i])
      BY <2>1, <3>5 DEF Put
    <3>7. QED
      BY <2>1, <3>3, <3>6 DEF ServerOK, HandlersKeep
  <2>2. QED
    BY <1>1, <1>2, <2>1 DEF ServerOK, IsolationSurvives, HandlersKeep, ConfigOK
<1>3. CASE unread' = unread + 1
  <2>1. unread' \in Nat /\ unread' # 0
    BY <1>3 DEF ServerOK
  <2>2. QED
    BY <1>1, <2>1 DEF ServerOK, IsolationSurvives, HandlersKeep, ConfigOK
<1>4. QED
  BY <1>1, <1>2, <1>3 DEF ReadStored

(* The other statements: only the second one of a put writes the isolation *)
(* settings, with what its handler holds.                                  *)
LEMMA SettingsRequestKeeps ==
    ASSUME SettingsInv, NEW n \in DOMAIN wire, SettingsRequest(n), UNCHANGED <<flags, clicks>>
    PROVE  ServerOK' /\ \E v : Answered(n, v) /\ AnswerOK(wire[n].op, v)
<1>1. RequestOK(wire[n]) /\ ServerOK
  BY DEF SettingsInv, WireInv
<1>2. SUFFICES /\ DOMAIN st' = DOMAIN st /\ (st'.isolation_dns = st.isolation_dns \/ (unread = 0 => st'.isolation_dns # ""))
               /\ \A i \in DOMAIN handling' : i \in DOMAIN handling /\ handling'[i] = handling[i]
               /\ \E v : Answered(n, v) /\ AnswerOK(wire[n].op, v)
  BY <1>1 DEF SettingsRequest, ServerOK, IsolationSurvives, HandlersKeep, ConfigOK
<1>3. DOMAIN st = {"mihomo_config", "isolation_dns", "raw"}
  BY <1>1 DEF ServerOK
<1>4. CASE wire[n].op = "getSettings" /\ Answered(n, st) /\ UNCHANGED <<st, handling>>
  BY <1>4, AnswersWithoutData
<1>5. CASE /\ wire[n].op = "putSettings" /\ n \in DOMAIN handling
           /\ Answered(n, "ok") /\ UpdateSettings(handling[n])
           /\ handling' = Restrict(handling, DOMAIN handling \ {n})
  <2>1. DEFINE d == At(handling[n], "isolation_dns")
               c == At(handling[n], "mihomo_config")
  <2>2. unread = 0 => d # ""
    BY <1>1, <1>5 DEF ServerOK, HandlersKeep
  <2>3. st' = [st EXCEPT !.mihomo_config = c, !.isolation_dns = d]
    BY <1>5 DEF UpdateSettings
  <2>4. HIDE DEF c, d
  <2>5. DOMAIN st' = DOMAIN st /\ st'.isolation_dns = d
    BY <1>3, <2>3
  <2>6. \A i \in DOMAIN handling' : i \in DOMAIN handling /\ handling'[i] = handling[i]
    BY <1>5 DEF Restrict
  <2>7. QED
    BY <1>5, <2>2, <2>5, <2>6, AnswersWithoutData
<1>6. CASE wire[n].op = "getYaml" /\ Answered(n, ConfigYaml) /\ UNCHANGED <<st, handling>>
  <2>1. AnswerOK(wire[n].op, ConfigYaml)
    BY <1>6 DEF AnswerOK, ConfigYaml
  <2>2. QED
    BY <1>6, <2>1
<1>7. CASE wire[n].op = "putYaml" /\ Answered(n, "ok") /\ st' = [st EXCEPT !.raw = wire[n].arg] /\ UNCHANGED handling
  BY <1>3, <1>7, AnswersWithoutData
<1>8. CASE wire[n].op = "deleteYaml" /\ Answered(n, "ok") /\ st' = [st EXCEPT !.raw = ""] /\ UNCHANGED handling
  BY <1>3, <1>8, AnswersWithoutData
<1>9. QED
  BY <1>4, <1>5, <1>6, <1>7, <1>8 DEF SettingsRequest

LEMMA SystemConfigRequestKeeps ==
    ASSUME SettingsInv, NEW n \in DOMAIN wire, SystemConfigRequest(n), UNCHANGED <<flags, clicks>>
    PROVE  ServerOK' /\ \E v : Answered(n, v) /\ AnswerOK(wire[n].op, v)
<1>1. RequestOK(wire[n]) /\ ServerOK
  BY DEF SettingsInv, WireInv
<1>2. SUFFICES ConfigOK(cfg') /\ \E v : Answered(n, v) /\ AnswerOK(wire[n].op, v)
  BY <1>1 DEF SystemConfigRequest, ServerOK, IsolationSurvives, HandlersKeep, ConfigOK
<1>3. ConfigOK(cfg)
  BY <1>1 DEF ServerOK
<1>4. CASE wire[n].op = "getConfig" /\ Answered(n, cfg) /\ UNCHANGED cfg
  <2>1. AnswerOK(wire[n].op, cfg)
    BY <1>3, <1>4 DEF AnswerOK
  <2>2. QED
    BY <1>3, <1>4, <2>1
<1>5. CASE wire[n].op = "putConfig" /\ Answered(n, "ok") /\ cfg' = wire[n].arg.body
  <2>1. ConfigOK(wire[n].arg.body)
    BY <1>1, <1>5 DEF RequestOK, ArgOK
  <2>2. QED
    BY <1>5, <2>1, AnswersWithoutData
<1>6. QED
  BY <1>4, <1>5 DEF SystemConfigRequest

LEMMA ServeStep == SettingsInv /\ ServeRequest => SettingsInv'
<1>1. SUFFICES ASSUME SettingsInv, ServeRequest PROVE SettingsInv'
  OBVIOUS
<1>2. PICK n \in DOMAIN wire : UserRequest(n) \/ ReadStored(n) \/ SettingsRequest(n) \/ SystemConfigRequest(n)
  BY <1>1 DEF ServeRequest
<1>3. UNCHANGED <<userCard, editor, configPage, flags, clicks>>
  BY <1>1 DEF ServeRequest, cards
<1>4. CASE ReadStored(n)
  <2>1. ServerOK' /\ UNCHANGED wire
    BY <1>1, <1>4, ReadStoredKeeps DEF SettingsInv
  <2>2. QED
    BY <1>1, <1>3, <2>1, Untouched DEF SettingsInv
<1>5. CASE UserRequest(n) \/ SettingsRequest(n) \/ SystemConfigRequest(n)
  <2>1. ServerOK' /\ \E v : Answered(n, v) /\ AnswerOK(wire[n].op, v)
    BY <1>1, <1>3, <1>5, UserRequestKeeps, SettingsRequestKeeps, SystemConfigRequestKeeps
  <2>2. PICK v : Answered(n, v) /\ AnswerOK(wire[n].op, v)
    BY <2>1
  <2>3. WireInv' /\ OthersStay(n)
        /\ (wire[n].st # "lost" => n \in DOMAIN wire' /\ wire'[n].flag = wire[n].flag /\ wire'[n].st = "done")
    BY <1>1, <1>3, <2>2, WireAnswered DEF SettingsInv
  <2>4. FlagsOK'
    BY <1>1, <1>3, <2>3, FlagsStand DEF SettingsInv
  <2>5. QED
    BY <1>1, <1>3, <2>1, <2>3, <2>4, Untouched DEF SettingsInv
<1>6. QED
  BY <1>2, <1>4, <1>5

-----------------------------------------------------------------------------
(* The client's steps, card by card. *)

(* A request that is over takes its flag with it. *)
LEMMA RequestOver ==
    ASSUME SettingsInv, NEW n \in DOMAIN wire, wire' = Without(n) \/ Failed(n, wire[n].op),
           NEW S, flags' = flags \ S, wire[n].flag \in S \cup {""}, UNCHANGED clicks
    PROVE  WireInv' /\ FlagsOK'
<1>1. WireInv' /\ OthersStay(n)
  BY WireWithout, WireFailed DEF SettingsInv
<1>2. QED
  BY <1>1, FlagsCleared DEF SettingsInv

LEMMA WireAndFlags ==
    ASSUME SettingsInv, NEW n \in DOMAIN wire
    PROVE  RequestOK(wire[n]) /\ FlagOK(wire[n].op, wire[n].flag) /\ ArgOK(wire[n].op, wire[n].arg)
BY DEF SettingsInv, WireInv, RequestOK

LEMMA SettingsCardSteps ==
    ASSUME SettingsInv, SettingsFetched \/ SettingTyped \/ SettingsSave \/ SettingsSaved
    PROVE  SettingsInv'
<1>1. CASE SettingsFetched
  <2>1. PICK n \in DOMAIN wire : wire[n].op = "getSettings" /\ (wire' = Without(n) \/ Failed(n, wire[n].op))
    BY <1>1 DEF SettingsFetched, Succeeded, Failed
  <2>2. wire[n].flag \in {"settings.loading"} \cup {""}
    BY <2>1, WireAndFlags DEF FlagOK
  <2>3. WireInv' /\ FlagsOK'
    BY <1>1, <2>1, <2>2, RequestOver DEF SettingsFetched
  <2>4. QED
    BY <1>1, <2>3, Untouched DEF SettingsFetched, SettingsInv
<1>2. CASE SettingTyped
  <2>1. WireInv'
    BY <1>2 DEF SettingTyped, SettingsInv, WireInv
  <2>2. QED
    BY <1>2, <2>1, Untouched DEF SettingTyped, SettingsInv
<1>3. CASE SettingsSave
  <2>1. FlagOK("putSettings", "settings.saving") /\ ArgOK("putSettings", settings)
    BY DEF FlagOK, ArgOK
  <2>2. WireInv' /\ FlagsOK' /\ UNCHANGED serverSide
    BY <1>3, <2>1, WireSends DEF SettingsSave, SettingsInv, Sends
  <2>3. QED
    BY <1>3, <2>2, Untouched DEF SettingsSave, SettingsInv, cards
<1>4. CASE SettingsSaved
  <2>1. PICK n \in DOMAIN wire : wire[n].op = "putSettings" /\ (wire' = Without(n) \/ Failed(n, wire[n].op))
    BY <1>4 DEF SettingsSaved, Ended, Succeeded, Failed
  <2>2. wire[n].flag \in {"settings.saving"} \cup {""}
    BY <2>1, WireAndFlags DEF FlagOK
  <2>3. WireInv' /\ FlagsOK'
    BY <1>4, <2>1, <2>2, RequestOver DEF SettingsSaved
  <2>4. QED
    BY <1>4, <2>3, Untouched DEF SettingsSaved, SettingsInv, cards
<1>5. QED
  BY <1>1, <1>2, <1>3, <1>4

LEMMA UserDialogSteps ==
    ASSUME SettingsInv, UserAddOrEdit \/ UserRoleChosen \/ UserDialogClosed \/ UserSave \/ UserDeleteClick
    PROVE  SettingsInv'
<1>1. UserCardOK
  BY DEF SettingsInv
<1>2. DOMAIN ClosedDialog = {"open", "editing", "role"} /\ ClosedDialog.role \in Roles /\ ClosedDialog.editing = Nobody
  BY DEF ClosedDialog, Roles
<1>3. CASE UserAddOrEdit
  <2>1. UserCardOK'
    <3>1. CASE userDialog' = [ClosedDialog EXCEPT !.open = TRUE]
      <4>1. DOMAIN userDialog' = DOMAIN ClosedDialog /\ userDialog'.role = ClosedDialog.role
            /\ userDialog'.editing = ClosedDialog.editing
        BY <1>2, <3>1
      <4>2. QED
        BY <1>1, <1>2, <1>3, <4>1 DEF UserCardOK, UserAddOrEdit
    <3>2. CASE \E i \in Shown : userDialog' = [open |-> TRUE, editing |-> i, role |-> list[i]]
      <4>1. PICK i \in Shown : userDialog' = [open |-> TRUE, editing |-> i, role |-> list[i]]
        BY <3>2
      <4>2. i \in Users /\ list[i] \in Roles
        BY <1>1, <4>1 DEF Shown, UserCardOK, UserTable
      <4>3. QED
        BY <1>1, <1>3, <4>1, <4>2 DEF UserCardOK, UserAddOrEdit
    <3>3. QED
      BY <1>3, <3>1, <3>2 DEF UserAddOrEdit
  <2>2. QED
    BY <1>3, <2>1, Untouched DEF UserAddOrEdit, SettingsInv
<1>4. CASE UserRoleChosen
  <2>1. WireInv'
    BY <1>4 DEF UserRoleChosen, SettingsInv, WireInv
  <2>2. UserCardOK'
    BY <1>1, <1>4 DEF UserRoleChosen, UserCardOK
  <2>3. QED
    BY <1>4, <2>1, <2>2, Untouched DEF UserRoleChosen, SettingsInv
<1>5. CASE UserDialogClosed
  <2>1. UserCardOK'
    BY <1>1, <1>2, <1>5 DEF UserDialogClosed, UserCardOK
  <2>2. QED
    BY <1>5, <2>1, Untouched DEF UserDialogClosed, SettingsInv
<1>6. CASE UserSave
  <2>1. WireInv' /\ FlagsOK' /\ UNCHANGED serverSide
    <3>1. CASE userDialog.editing = Nobody
      <4>1. DEFINE arg == [role |-> userDialog.role]
      <4>2. FlagOK("createUser", "user.saving") /\ ArgOK("createUser", arg)
        BY <1>1 DEF FlagOK, ArgOK, UserCardOK
      <4>3. Sends("createUser", arg, "user.saving")
        BY <1>6, <3>1 DEF UserSave
      <4>4. HIDE DEF arg
      <4>5. QED
        BY <4>2, <4>3, WireSends DEF SettingsInv, Sends
    <3>2. CASE userDialog.editing # Nobody
      <4>1. DEFINE arg == [id |-> userDialog.editing, role |-> userDialog.role]
      <4>2. FlagOK("updateUser", "user.saving") /\ ArgOK("updateUser", arg)
        BY <1>1, <3>2 DEF FlagOK, ArgOK, UserCardOK
      <4>3. Sends("updateUser", arg, "user.saving")
        BY <1>6, <3>2 DEF UserSave
      <4>4. HIDE DEF arg
      <4>5. QED
        BY <4>2, <4>3, WireSends DEF SettingsInv, Sends
    <3>3. QED
      BY <3>1, <3>2
  <2>2. QED
    BY <1>6, <2>1, Untouched DEF UserSave, SettingsInv, cards
<1>7. CASE UserDeleteClick
  <2>1. deletingId' \in Users
    BY <1>7 DEF UserDeleteClick, Shown
  <2>2. UserCardOK'
    BY <1>1, <1>7, <2>1 DEF UserDeleteClick, UserCardOK
  <2>3. QED
    BY <1>7, <2>2, Untouched DEF UserDeleteClick, SettingsInv
<1>8. QED
  BY <1>3, <1>4, <1>5, <1>6, <1>7

LEMMA UsersCardSteps ==
    ASSUME SettingsInv, UsersFetched \/ UserSaved \/ UserDeleteConfirm \/ UserDeleted
    PROVE  SettingsInv'
<1>1. UserCardOK
  BY DEF SettingsInv
<1>2. CASE UsersFetched
  <2>1. PICK n \in DOMAIN wire : \/ Succeeded(n, "listUsers") /\ list' = wire[n].ans /\ wire' = Without(n)
                                 \/ Failed(n, "listUsers") /\ list' = [i \in Users |-> Nobody]
    BY <1>2 DEF UsersFetched
  <2>2. wire[n].op = "listUsers" /\ (wire' = Without(n) \/ Failed(n, wire[n].op))
    BY <2>1 DEF Succeeded, Failed
  <2>3. wire[n].flag \in {"users.loading"} \cup {""}
    BY <2>2, WireAndFlags DEF FlagOK
  <2>4. WireInv' /\ FlagsOK'
    BY <1>2, <2>2, <2>3, RequestOver DEF UsersFetched
  <2>5. list' \in UserTable
    <3>1. CASE Succeeded(n, "listUsers") /\ list' = wire[n].ans
      BY <3>1, WireAndFlags DEF Succeeded, RequestOK, AnswerOK
    <3>2. CASE list' = [i \in Users |-> Nobody]
      BY <3>2 DEF UserTable
    <3>3. QED
      BY <2>1, <3>1, <3>2
  <2>6. UserCardOK'
    BY <1>1, <1>2, <2>5 DEF UsersFetched, UserCardOK
  <2>7. QED
    BY <1>2, <2>4, <2>6, Untouched DEF UsersFetched, SettingsInv
<1>3. CASE UserSaved
  <2>1. PICK n \in DOMAIN wire, op \in {"createUser", "updateUser"} :
           \/ Succeeded(n, op) /\ Follows(n, "listUsers", "") /\ userDialog' = ClosedDialog
           \/ Failed(n, op) /\ UNCHANGED userDialog
    BY <1>3 DEF UserSaved
  <2>2. wire[n].op = op /\ wire[n].flag = "user.saving"
    BY <2>1, WireAndFlags DEF Succeeded, Failed, FlagOK
  <2>3. FlagOK("listUsers", "") /\ ArgOK("listUsers", "")
    BY DEF FlagOK, ArgOK
  <2>4. WireInv' /\ OthersStay(n)
    BY <1>3, <2>1, <2>3, WireFollows, WireFailed DEF UserSaved, SettingsInv
  <2>5. FlagsOK'
    BY <1>3, <2>2, <2>4, FlagsCleared DEF UserSaved, SettingsInv
  <2>6. UserCardOK'
    <3>1. list' = list /\ deletingId' = deletingId /\ (userDialog' = ClosedDialog \/ userDialog' = userDialog)
      BY <1>3, <2>1 DEF UserSaved
    <3>2. DOMAIN ClosedDialog = {"open", "editing", "role"} /\ ClosedDialog.role \in Roles
          /\ ClosedDialog.editing \in Users \cup {Nobody}
      BY DEF ClosedDialog, Roles
    <3>3. QED
      BY <1>1, <3>1, <3>2 DEF UserCardOK
  <2>7. QED
    BY <1>3, <2>4, <2>5, <2>6, Untouched DEF UserSaved, SettingsInv
<1>4. CASE UserDeleteConfirm
  <2>1. UserCardOK'
    BY <1>1, <1>4 DEF UserDeleteConfirm, UserCardOK
  <2>2. WireInv' /\ FlagsOK' /\ UNCHANGED serverSide
    <3>1. CASE deletingId # Nobody /\ Sends("deleteUser", deletingId, "")
      <4>1. FlagOK("deleteUser", "") /\ ArgOK("deleteUser", deletingId)
        BY <1>1, <3>1 DEF FlagOK, ArgOK, UserCardOK
      <4>2. QED
        BY <3>1, <4>1, WireSends DEF SettingsInv, Sends
    <3>2. CASE UNCHANGED <<serverSide, flags, wire, clicks>>
      BY <3>2, Untouched DEF SettingsInv
    <3>3. QED
      BY <1>4, <3>1, <3>2 DEF UserDeleteConfirm
  <2>3. QED
    BY <1>4, <2>1, <2>2, Untouched DEF UserDeleteConfirm, SettingsInv
<1>5. CASE UserDeleted
  <2>1. PICK n \in DOMAIN wire : \/ Succeeded(n, "deleteUser") /\ Follows(n, "listUsers", "")
                                 \/ Failed(n, "deleteUser")
    BY <1>5 DEF UserDeleted
  <2>2. wire[n].op = "deleteUser" /\ wire[n].flag = ""
    BY <2>1, WireAndFlags DEF Succeeded, Failed, FlagOK
  <2>3. FlagOK("listUsers", "") /\ ArgOK("listUsers", "")
    BY DEF FlagOK, ArgOK
  <2>4. WireInv' /\ OthersStay(n)
    BY <1>5, <2>1, <2>3, WireFollows, WireFailed DEF UserDeleted, SettingsInv
  <2>5. flags' = flags \ {}
    BY <1>5 DEF UserDeleted
  <2>6. FlagsOK'
    BY <2>2, <2>4, <2>5, FlagsCleared DEF SettingsInv
  <2>7. UserCardOK'
    BY <1>1, <1>5 DEF UserDeleted, UserCardOK
  <2>8. QED
    BY <1>5, <2>4, <2>6, <2>7, Untouched DEF UserDeleted, SettingsInv
<1>6. QED
  BY <1>2, <1>3, <1>4, <1>5

LEMMA EditorCardSteps ==
    ASSUME SettingsInv, YamlFetched \/ YamlTyped \/ YamlSave \/ YamlSaved \/ YamlClear \/ YamlCleared
    PROVE  SettingsInv'
<1>1. EditorOK
  BY DEF SettingsInv
<1>2. CASE YamlFetched
  <2>1. PICK n \in DOMAIN wire :
           /\ \/ Succeeded(n, "getYaml") /\ editor' = wire[n].ans /\ wire' = Without(n)
              \/ Failed(n, "getYaml") /\ UNCHANGED editor
           /\ flags' = flags \ {"editor.loading", wire[n].flag}
    BY <1>2 DEF YamlFetched
  <2>2. wire' = Without(n) \/ Failed(n, wire[n].op)
    BY <2>1 DEF Failed
  <2>3. WireInv' /\ FlagsOK'
    BY <1>2, <2>1, <2>2, RequestOver DEF YamlFetched
  <2>4. EditorOK'
    <3>1. CASE Succeeded(n, "getYaml") /\ editor' = wire[n].ans
      BY <3>1, WireAndFlags DEF Succeeded, RequestOK, AnswerOK, EditorOK
    <3>2. CASE UNCHANGED editor
      BY <1>1, <3>2 DEF EditorOK
    <3>3. QED
      BY <2>1, <3>1, <3>2
  <2>5. QED
    BY <1>2, <2>3, <2>4, Untouched DEF YamlFetched, SettingsInv
<1>3. CASE YamlTyped
  <2>1. WireInv'
    BY <1>3 DEF YamlTyped, SettingsInv, WireInv
  <2>2. EditorOK'
    BY <1>1, <1>3 DEF YamlTyped, EditorOK
  <2>3. QED
    BY <1>3, <2>1, <2>2, Untouched DEF YamlTyped, SettingsInv
<1>4. CASE YamlSave
  <2>1. FlagOK("putYaml", "editor.saving") /\ ArgOK("putYaml", editor.content)
    BY DEF FlagOK, ArgOK
  <2>2. WireInv' /\ FlagsOK' /\ UNCHANGED serverSide
    BY <1>4, <2>1, WireSends DEF YamlSave, SettingsInv, Sends
  <2>3. QED
    BY <1>4, <2>2, Untouched DEF YamlSave, SettingsInv, cards
<1>5. CASE YamlSaved
  <2>1. PICK n \in DOMAIN wire :
           \/ Succeeded(n, "putYaml") /\ editor' = [editor EXCEPT !.source = "draft"] /\ wire' = Without(n)
           \/ Failed(n, "putYaml") /\ UNCHANGED editor
    BY <1>5 DEF YamlSaved
  <2>2. wire[n].op = "putYaml" /\ (wire' = Without(n) \/ Failed(n, wire[n].op))
    BY <2>1 DEF Succeeded, Failed
  <2>3. wire[n].flag \in {"editor.saving"} \cup {""}
    BY <2>2, WireAndFlags DEF FlagOK
  <2>4. WireInv' /\ FlagsOK'
    BY <1>5, <2>2, <2>3, RequestOver DEF YamlSaved
  <2>5. EditorOK'
    BY <1>1, <2>1 DEF EditorOK
  <2>6. QED
    BY <1>5, <2>4, <2>5, Untouched DEF YamlSaved, SettingsInv
<1>6. CASE YamlClear
  <2>1. FlagOK("deleteYaml", "editor.clearing") /\ ArgOK("deleteYaml", "")
    BY DEF FlagOK, ArgOK
  <2>2. WireInv' /\ FlagsOK' /\ UNCHANGED serverSide
    BY <1>6, <2>1, WireSends DEF YamlClear, SettingsInv, Sends
  <2>3. QED
    BY <1>6, <2>2, Untouched DEF YamlClear, SettingsInv, cards
<1>7. CASE YamlCleared
  <2>1. PICK n \in DOMAIN wire :
           \/ Succeeded(n, "deleteYaml") /\ Follows(n, "getYaml", "editor.clearing") /\ UNCHANGED flags
           \/ Failed(n, "deleteYaml") /\ flags' = flags \ {"editor.clearing"}
    BY <1>7 DEF YamlCleared
  <2>2. wire[n].flag = "editor.clearing" /\ UNCHANGED clicks
    BY <1>7, <2>1, WireAndFlags DEF Succeeded, Failed, FlagOK, YamlCleared
  <2>3. FlagOK("getYaml", "editor.clearing") /\ ArgOK("getYaml", "")
    BY DEF FlagOK, ArgOK
  <2>4. WireInv' /\ FlagsOK'
    <3>1. CASE Follows(n, "getYaml", "editor.clearing") /\ UNCHANGED flags
      <4>1. /\ WireInv' /\ OthersStay(n)
            /\ n \in DOMAIN wire' /\ wire'[n].flag = "editor.clearing" /\ wire'[n].st = "sent"
        BY <2>2, <2>3, <3>1, WireFollows DEF SettingsInv
      <4>2. QED
        BY <2>2, <3>1, <4>1, FlagsStand DEF SettingsInv
    <3>2. CASE Failed(n, "deleteYaml") /\ flags' = flags \ {"editor.clearing"}
      <4>1. WireInv' /\ OthersStay(n)
        BY <2>2, <3>2, WireFailed DEF SettingsInv
      <4>2. QED
        BY <2>2, <3>2, <4>1, FlagsCleared DEF SettingsInv
    <3>3. QED
      BY <2>1, <3>1, <3>2
  <2>5. QED
    BY <1>7, <2>4, Untouched DEF YamlCleared, SettingsInv, cards
<1>8. QED
  BY <1>2, <1>3, <1>4, <1>5, <1>6, <1>7

(* Setting a path keeps the section's other keys. *)
LEMMA PathsSet ==
    ASSUME NEW c, ConfigOK(c), NEW l, NEW e, KeepsLoaded(c, l, e),
           NEW s \in DOMAIN Keys, NEW k \in Keys[s]
    PROVE  /\ ConfigOK(SetNestedValue(c, s, k, "typed"))
           /\ KeepsLoaded(SetNestedValue(c, s, k, "typed"), l, e \cup {<<s, k>>})
<1>1. DEFINE old == IF s \in DOMAIN c THEN c[s] ELSE << >>
             new == Put(old, k, "typed")
             d == SetNestedValue(c, s, k, "typed")
<1>2. DOMAIN new = DOMAIN old \cup {k} /\ new[k] = "typed"
      /\ \A x \in DOMAIN old \ {k} : new[x] = old[x]
  BY DEF Put
<1>3. DOMAIN d = DOMAIN c \cup {s} /\ d[s] = new /\ \A x \in DOMAIN c \ {s} : d[x] = c[x]
  BY DEF SetNestedValue, Put
<1>4. DOMAIN old \subseteq Keys[s] /\ \A x \in DOMAIN old : old[x] \in {"stored", "typed"}
  <2>1. CASE s \in DOMAIN c
    BY <2>1 DEF ConfigOK
  <2>2. CASE s \notin DOMAIN c
    <3>1. DOMAIN << >> = {}
      OBVIOUS
    <3>2. QED
      BY <2>2, <3>1
  <2>3. QED
    BY <2>1, <2>2
<1>5. s \in DOMAIN c => old = c[s]
  OBVIOUS
<1>6. HIDE DEF old, new, d
<1>7. ConfigOK(d)
  BY <1>2, <1>3, <1>4 DEF ConfigOK
<1>8. ASSUME NEW x \in DOMAIN l
      PROVE  x \in DOMAIN d /\ \A y \in DOMAIN l[x] :
                 <<x, y>> \notin e \cup {<<s, k>>} => y \in DOMAIN d[x] /\ d[x][y] = l[x][y]
  <2>1. x \in DOMAIN c /\ \A y \in DOMAIN l[x] : <<x, y>> \notin e => y \in DOMAIN c[x] /\ c[x][y] = l[x][y]
    BY <1>8 DEF KeepsLoaded
  <2>2. CASE x = s
    BY <1>2, <1>3, <1>5, <2>1, <2>2
  <2>3. CASE x # s
    BY <1>3, <2>1, <2>3
  <2>4. QED
    BY <2>2, <2>3
<1>9. KeepsLoaded(d, l, e \cup {<<s, k>>})
  BY <1>8 DEF KeepsLoaded
<1>10. QED
  BY <1>7, <1>9 DEF d

LEMMA SystemConfigSteps ==
    ASSUME SettingsInv, ConfigFetched \/ ConfigSet \/ ConfigSave \/ ConfigSaved
    PROVE  SettingsInv'
<1>1. ConfigOK(config) /\ KeepsLoaded(config, loaded, edited)
  BY DEF SettingsInv, ConfigPageOK
<1>2. CASE ConfigFetched
  <2>1. PICK n \in DOMAIN wire :
           \/ Succeeded(n, "getConfig") /\ config' = wire[n].ans /\ loaded' = wire[n].ans /\ wire' = Without(n)
           \/ Failed(n, "getConfig") /\ UNCHANGED <<config, loaded>>
    BY <1>2 DEF ConfigFetched
  <2>2. wire[n].op = "getConfig" /\ (wire' = Without(n) \/ Failed(n, wire[n].op))
    BY <2>1 DEF Succeeded, Failed
  <2>3. wire[n].flag \in {"config.loading"} \cup {""}
    BY <2>2, WireAndFlags DEF FlagOK
  <2>4. WireInv' /\ FlagsOK'
    BY <1>2, <2>2, <2>3, RequestOver DEF ConfigFetched
  <2>5. ConfigPageOK'
    <3>1. edited' = edited
      BY <1>2 DEF ConfigFetched
    <3>2. CASE Succeeded(n, "getConfig") /\ config' = wire[n].ans /\ loaded' = wire[n].ans
      <4>1. ConfigOK(wire[n].ans)
        BY <3>2, WireAndFlags DEF Succeeded, RequestOK, AnswerOK
      <4>2. KeepsLoaded(wire[n].ans, wire[n].ans, edited)
        BY DEF KeepsLoaded
      <4>3. QED
        BY <3>1, <3>2, <4>1, <4>2 DEF ConfigPageOK
    <3>3. CASE UNCHANGED <<config, loaded>>
      BY <1>1, <3>1, <3>3 DEF ConfigPageOK
    <3>4. QED
      BY <2>1, <3>2, <3>3
  <2>6. QED
    BY <1>2, <2>4, <2>5, Untouched DEF ConfigFetched, SettingsInv
<1>3. CASE ConfigSet
  <2>1. PICK s \in DOMAIN Keys : \E k \in Keys[s] : /\ config' = SetNestedValue(config, s, k, "typed")
                                                    /\ edited' = edited \cup {<<s, k>>}
    BY <1>3 DEF ConfigSet
  <2>2. PICK k \in Keys[s] : config' = SetNestedValue(config, s, k, "typed") /\ edited' = edited \cup {<<s, k>>}
    BY <2>1
  <2>3. ConfigPageOK'
    BY <1>1, <1>3, <2>2, PathsSet DEF ConfigPageOK, ConfigSet
  <2>4. WireInv'
    BY <1>3 DEF ConfigSet, SettingsInv, WireInv
  <2>5. QED
    BY <1>3, <2>3, <2>4, Untouched DEF ConfigSet, SettingsInv
<1>4. CASE ConfigSave
  <2>1. DEFINE arg == [body |-> config, loaded |-> loaded, edited |-> edited]
  <2>2. FlagOK("putConfig", "config.saving") /\ ArgOK("putConfig", arg)
    BY <1>1 DEF FlagOK, ArgOK
  <2>3. Sends("putConfig", arg, "config.saving")
    BY <1>4 DEF ConfigSave
  <2>4. HIDE DEF arg
  <2>5. WireInv' /\ FlagsOK' /\ UNCHANGED serverSide
    BY <2>2, <2>3, WireSends DEF SettingsInv, Sends
  <2>6. QED
    BY <1>4, <2>5, Untouched DEF ConfigSave, SettingsInv, cards
<1>5. CASE ConfigSaved
  <2>1. PICK n \in DOMAIN wire : wire[n].op = "putConfig" /\ (wire' = Without(n) \/ Failed(n, wire[n].op))
    BY <1>5 DEF ConfigSaved, Ended, Succeeded, Failed
  <2>2. wire[n].flag \in {"config.saving"} \cup {""}
    BY <2>1, WireAndFlags DEF FlagOK
  <2>3. WireInv' /\ FlagsOK'
    BY <1>5, <2>1, <2>2, RequestOver DEF ConfigSaved
  <2>4. QED
    BY <1>5, <2>3, Untouched DEF ConfigSaved, SettingsInv, cards
<1>6. QED
  BY <1>2, <1>3, <1>4, <1>5

SettingsStep == SettingsCardNext \/ UsersCardNext \/ EditorCardNext \/ SystemConfigNext

LEMMA SettingsStepKeeps == SettingsInv /\ [SettingsStep]_settingsVars => SettingsInv'
<1>1. SUFFICES ASSUME SettingsInv, [SettingsStep]_settingsVars PROVE SettingsInv'
  OBVIOUS
<1>2. CASE UNCHANGED settingsVars
  BY <1>1, <1>2, Untouched DEF settingsVars, cards, SettingsInv
<1>3. CASE SettingsCardNext
  BY <1>1, <1>3, ServeStep, SettingsCardSteps DEF SettingsCardNext
<1>4. CASE UsersCardNext
  BY <1>1, <1>4, ServeStep, UserDialogSteps, UsersCardSteps DEF UsersCardNext
<1>5. CASE EditorCardNext
  BY <1>1, <1>5, ServeStep, EditorCardSteps DEF EditorCardNext
<1>6. CASE SystemConfigNext
  BY <1>1, <1>6, ServeStep, SystemConfigSteps DEF SystemConfigNext
<1>7. QED
  BY <1>1, <1>2, <1>3, <1>4, <1>5, <1>6 DEF SettingsStep

LEMMA ZeroClicks == 0 \in 0..0 /\ 0 \in Nat
OBVIOUS

LEMMA FirstRequest ==
    ASSUME NEW op, NEW flag, FlagOK(op, flag), ArgOK(op, ""), flag # ""
    PROVE  wire = First(op, flag) /\ flags = {flag} /\ clicks = 0 => WireInv /\ FlagsOK
<1>1. DEFINE r == Request(op, "", flag)
<1>2. RequestOK(r) /\ r.flag = flag /\ r.st = "sent"
  <2>1. RequestOK(r)
    BY NewRequests
  <2>2. QED
    BY <2>1 DEF Request
<1>3. First(op, flag) = [n \in {0} |-> r]
  BY DEF First
<1>4. HIDE DEF r
<1>5. wire = First(op, flag) => DOMAIN wire = {0} /\ wire[0] = r
  BY <1>3
<1>6. DOMAIN wire = {0} /\ wire[0] = r /\ clicks = 0 => WireInv
  <2>1. DOMAIN wire = {0} /\ clicks = 0 => clicks \in Nat /\ DOMAIN wire \subseteq 0..clicks
    BY ZeroClicks, Zenon
  <2>2. DOMAIN wire = {0} /\ wire[0] = r => \A n \in DOMAIN wire : RequestOK(wire[n])
    BY <1>2
  <2>3. QED
    BY <2>1, <2>2 DEF WireInv
<1>7. DOMAIN wire = {0} /\ wire[0] = r /\ flags = {flag} => FlagsOK
  BY <1>2 DEF FlagsOK, FlagsMeanWork
<1>8. QED
  BY <1>5, <1>6, <1>7

LEMMA FirstFlags ==
    ASSUME NEW op, NEW flag, wire = First(op, flag), flags = {wire[n].flag : n \in DOMAIN wire}
    PROVE  flags = {flag}
<1>1. DEFINE r == Request(op, "", flag)
<1>2. r.flag = flag
  BY DEF Request
<1>3. wire = [n \in {0} |-> r]
  BY DEF First
<1>4. HIDE DEF r
<1>5. DOMAIN wire = {0} /\ wire[0] = r
  BY <1>3
<1>6. QED
  BY <1>2, <1>5

LEMMA SettingsPageStarts == ASSUME NEW which, SettingsStart(which) PROVE SettingsInv
<1>1. DOMAIN << >> = {}
  OBVIOUS
<1>2. WireInv /\ FlagsOK
  <2>1. clicks = 0 /\ flags = {wire[n].flag : n \in DOMAIN wire}
    BY DEF SettingsStart
  <2>2. /\ FlagOK("getSettings", "settings.loading") /\ FlagOK("listUsers", "users.loading")
        /\ FlagOK("getYaml", "editor.loading") /\ FlagOK("getConfig", "config.loading")
    BY DEF FlagOK
  <2>3. \A op \in {"getSettings", "listUsers", "getYaml", "getConfig"} : ArgOK(op, "")
    BY DEF ArgOK
  <2>4. CASE which = "settings"
    <3>1. wire = First("getSettings", "settings.loading")
      BY <2>4 DEF SettingsStart
    <3>2. QED
      BY <2>1, <2>2, <2>3, <3>1, FirstRequest, FirstFlags
  <2>5. CASE which = "users"
    <3>1. wire = First("listUsers", "users.loading")
      BY <2>5 DEF SettingsStart
    <3>2. QED
      BY <2>1, <2>2, <2>3, <3>1, FirstRequest, FirstFlags
  <2>6. CASE which = "editor"
    <3>1. wire = First("getYaml", "editor.loading")
      BY <2>6 DEF SettingsStart
    <3>2. QED
      BY <2>1, <2>2, <2>3, <3>1, FirstRequest, FirstFlags
  <2>7. CASE which = "system-config"
    <3>1. wire = First("getConfig", "config.loading")
      BY <2>7 DEF SettingsStart
    <3>2. QED
      BY <2>1, <2>2, <2>3, <3>1, FirstRequest, FirstFlags
  <2>8. CASE which \notin {"settings", "users", "editor", "system-config"}
    <3>1. wire = << >>
      BY <2>8 DEF SettingsStart
    <3>2. flags = {}
      BY <1>1, <2>1, <3>1
    <3>3. QED
      BY <1>1, <2>1, <3>1, <3>2 DEF WireInv, FlagsOK, FlagsMeanWork
  <2>9. QED
    BY <2>4, <2>5, <2>6, <2>7, <2>8
<1>3. ServerOK
  <2>1. ServerStart
    BY DEF SettingsStart
  <2>2. /\ DOMAIN st = {"mihomo_config", "isolation_dns", "raw"}
        /\ IsolationSurvives /\ HandlersKeep /\ unread \in Nat
    BY <1>1, <2>1 DEF ServerStart, IsolationSurvives, HandlersKeep
  <2>3. users \in UserTable
    BY <2>1 DEF ServerStart, UserTable, Roles
  <2>4. ConfigOK(cfg)
    BY <2>1 DEF ServerStart, ConfigOK
  <2>5. QED
    BY <2>2, <2>3, <2>4 DEF ServerOK
<1>4. UserCardOK
  <2>1. list \in UserTable
    BY DEF SettingsStart, UserTable
  <2>2. DOMAIN ClosedDialog = {"open", "editing", "role"} /\ ClosedDialog.role \in Roles
        /\ ClosedDialog.editing \in Users \cup {Nobody}
    BY DEF ClosedDialog, Roles
  <2>3. userDialog = ClosedDialog /\ deletingId = Nobody
    BY DEF SettingsStart
  <2>4. QED
    BY <2>1, <2>2, <2>3 DEF UserCardOK
<1>5. EditorOK
  BY DEF SettingsStart, EditorOK
<1>6. ConfigPageOK
  BY <1>1 DEF SettingsStart, ConfigPageOK, ConfigOK, KeepsLoaded
<1>7. QED
  BY <1>2, <1>3, <1>4, <1>5, <1>6 DEF SettingsInv

LEMMA SettingsTyped == SettingsInv => SettingsTypeOK
BY DEF SettingsInv, ServerOK, UserCardOK, EditorOK, ConfigPageOK, ConfigOK, UserTable, SettingsTypeOK

LEMMA SavesLoaded == SettingsInv => SavesWhatWasLoaded
<1>1. SUFFICES ASSUME SettingsInv, NEW n \in DOMAIN wire, wire[n].op = "putConfig"
               PROVE  LET saved == wire[n].arg IN
                      \A s \in DOMAIN saved.loaded : \A k \in DOMAIN saved.loaded[s] :
                          <<s, k>> \notin saved.edited =>
                              k \in DOMAIN saved.body[s] /\ saved.body[s][k] = saved.loaded[s][k]
  BY DEF SavesWhatWasLoaded
<1>2. KeepsLoaded(wire[n].arg.body, wire[n].arg.loaded, wire[n].arg.edited)
  BY <1>1, WireAndFlags DEF ArgOK
<1>3. QED
  BY <1>2 DEF KeepsLoaded

-----------------------------------------------------------------------------
(* The publish page's types. *)

Record == [content : 1..MaxContent, ok : BOOLEAN]
Records == Seq(Record)
Buttons == {"preview", "history", "validate", "publish", "discard", "rollback"}

ContentsOK ==
    /\ {draft, running, newest} \subseteq 1..MaxContent
    /\ records \in Records /\ Len(records) <= MaxRecords
    /\ history \in 0..MaxRecords
ViewOK == validation \in {"null", "valid", "invalid"} /\ busy \subseteq Buttons
AskedOK == asked \subseteq [st : {"sent", "done"}, ans : BOOLEAN]
ShownOK == {hasChanges, mounted, preview, confirming} \subseteq BOOLEAN

LEMMA PublishPageParts ==
    PublishPageTypeOK <=> ContentsOK /\ ViewOK /\ AskedOK /\ ShownOK
BY DEF PublishPageTypeOK, ContentsOK, ViewOK, AskedOK, ShownOK, Records, Record, Buttons

LEMMA PublishPageStarts == PublishPageInit => PublishPageTypeOK
<1>1. SUFFICES ASSUME PublishPageInit PROVE ContentsOK /\ ViewOK /\ AskedOK /\ ShownOK
  BY PublishPageParts
<1>2. 1 \in 1..MaxContent /\ 0 \in 0..MaxRecords /\ << >> \in Records /\ Len(<< >>) = 0 /\ 0 <= MaxRecords
  BY PublishPageAssumption DEF Records
<1>3. QED
  BY <1>1, <1>2 DEF PublishPageInit, ContentsOK, ViewOK, AskedOK, ShownOK

LEMMA PublishPageUntouched ==
    /\ ContentsOK /\ UNCHANGED <<serverState, history>> => ContentsOK'
    /\ ViewOK /\ UNCHANGED <<validation, busy>> => ViewOK'
    /\ AskedOK /\ UNCHANGED asked => AskedOK'
    /\ ShownOK /\ UNCHANGED <<hasChanges, mounted, preview, confirming>> => ShownOK'
BY DEF ContentsOK, ViewOK, AskedOK, ShownOK, serverState

LEMMA StatusAsked == ASSUME AskedOK, AskStatus PROVE AskedOK'
<1>1. [st |-> "sent", ans |-> FALSE] \in [st : {"sent", "done"}, ans : BOOLEAN]
  OBVIOUS
<1>2. QED
  BY <1>1 DEF AskedOK, AskStatus

(* What the last success is: the newest record that went well.             *)
LEMMA LastSuccessExists ==
    ASSUME ContentsOK, Success(Len(records)) # {}
    PROVE  LastSuccess \in 1..Len(records) /\ records[LastSuccess].content \in 1..MaxContent
<1>1. Len(records) \in Nat /\ Success(Len(records)) \in SUBSET (1..Len(records))
  BY DEF ContentsOK, Records, Success
<1>2. \E i \in Success(Len(records)) : \A j \in Success(Len(records)) : j <= i
  BY <1>1, Largest
<1>3. LastSuccess \in Success(Len(records))
  BY <1>2 DEF LastSuccess
<1>4. LastSuccess \in 1..Len(records)
  BY <1>1, <1>3
<1>5. records[LastSuccess] \in Record
  BY <1>4 DEF ContentsOK, Records
<1>6. records[LastSuccess].content \in 1..MaxContent
  BY <1>5 DEF Record
<1>7. QED
  BY <1>4, <1>6

(* A request that is executed records what was published or restored.      *)
LEMMA ExecutedContents ==
    ASSUME ContentsOK, NEW op, NEW ok \in BOOLEAN, Executes(op, ok), UNCHANGED history
    PROVE  ContentsOK'
<1>1. ASSUME NEW content \in 1..MaxContent, Recorded(content, ok)
      PROVE  ContentsOK'
  <2>1. [content |-> content, ok |-> ok] \in Record
    BY DEF Record
  <2>2. Len(records) \in Nat /\ Len(records) < MaxRecords
    BY <1>1 DEF Recorded, ContentsOK, Records
  <2>3. DEFINE rec == [content |-> content, ok |-> ok]
  <2>4. records' = Append(records, rec)
    BY <1>1 DEF Recorded
  <2>5. HIDE DEF rec
  <2>6. records' \in Records /\ Len(records') = Len(records) + 1
    BY <2>1, <2>4 DEF ContentsOK, Records, rec
  <2>7. running' \in 1..MaxContent /\ draft' = draft /\ newest' = newest
    BY <1>1 DEF Recorded, ContentsOK
  <2>8. QED
    BY <2>2, <2>6, <2>7, PublishPageAssumption DEF ContentsOK
<1>2. CASE Recorded(draft, ok)
  BY <1>1, <1>2 DEF ContentsOK
<1>3. CASE Success(Len(records)) # {} /\ Recorded(records[LastSuccess].content, ok)
  BY <1>1, <1>3, LastSuccessExists
<1>4. CASE Rewritten /\ UNCHANGED records
  <2>1. PICK again \in {running} \cup (IF newest < MaxContent THEN {newest + 1} ELSE {}) :
           draft' = again /\ running' = again /\ newest' = (IF again = running THEN newest ELSE again)
    BY <1>4 DEF Rewritten
  <2>2. again \in 1..MaxContent
    BY <2>1, PublishPageAssumption DEF ContentsOK
  <2>3. newest' \in 1..MaxContent
    BY <2>1, <2>2 DEF ContentsOK
  <2>4. QED
    BY <1>4, <2>1, <2>2, <2>3 DEF ContentsOK
<1>5. QED
  BY <1>2, <1>3, <1>4 DEF Executes

LEMMA PublishPageServer ==
    ASSUME PublishPageTypeOK, Edited \/ ServeStatus \/ ServeWrite
    PROVE  PublishPageTypeOK'
<1>1. ContentsOK /\ ViewOK /\ AskedOK /\ ShownOK
  BY PublishPageParts
<1>2. SUFFICES ContentsOK' /\ ViewOK' /\ AskedOK' /\ ShownOK'
  BY PublishPageParts, PTL
<1>3. CASE Edited
  <2>1. newest + 1 \in 1..MaxContent
    BY <1>1, <1>3, PublishPageAssumption DEF Edited, ContentsOK
  <2>2. QED
    BY <1>1, <1>3, <2>1 DEF Edited, ContentsOK, ViewOK, AskedOK, ShownOK, pageState
<1>4. CASE ServeStatus
  <2>1. Status(draft # running) \in [st : {"sent", "done"}, ans : BOOLEAN]
    BY Zenon DEF Status
  <2>2. AskedOK'
    BY <1>1, <1>4, <2>1 DEF ServeStatus, AskedOK
  <2>3. QED
    BY <1>1, <1>4, <2>2 DEF ServeStatus, ContentsOK, ViewOK, ShownOK, serverState, pageState
<1>5. CASE ServeWrite
  <2>1. UNCHANGED <<hasChanges, pageState, asked>>
    BY <1>5 DEF ServeWrite
  <2>2. ContentsOK'
    <3>1. CASE \E op : \E ok \in BOOLEAN : Executes(op, ok)
      <4>1. history' = history
        BY <2>1 DEF pageState
      <4>2. QED
        BY <1>1, <3>1, <4>1, ExecutedContents
    <3>2. CASE UNCHANGED serverState
      BY <1>1, <2>1, <3>2 DEF serverState, pageState, ContentsOK
    <3>3. QED
      BY <1>5, <3>1, <3>2 DEF ServeWrite, Refuses
  <2>3. QED
    BY <1>1, <2>1, <2>2 DEF pageState, ViewOK, AskedOK, ShownOK
<1>6. QED
  BY <1>3, <1>4, <1>5

(* The status: what is asked, and what an answer does to the page. *)
LEMMA PublishPageStatus ==
    ASSUME PublishPageTypeOK, Poll \/ StatusLost \/ \E v \in BOOLEAN : StatusAnswered(v)
    PROVE  PublishPageTypeOK'
<1>1. ContentsOK /\ ViewOK /\ AskedOK /\ ShownOK
  BY PublishPageParts
<1>2. SUFFICES ContentsOK' /\ ViewOK' /\ AskedOK' /\ ShownOK'
  BY PublishPageParts, PTL
<1>3. CASE Poll
  BY <1>1, <1>3, StatusAsked, PublishPageUntouched DEF Poll, pageState
<1>4. CASE StatusLost
  <2>1. AskedOK'
    BY <1>1, <1>4 DEF StatusLost, AskedOK
  <2>2. QED
    BY <1>1, <1>4, <2>1, PublishPageUntouched DEF StatusLost, pageState
<1>5. CASE \E v \in BOOLEAN : StatusAnswered(v)
  <2>1. PICK v \in BOOLEAN : StatusAnswered(v)
    BY <1>5
  <2>2. UNCHANGED <<serverState, history, mounted, confirming>> /\ asked' \subseteq asked
    BY <2>1 DEF StatusAnswered
  <2>3. validation' \in {"null", validation} /\ busy' \subseteq busy \cup {"preview"}
    BY <2>1 DEF StatusAnswered
  <2>4. hasChanges' \in BOOLEAN /\ preview' \in BOOLEAN
    <3>1. preview' = preview \/ preview' = (preview /\ v)
      BY <2>1, Zenon DEF StatusAnswered
    <3>2. QED
      BY <1>1, <2>1, <3>1, Zenon DEF StatusAnswered, ShownOK
  <2>5. ViewOK'
    BY <1>1, <2>3 DEF ViewOK, Buttons
  <2>6. QED
    BY <1>1, <2>2, <2>4, <2>5 DEF ContentsOK, AskedOK, ShownOK, serverState
<1>6. QED
  BY <1>3, <1>4, <1>5

(* The page: mounting, clicks and what is fetched. *)
LEMMA PublishPageClicks ==
    ASSUME PublishPageTypeOK,
           \/ Mount \/ Unmount \/ PreviewFetched \/ HistoryFetched \/ Validated
           \/ ValidateClick \/ PublishClick \/ DiscardClick \/ RollbackClick \/ RollbackConfirm
    PROVE  PublishPageTypeOK'
<1>1. ContentsOK /\ ViewOK /\ AskedOK /\ ShownOK
  BY PublishPageParts
<1>2. SUFFICES ContentsOK' /\ ViewOK' /\ AskedOK' /\ ShownOK'
  BY PublishPageParts, PTL
<1>3. {TRUE, FALSE} \subseteq BOOLEAN
  OBVIOUS
<1>4. CASE Mount
  <2>1. AskedOK'
    BY <1>1, <1>4, StatusAsked DEF Mount
  <2>2. ViewOK'
    BY <1>1, <1>4 DEF Mount, ViewOK, Buttons
  <2>3. ShownOK'
    BY <1>1, <1>3, <1>4 DEF Mount, ShownOK
  <2>4. QED
    BY <1>1, <1>4, <2>1, <2>2, <2>3, PublishPageUntouched DEF Mount
<1>5. CASE Unmount
  <2>1. ViewOK' /\ ShownOK'
    BY <1>1, <1>3, <1>5 DEF Unmount, ViewOK, ShownOK
  <2>2. ContentsOK'
    <3>1. history' = 0 /\ UNCHANGED <<draft, running, newest, records>>
      BY <1>5 DEF Unmount, serverState
    <3>2. 0 \in 0..MaxRecords
      BY PublishPageAssumption
    <3>3. QED
      BY <1>1, <3>1, <3>2 DEF ContentsOK
  <2>3. QED
    BY <1>1, <1>5, <2>1, <2>2, PublishPageUntouched DEF Unmount
<1>6. CASE PreviewFetched
  <2>1. PICK ok \in BOOLEAN : Fetched("preview", ok) /\ preview' = (preview \/ ok) /\ UNCHANGED <<validation, history>>
    BY <1>6 DEF PreviewFetched
  <2>2. UNCHANGED <<serverState, hasChanges, mounted, confirming, asked>> /\ busy' \subseteq busy
    BY <2>1 DEF Fetched
  <2>3. preview' \in BOOLEAN
    BY <2>1, Zenon
  <2>4. ShownOK'
    BY <1>1, <2>2, <2>3 DEF ShownOK
  <2>5. ViewOK'
    BY <1>1, <2>1, <2>2 DEF ViewOK
  <2>6. QED
    BY <1>1, <2>1, <2>2, <2>4, <2>5, PublishPageUntouched
<1>7. CASE HistoryFetched
  <2>1. PICK ok \in BOOLEAN : /\ Fetched("history", ok) /\ history' = (IF ok THEN Len(records) ELSE history)
                              /\ UNCHANGED <<validation, preview>>
    BY <1>7 DEF HistoryFetched
  <2>2. UNCHANGED <<serverState, hasChanges, mounted, confirming, asked>> /\ busy' \subseteq busy
    BY <2>1 DEF Fetched
  <2>3. history' = Len(records) \/ history' = history
    BY <2>1, Zenon
  <2>4. Len(records) \in 0..MaxRecords
    BY <1>1, PublishPageAssumption DEF ContentsOK, Records
  <2>5. ContentsOK'
    BY <1>1, <2>2, <2>3, <2>4 DEF ContentsOK, serverState
  <2>6. ViewOK'
    BY <1>1, <2>1, <2>2 DEF ViewOK
  <2>7. QED
    BY <1>1, <2>1, <2>2, <2>5, <2>6, PublishPageUntouched
<1>8. CASE Validated
  <2>1. PICK ok \in BOOLEAN :
           /\ Fetched("validate", ok)
           /\ validation' = IF ~ok THEN validation ELSE IF draft \in Invalid THEN "invalid" ELSE "valid"
           /\ UNCHANGED <<preview, history>>
    BY <1>8 DEF Validated
  <2>2. UNCHANGED <<serverState, hasChanges, mounted, confirming, asked>> /\ busy' \subseteq busy
    BY <2>1 DEF Fetched
  <2>3. validation' = validation \/ validation' = "invalid" \/ validation' = "valid"
    BY <2>1, Zenon
  <2>4. ViewOK'
    BY <1>1, <2>2, <2>3 DEF ViewOK
  <2>5. QED
    BY <1>1, <2>1, <2>2, <2>4, PublishPageUntouched
<1>9. ASSUME NEW op \in Buttons, Click(op)
      PROVE  ContentsOK' /\ ViewOK' /\ AskedOK' /\ (UNCHANGED confirming => ShownOK')
             /\ UNCHANGED <<hasChanges, mounted, preview>>
  <2>1. UNCHANGED <<serverState, hasChanges, mounted, preview, validation, history, asked>> /\ busy' = busy \cup {op}
    BY <1>9 DEF Click
  <2>2. ViewOK'
    BY <1>1, <1>9, <2>1 DEF ViewOK
  <2>3. QED
    BY <1>1, <2>1, <2>2, PublishPageUntouched
<1>10. CASE ValidateClick \/ PublishClick \/ DiscardClick
  BY <1>9, <1>10 DEF ValidateClick, PublishClick, DiscardClick, Buttons
<1>11. CASE RollbackClick
  <2>1. ShownOK'
    BY <1>1, <1>3, <1>11 DEF RollbackClick, ShownOK
  <2>2. QED
    BY <1>1, <1>11, <2>1, PublishPageUntouched DEF RollbackClick
<1>12. CASE RollbackConfirm
  <2>1. ContentsOK' /\ ViewOK' /\ AskedOK' /\ UNCHANGED <<hasChanges, mounted, preview>> /\ confirming' = FALSE
    BY <1>9, <1>12 DEF RollbackConfirm, Buttons
  <2>2. ShownOK'
    BY <1>1, <1>3, <2>1 DEF ShownOK
  <2>3. QED
    BY <2>1, <2>2
<1>13. QED
  BY <1>4, <1>5, <1>6, <1>7, <1>8, <1>10, <1>11, <1>12

LEMMA PublishPageAnswers ==
    ASSUME PublishPageTypeOK, PublishedOrRolledBack \/ Discarded
    PROVE  PublishPageTypeOK'
<1>1. ContentsOK /\ ViewOK /\ AskedOK /\ ShownOK
  BY PublishPageParts
<1>2. SUFFICES ContentsOK' /\ ViewOK' /\ AskedOK' /\ ShownOK'
  BY PublishPageParts, PTL
<1>3. UNCHANGED <<serverState, hasChanges, mounted, preview, history>>
  BY DEF PublishedOrRolledBack, Discarded
<1>4. PICK w \in writes : (\E unmounts : WriteAnswered(w, unmounts)) \/ WriteFailed(w)
  BY DEF PublishedOrRolledBack, Discarded
<1>5. AskedOK'
  BY <1>1, <1>4, StatusAsked, PublishPageUntouched DEF WriteAnswered, WriteFailed
<1>6. busy' \subseteq busy \cup {"history", "preview"}
  <2>1. ASSUME NEW x \in writes, WriteFailed(x)
        PROVE  busy' \subseteq busy
    BY <2>1 DEF WriteFailed
  <2>2. QED
    BY <2>1 DEF PublishedOrRolledBack, Discarded
<1>7. validation' = "null" \/ validation' = validation
  BY Zenon DEF PublishedOrRolledBack, Discarded
<1>8. ViewOK'
  BY <1>1, <1>6, <1>7 DEF ViewOK, Buttons
<1>9. confirming' = FALSE \/ confirming' = confirming
  BY Zenon DEF PublishedOrRolledBack, Discarded
<1>10. ShownOK'
  BY <1>1, <1>3, <1>9 DEF ShownOK
<1>11. QED
  BY <1>1, <1>3, <1>5, <1>8, <1>10, PublishPageUntouched

LEMMA PublishPageStep == PublishPageTypeOK /\ [PublishPageNext]_publishVars => PublishPageTypeOK'
<1>1. SUFFICES ASSUME PublishPageTypeOK, [PublishPageNext]_publishVars PROVE PublishPageTypeOK'
  OBVIOUS
<1>2. CASE UNCHANGED publishVars
  <2>1. ContentsOK /\ ViewOK /\ AskedOK /\ ShownOK
    BY <1>1, PublishPageParts
  <2>2. ContentsOK' /\ ViewOK' /\ AskedOK' /\ ShownOK'
    BY <1>2, <2>1, PublishPageUntouched DEF publishVars, pageState
  <2>3. QED
    BY <2>2, PublishPageParts, PTL
<1>3. CASE PublishPageNext
  BY <1>1, <1>3, PublishPageServer, PublishPageStatus, PublishPageClicks, PublishPageAnswers DEF PublishPageNext
<1>4. QED
  BY <1>1, <1>2, <1>3

-----------------------------------------------------------------------------
(* The session's types. *)

TokensOK == issued \in 0..MaxTokens /\ expired \subseteq 1..issued /\ {storage, mem} \subseteq 0..issued
PlaceOK == at \in {"login", "app", "leaving"} /\ saving \in BOOLEAN
Calls(n) == [op : {"login", "me", "status", "password"}, token : 0..n, ans : {"", "ok", "refused", "unauthorized"}]
CallsOK == calls \subseteq Calls(issued)

LEMMA SessionParts == SessionTypeOK <=> TokensOK /\ PlaceOK /\ CallsOK
BY DEF SessionTypeOK, TokensOK, PlaceOK, CallsOK, Calls

LEMMA SessionUntouched ==
    /\ TokensOK /\ UNCHANGED <<expired, issued, storage, mem>> => TokensOK'
    /\ PlaceOK /\ UNCHANGED <<at, saving>> => PlaceOK'
    /\ CallsOK /\ UNCHANGED <<calls, issued>> => CallsOK'
    /\ CallsOK /\ UNCHANGED issued /\ calls' \subseteq calls => CallsOK'
BY DEF TokensOK, PlaceOK, CallsOK

(* Tokens are handed out upwards. *)
LEMMA MoreTokens ==
    ASSUME NEW n \in Nat, NEW m \in Nat, n <= m
    PROVE  0..n \subseteq 0..m /\ 1..n \subseteq 1..m /\ Calls(n) \subseteq Calls(m)
<1>1. 0..n \subseteq 0..m /\ 1..n \subseteq 1..m
  OBVIOUS
<1>2. QED
  BY <1>1 DEF Calls

LEMMA CallsAsked ==
    ASSUME TokensOK, CallsOK, NEW op \in {"login", "me", "status", "password"}, Asked(op), UNCHANGED issued
    PROVE  CallsOK'
<1>1. Call(op, storage) \in Calls(issued)
  BY DEF Call, Calls, TokensOK
<1>2. QED
  BY <1>1 DEF Asked, CallsOK

LEMMA SessionServer ==
    ASSUME SessionTypeOK, TokenExpires \/ OtherTabs \/ \E op : ServeCall(op)
    PROVE  SessionTypeOK'
<1>1. TokensOK /\ PlaceOK /\ CallsOK
  BY SessionParts
<1>2. SUFFICES TokensOK' /\ PlaceOK' /\ CallsOK'
  BY SessionParts, PTL
<1>3. issued \in Nat /\ issued <= MaxTokens /\ MaxTokens \in Nat
  BY <1>1, SessionAssumption DEF TokensOK
<1>4. CASE TokenExpires
  <2>1. TokensOK'
    BY <1>1, <1>4 DEF TokenExpires, TokensOK
  <2>2. QED
    BY <1>1, <1>4, <2>1, SessionUntouched DEF TokenExpires
<1>5. CASE OtherTabs
  <2>1. PICK n \in {issued, issued + 1} \cap 0..MaxTokens : issued' = n /\ storage' \in 0..n
    BY <1>5 DEF OtherTabs
  <2>2. n \in Nat /\ issued <= n
    BY <1>3, <2>1
  <2>3. 0..issued \subseteq 0..n /\ 1..issued \subseteq 1..n /\ Calls(issued) \subseteq Calls(n)
    BY <1>3, <2>2, MoreTokens
  <2>4. TokensOK' /\ CallsOK'
    BY <1>1, <1>5, <2>1, <2>3 DEF OtherTabs, TokensOK, CallsOK
  <2>5. QED
    BY <1>1, <1>5, <2>4, SessionUntouched DEF OtherTabs
<1>6. CASE \E op : ServeCall(op)
  <2>1. PICK c \in calls, ans \in {"ok", "refused", "unauthorized"} :
           /\ UNCHANGED <<expired, storage, at, mem, saving>>
           /\ \/ /\ issued < MaxTokens /\ issued' = issued + 1
                 /\ calls' = (calls \ {c}) \cup {[c EXCEPT !.ans = ans, !.token = issued']}
              \/ /\ UNCHANGED issued
                 /\ calls' = (calls \ {c}) \cup {[c EXCEPT !.ans = ans, !.token = 0]}
    BY <1>6 DEF ServeCall
  <2>2. issued' \in 0..MaxTokens /\ issued' \in Nat /\ issued <= issued'
    BY <1>3, <2>1
  <2>3. 0..issued \subseteq 0..issued' /\ 1..issued \subseteq 1..issued' /\ Calls(issued) \subseteq Calls(issued')
    BY <1>3, <2>2, MoreTokens
  <2>4. TokensOK'
    BY <1>1, <2>1, <2>2, <2>3 DEF TokensOK
  <2>5. ASSUME NEW k \in 0..issued'
        PROVE  [c EXCEPT !.ans = ans, !.token = k] \in Calls(issued')
    <3>1. c \in Calls(issued')
      BY <1>1, <2>1, <2>3 DEF CallsOK
    <3>2. QED
      BY <2>1, <2>5, <3>1 DEF Calls
  <2>6. 0 \in 0..issued' /\ issued' \in 0..issued'
    BY <2>2
  <2>7. CallsOK'
    BY <1>1, <2>1, <2>3, <2>5, <2>6 DEF CallsOK
  <2>8. QED
    BY <1>1, <2>1, <2>4, <2>7, SessionUntouched
<1>7. QED
  BY <1>4, <1>5, <1>6

LEMMA SessionPages ==
    ASSUME SessionTypeOK,
           \/ OpenApp \/ LeaveForLogin \/ PollStatus \/ LoginSubmit \/ Logout \/ ChangePassword
    PROVE  SessionTypeOK'
<1>1. TokensOK /\ PlaceOK /\ CallsOK
  BY SessionParts
<1>2. SUFFICES TokensOK' /\ PlaceOK' /\ CallsOK'
  BY SessionParts, PTL
<1>3. issued \in Nat /\ 0 \in 0..issued
  BY <1>1, SessionAssumption DEF TokensOK
<1>4. ASSUME NEW path \in {"login", "app"}, Loaded(path)
      PROVE  TokensOK' /\ PlaceOK' /\ CallsOK'
  <2>1. mem' = storage /\ at' \in {"login", "app"} /\ calls' = {} /\ saving' = FALSE
        /\ UNCHANGED <<expired, issued, storage>>
    BY <1>4 DEF Loaded
  <2>2. QED
    BY <1>1, <2>1 DEF TokensOK, PlaceOK, CallsOK
<1>5. CASE OpenApp \/ LeaveForLogin
  BY <1>4, <1>5 DEF OpenApp, LeaveForLogin
<1>6. CASE PollStatus
  BY <1>1, <1>6, CallsAsked, SessionUntouched DEF PollStatus
<1>7. CASE LoginSubmit
  <2>1. PlaceOK'
    BY <1>1, <1>7 DEF LoginSubmit, PlaceOK
  <2>2. QED
    BY <1>1, <1>7, <2>1, CallsAsked, SessionUntouched DEF LoginSubmit
<1>8. CASE ChangePassword
  <2>1. PlaceOK'
    BY <1>1, <1>8 DEF ChangePassword, PlaceOK
  <2>2. QED
    BY <1>1, <1>8, <2>1, CallsAsked, SessionUntouched DEF ChangePassword
<1>9. CASE Logout
  <2>1. TokensOK' /\ PlaceOK'
    BY <1>1, <1>3, <1>9 DEF Logout, TokensOK, PlaceOK
  <2>2. \A c \in calls : [c EXCEPT !.op = "status"] \in Calls(issued)
    BY <1>1 DEF CallsOK, Calls
  <2>3. CallsOK'
    BY <1>9, <2>2 DEF Logout, CallsOK
  <2>4. QED
    BY <2>1, <2>3
<1>10. QED
  BY <1>5, <1>6, <1>7, <1>8, <1>9

LEMMA SessionAnswers ==
    ASSUME SessionTypeOK, PollAnswered \/ LoginAnswered \/ MeAnswered \/ PasswordAnswered
    PROVE  SessionTypeOK'
<1>1. TokensOK /\ PlaceOK /\ CallsOK
  BY SessionParts
<1>2. SUFFICES TokensOK' /\ PlaceOK' /\ CallsOK'
  BY SessionParts, PTL
<1>3. issued \in Nat /\ 0 \in 0..issued
  BY <1>1, SessionAssumption DEF TokensOK
<1>4. UNCHANGED <<expired, issued>>
  BY DEF PollAnswered, LoginAnswered, MeAnswered, PasswordAnswered, NoAnswer
<1>5. Unauthorized => storage' = 0 /\ at' \in {at, "leaving"}
  BY DEF Unauthorized
<1>6. ASSUME NEW op, NoAnswer(op)
      PROVE  TokensOK' /\ PlaceOK' /\ CallsOK'
  <2>1. UNCHANGED <<expired, issued, storage, at, mem>> /\ calls' \subseteq calls
    BY <1>6 DEF NoAnswer
  <2>2. saving' \in BOOLEAN
    BY <1>6, Zenon DEF NoAnswer
  <2>3. PlaceOK'
    BY <1>1, <2>1, <2>2 DEF PlaceOK
  <2>4. QED
    BY <1>1, <2>1, <2>3, SessionUntouched
<1>7. ASSUME storage' \in {storage, mem, 0}, mem' = mem, at' \in {at, "leaving", "app"}, saving' \in {saving, FALSE},
             calls' \subseteq calls
      PROVE  TokensOK' /\ PlaceOK' /\ CallsOK'
  <2>1. TokensOK'
    BY <1>1, <1>3, <1>4, <1>7 DEF TokensOK
  <2>2. PlaceOK'
    BY <1>1, <1>7 DEF PlaceOK
  <2>3. QED
    BY <1>1, <1>4, <1>7, <2>1, <2>2, SessionUntouched
<1>8. CASE PollAnswered
  BY <1>5, <1>6, <1>7, <1>8 DEF PollAnswered, AnswerOf
<1>9. CASE MeAnswered
  <2>1. CASE NoAnswer("me")
    BY <1>6, <2>1
  <2>2. CASE ~NoAnswer("me")
    <3>1. PICK c \in calls :
             /\ AnswerOf("me", c) /\ saving' = FALSE /\ UNCHANGED mem
             /\ CASE c.ans = "ok"           -> storage' = mem /\ at' = "app"
                  [] c.ans = "unauthorized" -> Unauthorized
                  [] c.ans = "refused"      -> UNCHANGED <<storage, at>>
      BY <1>9, <2>2 DEF MeAnswered
    <3>2. c.ans \in {"ok", "unauthorized", "refused"}
      BY <1>1, <3>1 DEF AnswerOf, CallsOK, Calls
    <3>3. storage' \in {storage, mem, 0} /\ at' \in {at, "leaving", "app"}
      BY <1>5, <3>1, <3>2
    <3>4. QED
      BY <1>7, <3>1, <3>3 DEF AnswerOf
  <2>3. QED
    BY <2>1, <2>2
<1>10. CASE PasswordAnswered
  BY <1>5, <1>6, <1>7, <1>10 DEF PasswordAnswered, AnswerOf
<1>11. CASE LoginAnswered
  <2>1. CASE NoAnswer("login")
    BY <1>6, <2>1
  <2>2. CASE ~NoAnswer("login")
    <3>1. PICK c \in calls :
             IF c.ans = "ok"
             THEN /\ storage' = c.token /\ mem' = c.token
                  /\ calls' = (calls \ {c}) \cup {Call("me", c.token)}
                  /\ UNCHANGED <<at, saving>>
             ELSE /\ AnswerOf("login", c) /\ Unauthorized
                  /\ saving' = FALSE /\ UNCHANGED mem
      BY <1>11, <2>2 DEF LoginAnswered
    <3>2. CASE c.ans = "ok"
      <4>1. c.token \in 0..issued
        BY <1>1, <3>1 DEF CallsOK, Calls
      <4>2. Call("me", c.token) \in Calls(issued)
        BY <4>1 DEF Call, Calls
      <4>3. TokensOK'
        BY <1>1, <1>4, <3>1, <3>2, <4>1 DEF TokensOK
      <4>4. CallsOK'
        BY <1>1, <1>4, <3>1, <3>2, <4>2 DEF CallsOK
      <4>5. QED
        BY <1>1, <3>1, <3>2, <4>3, <4>4, SessionUntouched
    <3>3. CASE c.ans # "ok"
      BY <1>5, <1>7, <3>1, <3>3 DEF AnswerOf
    <3>4. QED
      BY <3>2, <3>3
  <2>3. QED
    BY <2>1, <2>2
<1>12. QED
  BY <1>8, <1>9, <1>10, <1>11

LEMMA SessionTypesKept == SessionTypeOK /\ [SessionNext]_sessionVars => SessionTypeOK'
<1>1. SUFFICES ASSUME SessionTypeOK, [SessionNext]_sessionVars PROVE SessionTypeOK'
  OBVIOUS
<1>2. CASE UNCHANGED sessionVars
  <2>1. TokensOK' /\ PlaceOK' /\ CallsOK'
    BY <1>1, <1>2, SessionParts, SessionUntouched DEF sessionVars
  <2>2. QED
    BY <2>1, SessionParts, PTL
<1>3. CASE SessionNext
  BY <1>1, <1>3, SessionServer, SessionPages, SessionAnswers DEF SessionNext, SessionStep
<1>4. QED
  BY <1>1, <1>2, <1>3

LEMMA SessionStarts == SessionInit => SessionTypeOK
<1>1. SUFFICES ASSUME SessionInit PROVE TokensOK /\ PlaceOK /\ CallsOK
  BY SessionParts
<1>2. 0 \in 0..MaxTokens /\ 0 \in 0..0
  BY SessionAssumption
<1>3. TokensOK
  BY <1>1, <1>2 DEF SessionInit, TokensOK
<1>4. QED
  BY <1>1, <1>3 DEF SessionInit, PlaceOK, CallsOK

-----------------------------------------------------------------------------
(* The console: one page is open, the variables of the others stay.        *)

ConsoleInv == page \in Pages /\ FormsInv /\ SettingsInv /\ PublishPageTypeOK /\ SessionTypeOK

LEMMA ConsoleStarts == Init => ConsoleInv
BY FormsStart, SettingsPageStarts, PublishPageStarts, SessionStarts DEF Init, ConsoleInv

LEMMA ConsoleSteps ==
    [Next]_vars => /\ UNCHANGED page
                   /\ [FormsNext]_formsVars /\ [SettingsStep]_settingsVars
                   /\ [PublishPageNext]_publishVars /\ [SessionNext]_sessionVars
<1>1. Dialogs => /\ UNCHANGED <<page, settingsVars, publishVars, sessionVars>> /\ FormsNext
  BY DEF Dialogs
<1>2. Settings => UNCHANGED <<page, formsVars, publishVars, sessionVars>> /\ SettingsStep
  BY DEF Settings, SettingsStep
<1>3. Publishing => UNCHANGED <<page, formsVars, settingsVars, sessionVars>> /\ PublishPageNext
  BY DEF Publishing
<1>4. LoggingInAndOut => UNCHANGED <<page, formsVars, settingsVars, publishVars>> /\ SessionNext
  BY DEF LoggingInAndOut
<1>5. QED
  BY <1>1, <1>2, <1>3, <1>4 DEF Next, vars

LEMMA ConsoleInvKept == ConsoleInv /\ [Next]_vars => ConsoleInv'
BY ConsoleSteps, FormsStep, SettingsStepKeeps, PublishPageStep, SessionTypesKept DEF ConsoleInv

(* Every reachable state of the console satisfies the invariants of its    *)
(* dialogs, cards and pages: what a dialog shows belongs to its type, what *)
(* is on the wire is in order, a flag stands for a request.                *)
THEOREM ConsoleInvariance == Spec => []ConsoleInv
<1>1. Init => ConsoleInv
  BY ConsoleStarts
<1>2. ConsoleInv /\ [Next]_vars => ConsoleInv'
  BY ConsoleInvKept
<1>3. QED
  BY <1>1, <1>2, PTL DEF Spec

(* The console's variables keep their types (proxy-form.tsx to auth.ts).   *)
THEOREM ConsoleTypeCorrect == Spec => []TypeOK
<1>1. ConsoleInv => TypeOK
  BY FormsTyped, SettingsTyped DEF ConsoleInv, TypeOK
<1>2. QED
  BY <1>1, ConsoleInvariance, PTL

(* Whatever rows are edited and in whatever order types are chosen and     *)
(* inputs filled, a dialog sends nothing that belongs to another type      *)
(* (handleTypeChange and handleSubmit of the forms).                       *)
THEOREM DialogsSendTheirType == Spec => []SentBelongsToType
<1>1. ConsoleInv => SentBelongsToType
  BY SentBelongs DEF ConsoleInv
<1>2. QED
  BY <1>1, ConsoleInvariance, PTL

(* Adding, removing and dragging members of a group never makes one appear *)
(* twice, for lists of any length (group-member-list.tsx).                 *)
THEOREM GroupsStayDistinct == Spec => []MembersAreDistinct
<1>1. ConsoleInv => MembersAreDistinct
  BY SentDistinct DEF ConsoleInv
<1>2. QED
  BY <1>1, ConsoleInvariance, PTL

(* As long as every put could read the settings row, none of them, late,   *)
(* made from a page that never loaded or written after another's, clears   *)
(* the isolation settings (UpdateSettings of handler/settings.go).         *)
THEOREM IsolationIsKept == Spec => []IsolationSurvives
<1>1. ConsoleInv => IsolationSurvives
  BY DEF ConsoleInv, SettingsInv, ServerOK
<1>2. QED
  BY <1>1, ConsoleInvariance, PTL

(* Every save of the system configuration on the wire has what the page    *)
(* had loaded, but for the paths that were set, for any sections and keys  *)
(* (setNestedValue of system-config.tsx).                                  *)
THEOREM ConfigSavesKeepTheRest == Spec => []SavesWhatWasLoaded
<1>1. ConsoleInv => SavesWhatWasLoaded
  BY SavesLoaded DEF ConsoleInv
<1>2. QED
  BY <1>1, ConsoleInvariance, PTL

(* No card waits for a request that is over: whatever fails, times out or  *)
(* is answered, the flag goes down with its request (settings.tsx,         *)
(* system-config.tsx).                                                     *)
THEOREM FlagsStandForRequests == Spec => []FlagsMeanWork
<1>1. ConsoleInv => FlagsMeanWork
  BY DEF ConsoleInv, SettingsInv, FlagsOK
<1>2. QED
  BY <1>1, ConsoleInvariance, PTL
=============================================================================
