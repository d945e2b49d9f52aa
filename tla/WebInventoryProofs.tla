-------------------------- MODULE WebInventoryProofs --------------------------
(***************************************************************************)
(* Type correctness and the invariants of the inventory pages and of the   *)
(* traffic page, for every value of the constants.  An inventory page      *)
(* shares no variable with the traffic page: each side has an invariant of *)
(* its own and a lemma per handler; Spec is put together last.             *)
(***************************************************************************)
EXTENDS WebInventory, TrafficProofs

-----------------------------------------------------------------------------
(* The inductive invariant of an inventory page. *)

(* Requests have a slot each, only writes outlive their handler, and the   *)
(* rules page has no copies.                                               *)
CallsOK(p, cs) ==
    /\ cs \subseteq Call
    /\ \A c, d \in cs : c.n = d.n => c = d
    /\ \A c \in cs : c.op \in Reads => c.st # "lost"
    /\ p = "rules" => \A c \in cs : c.op # "copy"

Fetching(cs) == \E c \in cs : c.op = "list"

TableOK ==
    /\ db \subseteq 1..made
    /\ ord \in [Ids -> Orders]
    /\ made \in First[page]..MaxId[page]

ClientOK ==
    /\ rows \in Lists
    /\ loading \in BOOLEAN
    /\ hides \in Ids \cup {NoId}
    /\ form \in [open : BOOLEAN, editing : Ids \cup {NoId}]
    /\ confirm \in [open : BOOLEAN, about : Ids \cup {NoId}, deleting : Ids \cup {NoId}]
    /\ sent \in 0..MaxSends[page]

CrudInv ==
    /\ page \in Pages
    /\ TableOK /\ ClientOK /\ CallsOK(page, calls)
    /\ ConfirmNamesTarget
    /\ loading => Fetching(calls)

(* The MATCH rule is behind every other rule of the table, and the end of  *)
(* every list that has it: the one on screen, those in requests to reorder *)
(* and those in answers.                                                   *)
MatchLast(s) == \A k \in 1..Len(s) : s[k] = MatchRule => k = Len(s)
MatchIsLast == MatchRule \in db => \A i \in db \ {MatchRule} : InOrder(i, MatchRule)
MatchArgs(cs) == \A c \in cs : MatchLast(c.arg)
ListsOK == MatchLast(rows) /\ MatchArgs(calls)
MatchInv == page = "rules" /\ ~disordered => MatchIsLast /\ ListsOK

(* A spinner has its test, the test-all button its tests. *)
TestsInv ==
    /\ \A t \in tests : DOMAIN t = {"key", "batch", "mine"}
    /\ SpinnerMeansTest
    /\ TestingMeansWork

(* An open editor is open for a provider. *)
EditorInv ==
    /\ editor \in [open : BOOLEAN, provider : Ids \cup {NoId}, content : Ids \cup {NoId},
                   loading : BOOLEAN, saving : BOOLEAN]
    /\ files \in [Ids -> Ids \cup {NoId}]
    /\ loads \subseteq Loads
    /\ EditorOpen => editor.provider # NoId

InventoryInv == CrudInv /\ MatchInv /\ TestsInv /\ EditorInv /\ disordered \in BOOLEAN

-----------------------------------------------------------------------------
(* The inductive invariant of the traffic page over its service.           *)

(* What a request asks for, what its answer is, and the flag that waits.   *)
Channels == {"", "ntfy"}
Overviews == [Accounts -> Account \cup {None}]

AskedOK(r) ==
    /\ r.op = "createAccount" => r.arg \in Account
    /\ r.op = "updateAccount" => r.arg.id \in Accounts /\ r.arg.row \in Account
    /\ r.op = "deleteAccount" => r.arg \in Accounts
    /\ r.op = "putChannel" => r.arg \in Channels
AnswerOK(r) ==
    /\ r.op = "load" /\ r.st = "done" => r.ans \in Overviews
    /\ r.st = "deleting" => r.op = "deleteAccount"
FlagOK(r) ==
    /\ r.op = "load" => r.flag \in {None, "traffic.loading"}
    /\ r.op \in {"createAccount", "updateAccount"} => r.flag = "account.saving"
    /\ r.op \in {"deleteAccount", "putChannel"} => r.flag = None
    /\ r.op = "testNotify" => r.flag = "notify.testing"
RequestOK(r) ==
    /\ DOMAIN r = {"op", "arg", "flag", "st", "ans"}
    /\ AskedOK(r) /\ AnswerOK(r) /\ FlagOK(r)

WireOK(k, w) ==
    /\ k \in Nat
    /\ DOMAIN w \subseteq 0..k
    /\ w = [n \in DOMAIN w |-> w[n]]
    /\ \A n \in DOMAIN w : RequestOK(w[n])

(* Every flag that is set has a request that its handler still awaits.     *)
Backed(b, w) == \A f \in b : \E n \in DOMAIN w : w[n].flag = f /\ w[n].st # "lost"

DialogInv == DOMAIN accountDialog = {"open", "editing"} /\ accountDialog.editing \in Accounts \cup {None}

ShownInv ==
    /\ overview \in Overviews /\ DialogInv
    /\ WireOK(clicks, wire)
    /\ None \notin busy /\ Backed(busy, wire)

TrafficPageInv == IInv /\ ShownInv

WebInv ==
    /\ view \in {"inventory", "traffic", "counting"}
    /\ InventoryInv
    /\ TrafficPageInv

-----------------------------------------------------------------------------
(* Ids, places and lists. *)

LEMMA IdsFinite == IsFiniteSet(Ids) /\ Cardinality(Ids) \in Nat
<1>1. \A p \in Pages : IsFiniteSet(1..MaxId[p])
  <2>1. TAKE p \in Pages
  <2>2. MaxId[p] \in Int
    BY CrudAssumption
  <2>3. QED
    BY <2>2, FS_Interval
<1>2. IsFiniteSet((1..MaxId["proxies"]) \cup (1..MaxId["groups"]))
  BY <1>1, FS_Union DEF Pages
<1>3. IsFiniteSet((1..MaxId["rules"]) \cup (1..MaxId["providers"]))
  BY <1>1, FS_Union DEF Pages
<1>4. Ids = ((1..MaxId["proxies"]) \cup (1..MaxId["groups"]))
            \cup ((1..MaxId["rules"]) \cup (1..MaxId["providers"]))
  BY DEF Ids, Pages
<1>5. IsFiniteSet(Ids)
  BY <1>2, <1>3, <1>4, FS_Union
<1>6. QED
  BY <1>5, FS_CardinalityType

LEMMA IdsOfPages ==
    /\ \A p \in Pages : MaxId[p] \in Nat /\ First[p] \in 0..MaxId[p] /\ 1..MaxId[p] \subseteq Ids
    /\ \A i \in Ids : i \in Nat /\ i # NoId
<1>1. \A p \in Pages : MaxId[p] \in Nat /\ First[p] \in 0..MaxId[p]
  BY CrudAssumption
<1>2. \A p \in Pages : 1..MaxId[p] \subseteq Ids
  BY DEF Ids
<1>3. \A i \in Ids : i \in Nat /\ i # NoId
  BY <1>1 DEF Ids, NoId
<1>4. QED
  BY <1>1, <1>2, <1>3

LEMMA OrdersAre == Orders \subseteq Nat /\ 0 \in Orders
  BY IdsFinite DEF Orders

(* A list is a sequence of ids, no longer than there are ids. *)
LEMMA ListFacts ==
    ASSUME NEW s \in Lists
    PROVE  /\ s \in Seq(Ids) /\ Len(s) \in 0..Cardinality(Ids)
           /\ \A k \in 1..Len(s) : s[k] \in Ids
<1>1. PICK n \in 0..Cardinality(Ids) : s \in [1..n -> Ids]
  BY DEF Lists
<1>2. n \in Nat
  BY <1>1, IdsFinite
<1>3. s \in Seq(Ids) /\ Len(s) = n
  BY <1>1, <1>2
<1>4. QED
  BY <1>1, <1>3

LEMMA ListIs ==
    ASSUME NEW n \in 0..Cardinality(Ids), NEW s \in [1..n -> Ids]
    PROVE  s \in Lists /\ Len(s) = n
<1>1. n \in Nat
  BY IdsFinite
<1>2. QED
  BY <1>1 DEF Lists

LEMMA NoList == <<>> \in Lists /\ Len(<<>>) = 0 /\ MatchLast(<<>>)
<1>1. 0 \in 0..Cardinality(Ids)
  BY IdsFinite
<1>2. <<>> \in [1..0 -> Ids]
  OBVIOUS
<1>3. <<>> \in Lists /\ Len(<<>>) = 0
  BY <1>1, <1>2, ListIs
<1>4. QED
  BY <1>3 DEF MatchLast

(* The rows that are there have the places 1, 2, 3 ...: the order is total,*)
(* so no two rows share a place, and there are as many places as rows.     *)
LEMMA Places ==
    ASSUME ord \in [Ids -> Orders], NEW S \in SUBSET Ids
    PROVE  /\ IsFiniteSet(S) /\ Cardinality(S) \in 0..Cardinality(Ids)
           /\ \A i \in S : Place(i, S) \in 1..Cardinality(S)
           /\ \A i, j \in S : InOrder(i, j) => Place(i, S) < Place(j, S)
           /\ \A k \in 1..Cardinality(S) : \E i \in S : Place(i, S) = k
<1>1. DEFINE Before(i) == {j \in S : InOrder(j, i)}
<1>2. IsFiniteSet(S) /\ Cardinality(S) \in 0..Cardinality(Ids) /\ Cardinality(S) \in Nat
  <2>1. IsFiniteSet(S) /\ Cardinality(S) <= Cardinality(Ids)
    BY IdsFinite, FS_Subset
  <2>2. Cardinality(S) \in Nat
    BY <2>1, FS_CardinalityType
  <2>3. QED
    BY <2>1, <2>2, IdsFinite
<1>3. \A T \in SUBSET S : IsFiniteSet(T) /\ Cardinality(T) \in Nat /\ Cardinality(T) <= Cardinality(S)
  BY <1>2, FS_Subset, FS_CardinalityType
<1>4. \A i \in S : i \in Nat /\ ord[i] \in Nat
  BY IdsOfPages, OrdersAre
<1>5. \A i, j \in S : i # j => InOrder(i, j) \/ InOrder(j, i)
  BY <1>4 DEF InOrder
<1>6. \A i \in S : ~InOrder(i, i)
  BY <1>4 DEF InOrder
<1>7. \A i, j, k \in S : InOrder(i, j) /\ InOrder(j, k) => InOrder(i, k)
  BY <1>4 DEF InOrder
<1>8. \A i \in S : /\ Place(i, S) = Cardinality(Before(i)) + 1
                  /\ Cardinality(Before(i)) \in Nat /\ Place(i, S) \in 1..Cardinality(S)
  <2>1. TAKE i \in S
  <2>2. Before(i) \in SUBSET S /\ i \notin Before(i)
    BY <1>6
  <2>3. Cardinality(Before(i) \cup {i}) = Cardinality(Before(i)) + 1
    BY <1>3, <2>2, FS_AddElement
  <2>4. Before(i) \cup {i} \in SUBSET S
    BY <2>2
  <2>5. Place(i, S) = Cardinality(Before(i)) + 1
    BY DEF Place
  <2>6. HIDE DEF Before
  <2>7. Cardinality(Before(i)) \in Nat /\ Cardinality(Before(i)) + 1 <= Cardinality(S)
    BY <1>3, <2>2, <2>3, <2>4
  <2>8. QED
    BY <1>2, <2>5, <2>7
<1>9. \A i, j \in S : InOrder(i, j) => Place(i, S) < Place(j, S)
  <2>1. TAKE i, j \in S
  <2>2. HAVE InOrder(i, j)
  <2>3. Before(i) \cup {i} \in SUBSET Before(j) /\ i \notin Before(i)
    BY <1>6, <1>7, <2>2
  <2>4. Before(i) \in SUBSET S /\ Before(j) \in SUBSET S
    OBVIOUS
  <2>5. HIDE DEF Before
  <2>6. Cardinality(Before(i) \cup {i}) = Cardinality(Before(i)) + 1
    BY <1>3, <2>3, <2>4, FS_AddElement
  <2>7. IsFiniteSet(Before(j)) /\ Cardinality(Before(j)) \in Nat
    BY <1>3, <2>4
  <2>8. Cardinality(Before(i) \cup {i}) <= Cardinality(Before(j))
    BY <2>3, <2>7, FS_Subset
  <2>9. QED
    BY <1>8, <2>6, <2>7, <2>8
<1>10. \A k \in 1..Cardinality(S) : \E i \in S : Place(i, S) = k
  <2>1. DEFINE f == [i \in S |-> Place(i, S)]
               T == 1..Cardinality(S)
  <2>2. f \in [S -> T]
    BY <1>8
  <2>3. \A i, j \in S : f[i] = f[j] => i = j
    <3>1. TAKE i, j \in S
    <3>2. Place(i, S) \in Nat /\ Place(j, S) \in Nat
      <4>1. Place(i, S) \in 1..Cardinality(S) /\ Place(j, S) \in 1..Cardinality(S)
        BY <1>8, <3>1
      <4>2. QED
        BY <1>2, <4>1
    <3>3. i # j => Place(i, S) < Place(j, S) \/ Place(j, S) < Place(i, S)
      BY <1>5, <1>9
    <3>4. QED
      BY <3>2, <3>3
  <2>4. f \in Injection(S, T)
    BY <2>2, <2>3 DEF Injection, IsInjective
  <2>5. IsFiniteSet(T) /\ Cardinality(T) = Cardinality(S)
    BY <1>2, FS_Interval
  <2>6. HIDE DEF T
  <2>7. f \in Surjection(S, T)
    BY <2>4, <2>5, FS_Injection
  <2>8. \A k \in T : \E i \in S : f[i] = k
    BY <2>7 DEF Surjection
  <2>9. QED
    BY <2>8 DEF T
<1>11. QED
  BY <1>2, <1>8, <1>9, <1>10

(* What a list request is answered: rows, in their places. *)
LEMMA ListedInPlaces ==
    ASSUME ord \in [Ids -> Orders], NEW S \in SUBSET Ids
    PROVE  /\ InPlaces(S) \in Lists /\ Len(InPlaces(S)) = Cardinality(S)
           /\ \A k \in 1..Cardinality(S) : InPlaces(S)[k] \in S /\ Place(InPlaces(S)[k], S) = k
<1>1. DEFINE At(k) == CHOOSE i \in S : Place(i, S) = k
<1>2. \A k \in 1..Cardinality(S) : At(k) \in S /\ Place(At(k), S) = k
  BY Places
<1>3. InPlaces(S) = [k \in 1..Cardinality(S) |-> At(k)]
  BY DEF InPlaces
<1>4. HIDE DEF At
<1>5. InPlaces(S) \in [1..Cardinality(S) -> Ids]
  BY <1>2, <1>3
<1>6. Cardinality(S) \in 0..Cardinality(Ids)
  BY Places
<1>7. InPlaces(S) \in Lists /\ Len(InPlaces(S)) = Cardinality(S)
  BY <1>5, <1>6, ListIs
<1>8. \A k \in 1..Cardinality(S) : InPlaces(S)[k] = At(k)
  BY <1>3
<1>9. QED
  BY <1>2, <1>7, <1>8

(* With MATCH behind every other row, it is last in what is listed. *)
LEMMA MatchListedLast ==
    ASSUME ord \in [Ids -> Orders], NEW S \in SUBSET Ids,
           MatchRule \in S => \A i \in S \ {MatchRule} : InOrder(i, MatchRule)
    PROVE  /\ MatchLast(InPlaces(S))
           /\ MatchRule \in S => Last(InPlaces(S)) = MatchRule
<1>1. DEFINE n == Cardinality(S)
             s == InPlaces(S)
<1>2. /\ Len(s) = n /\ n \in Nat
      /\ \A k \in 1..n : s[k] \in S /\ Place(s[k], S) = k
  BY ListedInPlaces, Places, IdsFinite
<1>3. ASSUME MatchRule \in S
      PROVE  n \in 1..n /\ s[n] = MatchRule
  <2>1. Place(MatchRule, S) \in 1..n
    BY <1>3, Places
  <2>2. n \in 1..n
    BY <1>2, <2>1
  <2>3. s[n] \in S /\ Place(s[n], S) = n
    BY <1>2, <2>2
  <2>4. ~InOrder(s[n], MatchRule)
    <3>1. InOrder(s[n], MatchRule) => n < Place(MatchRule, S)
      BY <1>3, <2>3, Places
    <3>2. QED
      BY <1>2, <2>1, <3>1
  <2>5. QED
    BY <1>3, <2>2, <2>3, <2>4
<1>4. MatchLast(s)
  <2>1. SUFFICES ASSUME NEW k \in 1..n, s[k] = MatchRule PROVE k = n
    BY <1>2 DEF MatchLast
  <2>2. MatchRule \in S /\ Place(MatchRule, S) = k
    BY <1>2, <2>1
  <2>3. Place(MatchRule, S) = n
    BY <1>2, <1>3, <2>2
  <2>4. QED
    BY <2>2, <2>3
<1>5. QED
  BY <1>2, <1>3, <1>4 DEF Last

(* Reordering gives places of the list and changes nobody else's. *)
LEMMA ReorderTyped ==
    ASSUME ord \in [Ids -> Orders], NEW s \in Lists
    PROVE  /\ Reordered(s) \in [Ids -> Orders]
           /\ \A i \in IdsOf(s) : \E k \in 1..Len(s) : s[k] = i /\ Reordered(s)[i] = k - 1
<1>1. s \in Seq(Ids) /\ Len(s) \in 0..Cardinality(Ids) /\ \A k \in 1..Len(s) : s[k] \in Ids
  BY ListFacts
<1>2. DEFINE at(i) == CHOOSE k \in 1..Len(s) : s[k] = i
<1>3. \A i \in IdsOf(s) : at(i) \in 1..Len(s) /\ s[at(i)] = i /\ i \in Ids
  BY <1>1 DEF IdsOf
<1>4. Reordered(s) = [i \in Ids |-> IF i \in IdsOf(s) THEN at(i) - 1 ELSE ord[i]]
  BY DEF Reordered
<1>5. HIDE DEF at
<1>6. \A i \in IdsOf(s) : at(i) - 1 \in Orders
  <2>1. TAKE i \in IdsOf(s)
  <2>2. at(i) \in 1..Len(s) /\ Len(s) \in 0..Cardinality(Ids) /\ Cardinality(Ids) \in Nat
    BY <1>1, <1>3, IdsFinite
  <2>3. QED
    BY <2>2 DEF Orders
<1>7. Reordered(s) \in [Ids -> Orders]
  BY <1>4, <1>6
<1>8. \A i \in IdsOf(s) : at(i) \in 1..Len(s) /\ s[at(i)] = i /\ Reordered(s)[i] = at(i) - 1
  BY <1>3, <1>4
<1>9. QED
  BY <1>7, <1>8

(* A list of all rows that ends with MATCH puts MATCH behind them. *)
LEMMA ReorderKeepsMatch ==
    ASSUME ord \in [Ids -> Orders], NEW s \in Lists, MatchLast(s), db \subseteq IdsOf(s),
           MatchRule \in db, NEW i \in db, i # MatchRule
    PROVE  Reordered(s)[i] < Reordered(s)[MatchRule]
<1>1. PICK k \in 1..Len(s) : s[k] = i /\ Reordered(s)[i] = k - 1
  BY ReorderTyped
<1>2. PICK m \in 1..Len(s) : s[m] = MatchRule /\ Reordered(s)[MatchRule] = m - 1
  BY ReorderTyped
<1>3. m = Len(s) /\ k # m
  BY <1>1, <1>2 DEF MatchLast
<1>4. Len(s) \in Nat
  BY ListFacts, IdsFinite
<1>5. QED
  BY <1>1, <1>2, <1>3, <1>4

LEMMA SubSeqOf ==
    ASSUME NEW s \in Seq(Ids), NEW a \in 1..(Len(s) + 1), NEW b \in (a - 1)..Len(s)
    PROVE  /\ SubSeq(s, a, b) \in Seq(Ids) /\ Len(SubSeq(s, a, b)) = b - a + 1
           /\ \A k \in 1..(b - a + 1) : SubSeq(s, a, b)[k] = s[k + a - 1]
<1>1. Len(s) \in Nat /\ a \in Nat /\ b \in Int /\ a >= 1 /\ b - a + 1 \in Nat /\ b <= Len(s)
  OBVIOUS
<1>2. \A k \in 1..(b - a + 1) : k + a - 1 \in 1..Len(s) /\ s[k + a - 1] \in Ids
  BY <1>1
<1>3. QED
  BY <1>1, <1>2

LEMMA Joined ==
    ASSUME NEW a \in Seq(Ids), NEW b \in Seq(Ids)
    PROVE  /\ a \o b \in Seq(Ids) /\ Len(a \o b) = Len(a) + Len(b)
           /\ \A k \in 1..Len(a) : (a \o b)[k] = a[k]
           /\ \A k \in (Len(a) + 1)..(Len(a) + Len(b)) : (a \o b)[k] = b[k - Len(a)]
  OBVIOUS

(* Moving a row keeps the list's ids and length; MATCH stays at the end    *)
(* when neither the row that moves nor the one it is dropped on is MATCH.  *)
LEMMA ArrayMoved ==
    ASSUME NEW s \in Lists, NEW i \in 1..Len(s), NEW j \in 1..Len(s)
    PROVE  /\ ArrayMove(s, i, j) \in Lists
           /\ s[i] # MatchRule /\ s[j] # MatchRule /\ MatchLast(s) => MatchLast(ArrayMove(s, i, j))
<1>1. DEFINE n == Len(s)
             t == RemoveAt(s, i)
             u == ArrayMove(s, i, j)
<1>2. s \in Seq(Ids) /\ n \in 0..Cardinality(Ids) /\ n \in Nat /\ i \in 1..n /\ j \in 1..n
  BY ListFacts, IdsFinite
<1>3. \A k \in 1..n : s[k] \in Ids
  BY ListFacts
<1>4. /\ t \in Seq(Ids) /\ Len(t) = n - 1
      /\ \A k \in 1..(n - 1) : t[k] = IF k < i THEN s[k] ELSE s[k + 1]
  <2>1. i - 1 \in 0..n /\ i + 1 \in 1..(n + 1)
    BY <1>2
  <2>2. t = SubSeq(s, 1, i - 1) \o SubSeq(s, i + 1, n)
    BY DEF RemoveAt
  <2>3. DEFINE a == SubSeq(s, 1, i - 1)
               b == SubSeq(s, i + 1, n)
  <2>4. a \in Seq(Ids) /\ Len(a) = i - 1 /\ \A k \in 1..(i - 1) : a[k] = s[k]
    <3>1. /\ a \in Seq(Ids) /\ Len(a) = (i - 1) - 1 + 1
          /\ \A k \in 1..((i - 1) - 1 + 1) : a[k] = s[k + 1 - 1]
      BY <1>2, <2>1, SubSeqOf
    <3>2. HIDE DEF a
    <3>3. QED
      BY <1>2, <3>1
  <2>5. b \in Seq(Ids) /\ Len(b) = n - i /\ \A k \in 1..(n - i) : b[k] = s[k + i]
    <3>1. /\ b \in Seq(Ids) /\ Len(b) = n - (i + 1) + 1
          /\ \A k \in 1..(n - (i + 1) + 1) : b[k] = s[k + (i + 1) - 1]
      BY <1>2, <2>1, SubSeqOf
    <3>2. HIDE DEF b
    <3>3. n - (i + 1) + 1 = n - i /\ \A k \in 1..(n - i) : k + (i + 1) - 1 = k + i
      BY <1>2
    <3>4. QED
      BY <3>1, <3>3
  <2>6. t = a \o b
    BY <2>2
  <2>7. HIDE DEF a, b, t
  <2>8. i - 1 \in Nat /\ n - i \in Nat /\ (i - 1) + (n - i) = n - 1 /\ (i - 1) + 1 = i
    BY <1>2
  <2>9. /\ t \in Seq(Ids) /\ Len(t) = n - 1
        /\ \A k \in 1..(i - 1) : t[k] = a[k]
        /\ \A k \in i..(n - 1) : t[k] = b[k - (i - 1)]
    <3>1. /\ a \o b \in Seq(Ids) /\ Len(a \o b) = (i - 1) + (n - i)
          /\ \A k \in 1..(i - 1) : (a \o b)[k] = a[k]
          /\ \A k \in ((i - 1) + 1)..((i - 1) + (n - i)) : (a \o b)[k] = b[k - (i - 1)]
      <4>1. /\ a \o b \in Seq(Ids) /\ Len(a \o b) = Len(a) + Len(b)
            /\ \A k \in 1..Len(a) : (a \o b)[k] = a[k]
            /\ \A k \in (Len(a) + 1)..(Len(a) + Len(b)) : (a \o b)[k] = b[k - Len(a)]
        BY <2>4, <2>5, Joined
      <4>2. QED
        BY <2>4, <2>5, <4>1, Zenon
    <3>2. QED
      BY <2>6, <2>8, <3>1
  <2>10. \A k \in 1..(n - 1) : k < i => t[k] = s[k]
    BY <1>2, <2>4, <2>9
  <2>11. \A k \in 1..(n - 1) : ~(k < i) => t[k] = s[k + 1]
    <3>1. TAKE k \in 1..(n - 1)
    <3>2. HAVE ~(k < i)
    <3>3. k \in i..(n - 1) /\ k - (i - 1) \in 1..(n - i) /\ k - (i - 1) + i = k + 1
      BY <1>2, <3>2
    <3>4. QED
      BY <2>5, <2>9, <3>3
  <2>12. QED
    BY <2>9, <2>10, <2>11
<1>5. u = SubSeq(t, 1, j - 1) \o <<s[i]>> \o SubSeq(t, j, Len(t))
  BY DEF ArrayMove, InsertAt
<1>6. HIDE DEF t, u
<1>7. /\ u \in Seq(Ids) /\ Len(u) = n
      /\ \A k \in 1..n : u[k] = IF k < j THEN t[k] ELSE IF k = j THEN s[i] ELSE t[k - 1]
  <2>1. s[i] \in Ids /\ j \in 1..n /\ n - 1 \in Nat
    BY <1>2, <1>3
  <2>2. DEFINE a == SubSeq(t, 1, j - 1)
               b == SubSeq(t, j, n - 1)
               c == a \o <<s[i]>>
  <2>3. /\ a \in Seq(Ids) /\ Len(a) = j - 1 /\ \A k \in 1..(j - 1) : a[k] = t[k]
        /\ b \in Seq(Ids) /\ Len(b) = n - j /\ \A k \in 1..(n - j) : b[k] = t[k + j - 1]
    BY <1>2, <1>4, SubSeqOf
  <2>4. u = c \o b
    BY <1>4, <1>5
  <2>5. HIDE DEF a, b
  <2>6. c \in Seq(Ids) /\ Len(c) = j /\ \A k \in 1..j : c[k] = IF k < j THEN a[k] ELSE s[i]
    BY <1>2, <2>1, <2>3
  <2>7. HIDE DEF c
  <2>8. u \in Seq(Ids) /\ Len(u) = n /\ \A k \in 1..n : u[k] = IF k <= j THEN c[k] ELSE b[k - j]
    <3>1. j \in Nat /\ n - j \in Nat /\ j + (n - j) = n
      BY <1>2
    <3>2. /\ u \in Seq(Ids) /\ Len(u) = n
          /\ \A k \in 1..j : u[k] = c[k]
          /\ \A k \in (j + 1)..n : u[k] = b[k - j]
      <4>1. /\ c \o b \in Seq(Ids) /\ Len(c \o b) = j + (n - j)
            /\ \A k \in 1..j : (c \o b)[k] = c[k]
            /\ \A k \in (j + 1)..(j + (n - j)) : (c \o b)[k] = b[k - j]
        <5>1. /\ c \o b \in Seq(Ids) /\ Len(c \o b) = Len(c) + Len(b)
              /\ \A k \in 1..Len(c) : (c \o b)[k] = c[k]
              /\ \A k \in (Len(c) + 1)..(Len(c) + Len(b)) : (c \o b)[k] = b[k - Len(c)]
          BY <2>3, <2>6, Joined
        <5>2. QED
          BY <2>3, <2>6, <5>1, Zenon
      <4>2. QED
        BY <2>4, <3>1, <4>1
    <3>3. QED
      BY <1>2, <3>2
  <2>9. SUFFICES ASSUME NEW k \in 1..n
                 PROVE  u[k] = IF k < j THEN t[k] ELSE IF k = j THEN s[i] ELSE t[k - 1]
    BY <2>8
  <2>10. CASE k < j
    <3>1. k \in 1..j /\ k \in 1..(j - 1) /\ k <= j
      BY <1>2, <2>10
    <3>2. u[k] = c[k] /\ c[k] = a[k] /\ a[k] = t[k]
      BY <2>3, <2>6, <2>8, <2>10, <3>1
    <3>3. QED
      BY <2>10, <3>2
  <2>11. CASE k = j
    <3>1. k \in 1..j /\ k <= j /\ ~(k < j)
      BY <1>2, <2>11
    <3>2. u[k] = c[k] /\ c[k] = s[i]
      BY <2>6, <2>8, <3>1
    <3>3. QED
      BY <2>11, <3>1, <3>2
  <2>12. CASE k > j
    <3>1. k - j \in 1..(n - j) /\ ~(k <= j) /\ ~(k < j) /\ k # j /\ k - j + j - 1 = k - 1
      BY <1>2, <2>12
    <3>2. u[k] = b[k - j] /\ b[k - j] = t[k - j + j - 1]
      BY <2>3, <2>8, <3>1
    <3>3. QED
      BY <3>1, <3>2
  <2>13. QED
    BY <1>2, <2>10, <2>11, <2>12
<1>8. u \in Lists
  <2>1. u \in [1..n -> Ids]
    BY <1>7
  <2>2. QED
    BY <1>2, <2>1, ListIs
<1>9. \A k \in 1..n : \E m \in 1..n : u[k] = s[m] /\ (m = n => k = n \/ m = i \/ m = j)
  <2>1. TAKE k \in 1..n
  <2>2. CASE k < j
    <3>1. k \in 1..(n - 1) /\ u[k] = t[k]
      BY <1>2, <1>7, <2>2
    <3>2. CASE k < i
      BY <1>2, <1>4, <2>2, <3>1, <3>2
    <3>3. CASE ~(k < i)
      <4>1. k + 1 \in 1..n /\ u[k] = s[k + 1]
        BY <1>2, <1>4, <3>1, <3>3
      <4>2. k + 1 = n => k + 1 = j
        BY <1>2, <2>2
      <4>3. QED
        BY <4>1, <4>2
    <3>4. QED
      BY <3>2, <3>3
  <2>3. CASE k = j
    <3>1. u[k] = s[i] /\ i \in 1..n
      BY <1>2, <1>7, <2>3
    <3>2. QED
      BY <3>1
  <2>4. CASE k > j
    <3>1. k - 1 \in 1..(n - 1) /\ u[k] = t[k - 1] /\ (k - 1) + 1 = k
      BY <1>2, <1>7, <2>4
    <3>2. CASE k - 1 < i
      <4>1. k - 1 \in 1..n /\ u[k] = s[k - 1] /\ k - 1 # n
        BY <1>2, <1>4, <3>1, <3>2
      <4>2. QED
        BY <4>1
    <3>3. CASE ~(k - 1 < i)
      <4>1. u[k] = s[k]
        BY <1>4, <3>1, <3>3
      <4>2. QED
        BY <4>1
    <3>4. QED
      BY <3>2, <3>3
  <2>5. QED
    BY <1>2, <2>2, <2>3, <2>4
<1>10. s[i] # MatchRule /\ s[j] # MatchRule /\ MatchLast(s) => MatchLast(u)
  <2>1. SUFFICES ASSUME s[i] # MatchRule, s[j] # MatchRule, MatchLast(s),
                        NEW k \in 1..n, u[k] = MatchRule
                 PROVE  k = n
    BY <1>7 DEF MatchLast
  <2>2. PICK m \in 1..n : u[k] = s[m] /\ (m = n => k = n \/ m = i \/ m = j)
    BY <1>9
  <2>3. m = n
    BY <2>1, <2>2 DEF MatchLast
  <2>4. QED
    BY <2>1, <2>2, <2>3
<1>11. QED
  BY <1>8, <1>10 DEF u

-----------------------------------------------------------------------------
(* The requests in flight. *)

LEMMA NewCallIs ==
    ASSUME page \in Pages, NEW n \in 1..MaxCalls[page], NEW op \in Ops,
           NEW id \in Ids \cup {NoId}, NEW hide \in Ids \cup {NoId}, NEW arg \in Lists
    PROVE  LET d == NewCall(n, op, id, hide, arg) IN
           d \in Call /\ d.n = n /\ d.op = op /\ d.arg = arg /\ d.st = "sent"
<1>1. n \in UNION {1..MaxCalls[p] : p \in Pages}
  OBVIOUS
<1>2. QED
  BY <1>1 DEF NewCall, Call

(* A request is replaced in its slot, or removed. *)
LEMMA Replaced ==
    ASSUME CallsOK(page, calls), NEW c \in calls, NEW D \in SUBSET Call,
           \A d, e \in D : d = e,
           \A d \in D : d.n = c.n /\ (d.op \in Reads => d.st # "lost") /\ (page = "rules" => d.op # "copy")
    PROVE  CallsOK(page, (calls \ {c}) \cup D)
<1>1. /\ calls \subseteq Call /\ \A d, e \in calls : d.n = e.n => d = e
      /\ \A d \in calls : d.op \in Reads => d.st # "lost"
      /\ page = "rules" => \A d \in calls : d.op # "copy"
  BY DEF CallsOK
<1>2. DEFINE cs == (calls \ {c}) \cup D
<1>3. \A d, e \in cs : d.n = e.n => d = e
  BY <1>1
<1>4. QED
  BY <1>1, <1>3 DEF CallsOK

LEMMA CallFields ==
    ASSUME NEW c \in Call
    PROVE  /\ c.n \in UNION {1..MaxCalls[p] : p \in Pages} /\ c.op \in Ops /\ c.id \in Ids \cup {NoId}
           /\ c.hide \in Ids \cup {NoId} /\ c.arg \in Lists /\ c.ok \in BOOLEAN /\ c.mine \in BOOLEAN
BY DEF Call

LEMMA OverCalls ==
    ASSUME CallsOK(page, calls), NEW c \in calls
    PROVE  /\ CallsOK(page, Over(c))
           /\ MatchArgs(calls) => MatchArgs(Over(c))
           /\ Fetching(calls) /\ c.op # "list" => Fetching(Over(c))
           /\ \A e \in Over(c) : \E d \in calls : d.n = e.n
<1>1. DEFINE l == [c EXCEPT !.st = "lost"]
             D == IF c.st = "sent" /\ c.op \notin Reads THEN {l} ELSE {}
<1>2. c \in Call /\ (page = "rules" => c.op # "copy")
  BY DEF CallsOK
<1>3. l \in Call /\ l.n = c.n /\ l.op = c.op /\ l.arg = c.arg
  BY <1>2 DEF Call
<1>4. Over(c) = (calls \ {c}) \cup D
  BY DEF Over
<1>5. \A d \in D : d = l /\ c.op \notin Reads
  OBVIOUS
<1>6. D \subseteq {l}
  OBVIOUS
<1>7. HIDE DEF l, D
<1>8. CallsOK(page, (calls \ {c}) \cup D)
  BY <1>2, <1>3, <1>5, <1>6, Replaced
<1>9. MatchArgs(calls) => MatchArgs((calls \ {c}) \cup D)
  BY <1>3, <1>5 DEF MatchArgs
<1>10. Fetching(calls) /\ c.op # "list" => Fetching((calls \ {c}) \cup D)
  BY DEF Fetching
<1>11. \A e \in (calls \ {c}) \cup D : \E d \in calls : d.n = e.n
  BY <1>3, <1>5
<1>12. QED
  BY <1>4, <1>8, <1>9, <1>10, <1>11

LEMMA FetchCalls ==
    ASSUME CallsOK(page, calls), NEW c \in calls
    PROVE  /\ CallsOK(page, OverAndFetch(c)) /\ Fetching(OverAndFetch(c))
           /\ MatchArgs(calls) => MatchArgs(OverAndFetch(c))
<1>1. DEFINE d == NewCall(c.n, "list", NoId, c.hide, <<>>)
<1>2. c \in Call /\ c.hide \in Ids \cup {NoId}
  BY CallFields DEF CallsOK
<1>3. d \in Call /\ d.n = c.n /\ d.op = "list" /\ d.arg = <<>> /\ d.st = "sent"
  BY <1>2, CallFields, NoList DEF NewCall, Call, Ops
<1>4. OverAndFetch(c) = (calls \ {c}) \cup {d}
  BY DEF OverAndFetch
<1>5. HIDE DEF d
<1>6. CallsOK(page, (calls \ {c}) \cup {d})
  BY <1>3, Replaced
<1>7. Fetching((calls \ {c}) \cup {d})
  BY <1>3 DEF Fetching
<1>8. MatchArgs(calls) => MatchArgs((calls \ {c}) \cup {d})
  BY <1>3, NoList DEF MatchArgs
<1>9. QED
  BY <1>4, <1>6, <1>7, <1>8

LEMMA AddedCall ==
    ASSUME NEW cs, CallsOK(page, cs), NEW d \in Call, d.st = "sent", page = "rules" => d.op # "copy",
           \A c \in cs : c.n # d.n
    PROVE  CallsOK(page, cs \cup {d})
<1>1. /\ cs \subseteq Call /\ \A e, f \in cs : e.n = f.n => e = f
      /\ \A e \in cs : e.op \in Reads => e.st # "lost"
      /\ page = "rules" => \A e \in cs : e.op # "copy"
  BY DEF CallsOK
<1>2. \A e, f \in cs \cup {d} : e.n = f.n => e = f
  BY <1>1
<1>3. QED
  BY <1>1, <1>2 DEF CallsOK

LEMMA AskedCalls ==
    ASSUME page \in Pages, CallsOK(page, calls), NEW op \in Ops, page = "rules" => op # "copy",
           NEW id \in Ids \cup {NoId}, NEW hide \in Ids \cup {NoId}, NEW arg \in Lists,
           NEW cs \in Asked(op, id, hide, arg)
    PROVE  /\ CallsOK(page, cs)
           /\ Fetching(calls) \/ op = "list" => Fetching(cs)
           /\ MatchArgs(calls) /\ MatchLast(arg) => MatchArgs(cs)
<1>1. PICK n \in FreeSlots : cs = calls \cup {NewCall(n, op, id, hide, arg)}
  BY DEF Asked
<1>2. n \in 1..MaxCalls[page] /\ \A c \in calls : c.n # n
  BY DEF FreeSlots
<1>3. DEFINE d == NewCall(n, op, id, hide, arg)
<1>4. d \in Call /\ d.n = n /\ d.op = op /\ d.arg = arg /\ d.st = "sent"
  BY <1>2, NewCallIs
<1>5. cs = calls \cup {d}
  BY <1>1
<1>6. HIDE DEF d
<1>7. CallsOK(page, cs)
  BY <1>2, <1>4, <1>5, AddedCall
<1>8. QED
  BY <1>4, <1>5, <1>7 DEF Fetching, MatchArgs

LEMMA OrphanCalls ==
    ASSUME NEW cs, CallsOK(page, cs)
    PROVE  /\ CallsOK(page, Orphaned(cs))
           /\ Fetching(cs) => Fetching(Orphaned(cs))
           /\ MatchArgs(cs) => MatchArgs(Orphaned(cs))
<1>1. DEFINE o(c) == [c EXCEPT !.mine = @ /\ c.op # "delete"]
<1>2. /\ cs \subseteq Call /\ \A e, f \in cs : e.n = f.n => e = f
      /\ \A e \in cs : e.op \in Reads => e.st # "lost"
      /\ page = "rules" => \A e \in cs : e.op # "copy"
  BY DEF CallsOK
<1>3. \A c \in cs : o(c) \in Call /\ o(c).n = c.n /\ o(c).op = c.op /\ o(c).st = c.st /\ o(c).arg = c.arg
  BY <1>2 DEF Call
<1>4. Orphaned(cs) = {o(c) : c \in cs}
  BY DEF Orphaned
<1>5. HIDE DEF o
<1>6. \A e \in Orphaned(cs) : \E c \in cs : e = o(c)
  BY <1>4
<1>7. Orphaned(cs) \subseteq Call
  BY <1>3, <1>6
<1>8. \A e, f \in Orphaned(cs) : e.n = f.n => e = f
  <2>1. TAKE e, f \in Orphaned(cs)
  <2>2. PICK a \in cs : e = o(a)
    BY <1>6
  <2>3. PICK b \in cs : f = o(b)
    BY <1>6
  <2>4. QED
    BY <1>2, <1>3, <2>2, <2>3
<1>9. /\ \A e \in Orphaned(cs) : e.op \in Reads => e.st # "lost"
      /\ page = "rules" => \A e \in Orphaned(cs) : e.op # "copy"
  BY <1>2, <1>3, <1>6
<1>10. Fetching(cs) => Fetching(Orphaned(cs))
  BY <1>3, <1>4 DEF Fetching
<1>11. MatchArgs(cs) => MatchArgs(Orphaned(cs))
  BY <1>3, <1>6 DEF MatchArgs
<1>12. QED
  BY <1>7, <1>8, <1>9, <1>10, <1>11 DEF CallsOK

LEMMA ExecutedCalls ==
    ASSUME CallsOK(page, calls), NEW c \in calls, c.st # "done", NEW ok \in BOOLEAN, NEW snap \in Lists,
           Executed(c, ok, snap)
    PROVE  /\ CallsOK(page, calls')
           /\ Fetching(calls) => Fetching(calls')
           /\ MatchArgs(calls) /\ MatchLast(snap) => MatchArgs(calls')
           /\ calls \ calls' = {c}
<1>1. DEFINE d == [c EXCEPT !.st = "done", !.ok = ok, !.arg = snap]
             D == IF c.st = "lost" THEN {} ELSE {d}
<1>2. /\ c \in Call /\ (page = "rules" => c.op # "copy") /\ (c.op \in Reads => c.st # "lost")
      /\ \A e, f \in calls : e.n = f.n => e = f
  BY DEF CallsOK
<1>3. d \in Call /\ d.n = c.n /\ d.op = c.op /\ d.arg = snap /\ d.st = "done"
  BY <1>2 DEF Call
<1>4. calls' = (calls \ {c}) \cup D
  BY DEF Executed
<1>5. D \subseteq {d} /\ (c.st # "lost" => d \in D)
  OBVIOUS
<1>6. HIDE DEF d, D
<1>7. CallsOK(page, (calls \ {c}) \cup D)
  BY <1>2, <1>3, <1>5, Replaced
<1>8. Fetching(calls) => Fetching((calls \ {c}) \cup D)
  <2>1. c.op = "list" => d \in D
    BY <1>2, <1>5 DEF Reads
  <2>2. QED
    BY <1>3, <2>1 DEF Fetching
<1>9. MatchArgs(calls) /\ MatchLast(snap) => MatchArgs((calls \ {c}) \cup D)
  BY <1>3, <1>5 DEF MatchArgs
<1>10. calls \ ((calls \ {c}) \cup D) = {c}
  BY <1>3, <1>5
<1>11. QED
  BY <1>4, <1>7, <1>8, <1>9, <1>10

-----------------------------------------------------------------------------
(* The server. *)

LEMMA RowsAreIds ==
    ASSUME CrudInv
    PROVE  db \subseteq Ids /\ ord \in [Ids -> Orders]
<1>1. page \in Pages /\ db \subseteq 1..made /\ ord \in [Ids -> Orders] /\ made \in First[page]..MaxId[page]
  BY DEF CrudInv, TableOK
<1>2. MaxId[page] \in Nat /\ First[page] \in 0..MaxId[page] /\ 1..MaxId[page] \subseteq Ids
  BY <1>1, IdsOfPages
<1>3. 1..made \subseteq 1..MaxId[page]
  BY <1>1, <1>2
<1>4. QED
  BY <1>1, <1>2, <1>3

LEMMA InsertKeepsTable ==
    ASSUME CrudInv, NEW c, NEW o \in Orders, Insert(c, o), page' = page
    PROVE  TableOK' /\ Executed(c, TRUE, <<>>)
<1>1. page \in Pages /\ db \subseteq 1..made /\ ord \in [Ids -> Orders] /\ made \in First[page]..MaxId[page]
  BY DEF CrudInv, TableOK
<1>2. MaxId[page] \in Nat /\ First[page] \in 0..MaxId[page] /\ 1..MaxId[page] \subseteq Ids
  BY <1>1, IdsOfPages
<1>3. /\ made < MaxId[page] /\ made' = made + 1 /\ db' = db \cup {made'}
      /\ ord' = [ord EXCEPT ![made'] = o] /\ Executed(c, TRUE, <<>>)
  BY DEF Insert
<1>4. made' \in First[page]..MaxId[page] /\ 1..made \subseteq 1..made' /\ made' \in 1..made'
  BY <1>1, <1>2, <1>3
<1>5. db' \subseteq 1..made'
  BY <1>1, <1>3, <1>4
<1>6. ord' \in [Ids -> Orders]
  BY <1>1, <1>3
<1>7. QED
  BY <1>3, <1>4, <1>5, <1>6 DEF TableOK

LEMMA ServerKeeps ==
    ASSUME CrudInv, MatchInv, disordered \in BOOLEAN, Serve,
           disordered' = (disordered \/ \E c \in calls \ calls' : Disorders(c))
    PROVE  CrudInv' /\ MatchInv'
<1>1. /\ page \in Pages /\ TableOK /\ ClientOK /\ CallsOK(page, calls)
      /\ db \subseteq Ids /\ ord \in [Ids -> Orders]
  BY RowsAreIds DEF CrudInv
<1>2. UNCHANGED <<page, sent, rows, loading, hides, form, confirm>>
  BY DEF Serve
<1>3. <<>> \in Lists /\ MatchLast(<<>>)
  BY NoList
<1>4. PICK c \in calls : \/ ServeList(c) \/ ServeUpdate(c) \/ ServeCreate(c) \/ ServeCopy(c)
                         \/ ServeDelete(c) \/ ServeRefs(c) \/ ServeReorder(c)
  BY DEF Serve
<1>5. c \in Call /\ (page = "rules" => c.op # "copy") /\ c.st # "done"
  BY <1>1, <1>4 DEF CallsOK, Pending, ServeList, ServeUpdate, ServeCreate, ServeCopy, ServeDelete,
                    ServeRefs, ServeReorder
<1>6. c.id \in Ids \cup {NoId} /\ c.arg \in Lists
  BY <1>5, CallFields
<1>7. DEFINE Calm == page = "rules" /\ ~disordered
             CallsStep == /\ CallsOK(page, calls') /\ (Fetching(calls) => Fetching(calls'))
                          /\ (Calm => MatchArgs(calls'))
             OrderStep == Calm /\ ~(\E d \in calls \ calls' : Disorders(d)) => MatchIsLast'
<1>8. Calm => MatchIsLast /\ MatchLast(rows) /\ MatchArgs(calls)
  BY DEF MatchInv, ListsOK
<1>9. SUFFICES CallsStep /\ TableOK' /\ OrderStep
  <2>1. ClientOK' /\ ConfirmNamesTarget'
    BY <1>1, <1>2 DEF ClientOK, CrudInv, ConfirmNamesTarget
  <2>2. loading' => Fetching(calls')
    BY <1>2, <1>9 DEF CrudInv
  <2>3. CrudInv'
    BY <1>1, <1>2, <1>9, <2>1, <2>2 DEF CrudInv
  <2>4. MatchInv'
    BY <1>2, <1>8, <1>9 DEF MatchInv, ListsOK
  <2>5. QED
    BY <2>3, <2>4
<1>10. ASSUME NEW ok \in BOOLEAN, NEW snap \in Lists, Calm => MatchLast(snap), Executed(c, ok, snap)
       PROVE  CallsStep /\ calls \ calls' = {c}
  BY <1>1, <1>5, <1>8, <1>10, ExecutedCalls
<1>11. UNCHANGED serverVars => TableOK' /\ OrderStep
  BY <1>1, <1>2, <1>8 DEF TableOK, serverVars, MatchIsLast, InOrder
<1>12. CASE ServeList(c)
  <2>1. db \ {c.hide} \in SUBSET Ids
    BY <1>1
  <2>2. Visible(c) \in Lists
    <3>1. db \in SUBSET Ids /\ InPlaces(db) \in Lists
      BY <1>1, ListedInPlaces
    <3>2. InPlaces(db \ {c.hide}) \in Lists
      BY <1>1, <2>1, ListedInPlaces
    <3>3. QED
      BY <3>1, <3>2, Zenon DEF Visible, Listed
  <2>3. Calm => MatchLast(Visible(c))
    <3>1. SUFFICES ASSUME Calm PROVE MatchLast(InPlaces(db \ {c.hide}))
      BY DEF Visible
    <3>2. MatchRule \in db \ {c.hide} => \A i \in (db \ {c.hide}) \ {MatchRule} : InOrder(i, MatchRule)
      BY <1>8, <3>1 DEF MatchIsLast
    <3>3. HIDE DEF Calm
    <3>4. QED
      BY <1>1, <2>1, <3>2, MatchListedLast
  <2>4. Executed(c, TRUE, Visible(c)) /\ UNCHANGED serverVars
    BY <1>12 DEF ServeList
  <2>5. QED
    BY <1>10, <1>11, <2>2, <2>3, <2>4
<1>13. CASE ServeUpdate(c)
  <2>1. /\ c.op = "save" /\ c.id \in Ids /\ Executed(c, TRUE, <<>>) /\ UNCHANGED <<db, made>>
        /\ ord' = [ord EXCEPT ![c.id] = IF c.id \in db THEN 0 ELSE @]
    BY <1>6, <1>13 DEF ServeUpdate, Pending
  <2>2. CallsStep /\ calls \ calls' = {c}
    BY <1>3, <1>10, <2>1
  <2>3. Disorders(c)
    BY <2>1 DEF Disorders
  <2>4. ord' \in [Ids -> Orders]
    BY <1>1, <2>1, OrdersAre
  <2>5. TableOK'
    BY <1>1, <1>2, <2>1, <2>4 DEF TableOK
  <2>6. QED
    BY <2>2, <2>3, <2>5
<1>14. CASE ServeCreate(c)
  <2>1. c.op = "save" /\ Insert(c, 0)
    BY <1>14 DEF ServeCreate, Pending
  <2>2. TableOK' /\ Executed(c, TRUE, <<>>)
    BY <1>2, <2>1, OrdersAre, InsertKeepsTable
  <2>3. CallsStep /\ calls \ calls' = {c}
    BY <1>3, <1>10, <2>2
  <2>4. Disorders(c)
    BY <2>1 DEF Disorders
  <2>5. QED
    BY <2>2, <2>3, <2>4
<1>15. CASE ServeCopy(c)
  <2>1. ~Calm
    BY <1>5, <1>15 DEF ServeCopy, Pending
  <2>2. CASE c.id \in db /\ Insert(c, ord[c.id])
    <3>1. ord[c.id] \in Orders
      BY <1>1, <2>2
    <3>2. TableOK' /\ Executed(c, TRUE, <<>>)
      BY <1>2, <2>2, <3>1, InsertKeepsTable
    <3>3. QED
      BY <1>3, <1>10, <2>1, <3>2
  <2>3. CASE Executed(c, FALSE, <<>>) /\ UNCHANGED serverVars
    BY <1>3, <1>10, <1>11, <2>3
  <2>4. QED
    BY <1>15, <2>2, <2>3 DEF ServeCopy
<1>16. CASE ServeDelete(c)
  <2>1. PICK ok \in BOOLEAN : Executed(c, ok, <<>>)
    <3>1. DEFINE k == (page # "proxies" \/ c.id \in db)
    <3>2. k \in BOOLEAN /\ (Executed(c, k, <<>>) \/ Executed(c, FALSE, <<>>))
      BY <1>16 DEF ServeDelete
    <3>3. HIDE DEF k
    <3>4. QED
      BY <3>2, Zenon
  <2>2. db' \subseteq db /\ UNCHANGED <<ord, made>>
    BY <1>16 DEF ServeDelete
  <2>3. TableOK'
    BY <1>1, <1>2, <2>2 DEF TableOK
  <2>4. OrderStep
    BY <1>8, <2>2 DEF MatchIsLast, InOrder
  <2>5. QED
    BY <1>3, <1>10, <2>1, <2>3, <2>4
<1>17. CASE ServeRefs(c)
  <2>1. PICK ok \in BOOLEAN : Executed(c, ok, <<>>)
    <3>1. DEFINE k == (c.id \in db)
    <3>2. k \in BOOLEAN /\ Executed(c, k, <<>>)
      BY <1>17 DEF ServeRefs
    <3>3. HIDE DEF k
    <3>4. QED
      BY <3>2, Zenon
  <2>2. QED
    BY <1>3, <1>10, <1>11, <1>17, <2>1 DEF ServeRefs
<1>18. CASE ServeReorder(c)
  <2>1. /\ c.op = "reorder" /\ ord' = Reordered(c.arg) /\ Executed(c, TRUE, <<>>) /\ UNCHANGED <<db, made>>
    BY <1>18 DEF ServeReorder, Pending
  <2>2. CallsStep /\ calls \ calls' = {c}
    BY <1>3, <1>10, <2>1
  <2>3. ord' \in [Ids -> Orders]
    BY <1>1, <1>6, <2>1, ReorderTyped
  <2>4. TableOK'
    BY <1>1, <1>2, <2>1, <2>3 DEF TableOK
  <2>5. OrderStep
    <3>1. SUFFICES ASSUME Calm, ~Disorders(c), MatchRule \in db, NEW i \in db, i # MatchRule
                   PROVE  Reordered(c.arg)[i] < Reordered(c.arg)[MatchRule]
      BY <2>1, <2>2 DEF MatchIsLast, InOrder
    <3>2. db \subseteq IdsOf(c.arg) /\ MatchLast(c.arg)
      BY <1>8, <2>1, <3>1 DEF Disorders, MatchArgs
    <3>3. HIDE DEF Calm
    <3>4. QED
      BY <1>1, <1>6, <3>1, <3>2, ReorderKeepsMatch
  <2>6. QED
    BY <2>2, <2>4, <2>5
<1>19. QED
  BY <1>4, <1>12, <1>13, <1>14, <1>15, <1>16, <1>17, <1>18

-----------------------------------------------------------------------------
(* The handlers of a page.  None changes the server's tables; each keeps   *)
(* the invariant of the page, and MATCH at the end of the rules' lists.    *)

FormType == [open : BOOLEAN, editing : Ids \cup {NoId}]
ConfirmType == [open : BOOLEAN, about : Ids \cup {NoId}, deleting : Ids \cup {NoId}]
NamesTarget(cf) == cf.open => cf.deleting \in {NoId, cf.about}

ListsKept == page = "rules" /\ ListsOK => MatchLast(rows') /\ MatchArgs(calls')
ClientKeeps == CrudInv' /\ UNCHANGED <<page, db, ord, made>> /\ ListsKept

LEMMA Crud ==
    ASSUME CrudInv
    PROVE  /\ page \in Pages /\ rows \in Lists /\ loading \in BOOLEAN /\ hides \in Ids \cup {NoId}
           /\ form \in FormType /\ confirm \in ConfirmType /\ NamesTarget(confirm)
           /\ sent \in 0..MaxSends[page]
           /\ sent < MaxSends[page] => sent + 1 \in 0..MaxSends[page]
           /\ CallsOK(page, calls) /\ (loading => Fetching(calls))
<1>1. /\ page \in Pages /\ rows \in Lists /\ loading \in BOOLEAN /\ hides \in Ids \cup {NoId}
      /\ form \in FormType /\ confirm \in ConfirmType
      /\ sent \in 0..MaxSends[page]
      /\ CallsOK(page, calls) /\ (loading => Fetching(calls))
  BY DEF CrudInv, ClientOK, FormType, ConfirmType
<1>2. NamesTarget(confirm)
  BY DEF CrudInv, ConfirmNamesTarget, NamesTarget
<1>3. MaxSends[page] \in Nat
  BY <1>1, CrudAssumption
<1>4. sent < MaxSends[page] => sent + 1 \in 0..MaxSends[page]
  BY <1>1, <1>3
<1>5. QED
  BY <1>1, <1>2, <1>4

LEMMA ClientStep ==
    ASSUME CrudInv, UNCHANGED <<page, db, ord, made>>,
           rows' \in Lists, loading' \in BOOLEAN, hides' \in Ids \cup {NoId},
           form' \in FormType, confirm' \in ConfirmType, NamesTarget(confirm'),
           sent' \in 0..MaxSends[page], CallsOK(page, calls'), loading' => Fetching(calls'),
           ListsKept
    PROVE  ClientKeeps
<1>1. TableOK'
  BY DEF CrudInv, TableOK
<1>2. ClientOK'
  BY DEF ClientOK, FormType, ConfirmType
<1>3. ConfirmNamesTarget'
  BY DEF NamesTarget, ConfirmNamesTarget
<1>4. page' \in Pages
  BY DEF CrudInv
<1>5. QED
  BY <1>1, <1>2, <1>3, <1>4 DEF ClientKeeps, CrudInv

LEMMA Dialogs ==
    /\ ClosedForm \in FormType
    /\ ClosedConfirm \in ConfirmType /\ NamesTarget(ClosedConfirm)
    /\ confirm \in ConfirmType => Disarmed \in ConfirmType /\ NamesTarget(Disarmed)
    /\ \A i \in Ids \cup {NoId} :
          /\ [open |-> TRUE, editing |-> i] \in FormType
          /\ [open |-> TRUE, about |-> i, deleting |-> i] \in ConfirmType
          /\ NamesTarget([open |-> TRUE, about |-> i, deleting |-> i])
BY DEF ClosedForm, ClosedConfirm, Disarmed, FormType, ConfirmType, NamesTarget

(* Handlers that send nothing and hear nothing. *)
LEMMA DialogsKeep ==
    ASSUME CrudInv,
           \/ \E i \in Ids \cup {NoId} : OpenForm(i)
           \/ \E i \in Ids : AskDelete(i)
           \/ CloseForm \/ CancelDelete
    PROVE  ClientKeeps
<1>1. /\ UNCHANGED <<page, sent, db, ord, made, rows, loading, hides, calls>>
      /\ form' \in FormType /\ confirm' \in ConfirmType /\ NamesTarget(confirm')
  BY Crud, Dialogs DEF OpenForm, AskDelete, CloseForm, CancelDelete
<1>2. ListsKept
  BY <1>1 DEF ListsKept, ListsOK
<1>3. QED
  BY <1>1, <1>2, Crud, ClientStep

LEMMA ListKeeps ==
    ASSUME CrudInv, ListReplied
    PROVE  ClientKeeps
<1>1. PICK c \in calls : calls' = Over(c) /\ rows' \in {rows, c.arg}
  BY DEF ListReplied, Replies
<1>2. loading' = FALSE /\ UNCHANGED <<page, sent, db, ord, made, hides, form, confirm>>
  BY DEF ListReplied
<1>3. CallsOK(page, calls) /\ c \in Call
  BY <1>1, Crud DEF CallsOK
<1>4. rows' \in Lists
  BY <1>1, <1>3, CallFields, Crud
<1>5. CallsOK(page, calls') /\ (MatchArgs(calls) => MatchArgs(calls'))
  BY <1>1, <1>3, OverCalls
<1>6. ListsKept
  BY <1>1, <1>5 DEF ListsKept, ListsOK, MatchArgs
<1>7. QED
  BY <1>2, <1>4, <1>5, <1>6, Crud, ClientStep

LEMMA FilterKeeps ==
    ASSUME CrudInv, page \in {"rules", "groups"}, NEW m \in BOOLEAN, Filtered(m)
    PROVE  ClientKeeps
<1>1. /\ sent < MaxSends[page] /\ sent' = sent + 1 /\ loading' = TRUE
      /\ hides' \in Hideable[page] \cup {NoId}
      /\ confirm' \in {confirm, ClosedConfirm}
      /\ UNCHANGED <<page, db, ord, made, rows, form>>
  BY DEF Filtered
<1>2. hides' \in Ids \cup {NoId}
  <2>1. Hideable[page] \subseteq 1..MaxId[page] /\ 1..MaxId[page] \subseteq Ids
    BY CrudAssumption, IdsOfPages, Crud
  <2>2. QED
    BY <1>1, <2>1
<1>3. PICK cs \in Asked("list", NoId, hides', <<>>) : calls' \in {cs, Orphaned(cs)}
  BY DEF Filtered
<1>4. CallsOK(page, calls) /\ "list" \in Ops /\ <<>> \in Lists /\ MatchLast(<<>>) /\ page \in Pages
  BY NoList, Crud DEF Ops
<1>5. /\ CallsOK(page, cs) /\ Fetching(cs) /\ (MatchArgs(calls) => MatchArgs(cs))
  BY <1>2, <1>4, AskedCalls
<1>6. /\ CallsOK(page, calls') /\ Fetching(calls') /\ (MatchArgs(calls) => MatchArgs(calls'))
  BY <1>3, <1>5, OrphanCalls
<1>7. ListsKept
  BY <1>1, <1>6 DEF ListsKept, ListsOK
<1>8. QED
  BY <1>1, <1>2, <1>6, <1>7, Crud, Dialogs, ClientStep

(* A click that sends a request. *)
LEMMA SendKeeps ==
    ASSUME CrudInv, UNCHANGED <<page, db, ord, made, loading, hides, form>>, rows' \in Lists,
           confirm' \in ConfirmType, NamesTarget(confirm'), sent' \in 0..MaxSends[page],
           NEW op \in Ops, page = "rules" => op # "copy",
           NEW id \in Ids \cup {NoId}, NEW arg \in Lists, SendNow(op, id, arg),
           page = "rules" /\ ListsOK => MatchLast(rows') /\ MatchLast(arg)
    PROVE  ClientKeeps
<1>1. /\ CallsOK(page, calls') /\ (Fetching(calls) => Fetching(calls'))
      /\ MatchArgs(calls) /\ MatchLast(arg) => MatchArgs(calls')
  <2>1. page \in Pages /\ CallsOK(page, calls) /\ hides \in Ids \cup {NoId}
    BY Crud
  <2>2. calls' \in Asked(op, id, hides, arg)
    BY DEF SendNow
  <2>3. QED
    BY <2>1, <2>2, AskedCalls
<1>2. ListsKept
  BY <1>1 DEF ListsKept, ListsOK
<1>3. QED
  BY <1>1, <1>2, Crud, ClientStep

LEMMA SavesAndRefsKeep ==
    ASSUME CrudInv, SaveSent \/ \E i \in Ids : RefsSent(i)
    PROVE  ClientKeeps
<1>1. <<>> \in Lists /\ MatchLast(<<>>) /\ "save" \in Ops /\ "refs" \in Ops
  BY NoList DEF Ops
<1>2. CASE SaveSent
  <2>1. /\ UNCHANGED <<page, db, ord, made, rows, loading, hides, form, confirm>>
        /\ sent < MaxSends[page] /\ sent' = sent + 1 /\ SendNow("save", form.editing, <<>>)
    BY <1>2 DEF SaveSent, Send
  <2>2. form.editing \in Ids \cup {NoId}
    BY Crud DEF FormType
  <2>3. page = "rules" /\ ListsOK => MatchLast(rows') /\ MatchLast(<<>>)
    BY <1>1, <2>1 DEF ListsOK
  <2>4. QED
    BY <1>1, <2>1, <2>2, <2>3, Crud, SendKeeps
<1>3. CASE \E i \in Ids : RefsSent(i)
  <2>1. PICK i \in Ids : RefsSent(i)
    BY <1>3
  <2>2. /\ UNCHANGED <<page, sent, db, ord, made, rows, loading, hides, form, confirm>>
        /\ SendNow("refs", i, <<>>)
    BY <2>1 DEF RefsSent
  <2>3. page = "rules" /\ ListsOK => MatchLast(rows') /\ MatchLast(<<>>)
    BY <1>1, <2>2 DEF ListsOK
  <2>4. QED
    BY <1>1, <2>2, <2>3, Crud, SendKeeps
<1>4. QED
  BY <1>2, <1>3

LEMMA ConfirmKeeps ==
    ASSUME CrudInv, ConfirmDelete
    PROVE  ClientKeeps
<1>1. /\ UNCHANGED <<page, db, ord, made, rows, loading, hides, form>> /\ confirm' = ClosedConfirm
  BY DEF ConfirmDelete
<1>2. confirm' \in ConfirmType /\ NamesTarget(confirm')
  BY <1>1, Dialogs
<1>3. CASE UNCHANGED <<sent, calls>>
  <2>1. ListsKept
    BY <1>1, <1>3 DEF ListsKept, ListsOK
  <2>2. QED
    BY <1>1, <1>2, <1>3, <2>1, Crud, ClientStep
<1>4. CASE Send("delete", confirm.deleting, <<>>)
  <2>1. sent < MaxSends[page] /\ sent' = sent + 1 /\ SendNow("delete", confirm.deleting, <<>>)
    BY <1>4 DEF Send
  <2>2. confirm.deleting \in Ids \cup {NoId} /\ <<>> \in Lists /\ MatchLast(<<>>) /\ "delete" \in Ops
    BY Crud, NoList DEF ConfirmType, Ops
  <2>3. page = "rules" /\ ListsOK => MatchLast(rows') /\ MatchLast(<<>>)
    BY <1>1, <2>2 DEF ListsOK
  <2>4. QED
    BY <1>1, <1>2, <2>1, <2>2, <2>3, Crud, SendKeeps
<1>5. QED
  BY <1>3, <1>4 DEF ConfirmDelete

(* The reply to a request, with the list fetched again or not. *)
LEMMA AnswerKeeps ==
    ASSUME CrudInv, UNCHANGED <<page, sent, db, ord, made, rows, hides>>, NEW c \in calls, c.op # "list",
           form' \in FormType, confirm' \in ConfirmType, NamesTarget(confirm'),
           \/ calls' = Over(c) /\ loading' = loading
           \/ calls' \in {OverAndFetch(c), Orphaned(OverAndFetch(c))} /\ loading' = TRUE
    PROVE  ClientKeeps
<1>1. CallsOK(page, calls)
  BY Crud
<1>2. /\ CallsOK(page, calls') /\ (loading' => Fetching(calls'))
      /\ MatchArgs(calls) => MatchArgs(calls')
  <2>1. CASE calls' = Over(c) /\ loading' = loading
    BY <1>1, <2>1, OverCalls, Crud
  <2>2. CASE calls' \in {OverAndFetch(c), Orphaned(OverAndFetch(c))} /\ loading' = TRUE
    <3>1. /\ CallsOK(page, OverAndFetch(c)) /\ Fetching(OverAndFetch(c))
          /\ MatchArgs(calls) => MatchArgs(OverAndFetch(c))
      BY <1>1, FetchCalls
    <3>2. /\ CallsOK(page, Orphaned(OverAndFetch(c))) /\ Fetching(Orphaned(OverAndFetch(c)))
          /\ MatchArgs(calls) => MatchArgs(Orphaned(OverAndFetch(c)))
      BY <3>1, OrphanCalls
    <3>3. QED
      BY <2>2, <3>1, <3>2
  <2>3. QED
    BY <2>1, <2>2
<1>3. loading' \in BOOLEAN
  BY Crud
<1>4. ListsKept
  BY <1>2 DEF ListsKept, ListsOK
<1>5. QED
  BY <1>2, <1>3, <1>4, Crud, ClientStep

LEMMA SavedKeeps ==
    ASSUME CrudInv, NEW m \in BOOLEAN, SaveReplied(m)
    PROVE  ClientKeeps
<1>1. UNCHANGED <<page, sent, db, ord, made, rows, hides>>
  BY DEF SaveReplied
<1>2. PICK c \in calls :
        /\ c.op = "save"
        /\ \/ form' = form /\ loading' = loading /\ confirm' = confirm /\ calls' = Over(c)
           \/ /\ form' = ClosedForm /\ loading' = TRUE /\ confirm' \in {confirm, ClosedConfirm}
              /\ calls' \in {OverAndFetch(c), Orphaned(OverAndFetch(c))}
  BY DEF SaveReplied, Replies
<1>3. form' \in FormType /\ confirm' \in ConfirmType /\ NamesTarget(confirm') /\ c.op # "list"
  BY <1>2, Crud, Dialogs
<1>4. QED
  BY <1>1, <1>2, <1>3, AnswerKeeps

LEMMA DeletedKeeps ==
    ASSUME CrudInv, NEW m \in BOOLEAN, DeleteReplied(m)
    PROVE  ClientKeeps
<1>1. UNCHANGED <<page, sent, db, ord, made, rows, hides, form>>
  BY DEF DeleteReplied
<1>2. PICK c \in calls :
        /\ c.op = "delete"
        /\ confirm' \in {confirm, Disarmed, ClosedConfirm}
        /\ \/ loading' = loading /\ calls' = Over(c)
           \/ loading' = TRUE /\ calls' \in {OverAndFetch(c), Orphaned(OverAndFetch(c))}
  BY DEF DeleteReplied, Replies
<1>3. form' \in FormType /\ confirm' \in ConfirmType /\ NamesTarget(confirm') /\ c.op # "list"
  BY <1>1, <1>2, Crud, Dialogs
<1>4. QED
  BY <1>1, <1>2, <1>3, AnswerKeeps

LEMMA RefsKeep ==
    ASSUME CrudInv, RefsReplied
    PROVE  ClientKeeps
<1>1. UNCHANGED <<page, sent, db, ord, made, rows, loading, hides, form>>
  BY DEF RefsReplied
<1>2. PICK c \in calls : /\ c.op = "refs" /\ calls' = Over(c)
                         /\ confirm' = [open |-> TRUE, about |-> c.id, deleting |-> c.id]
  BY DEF RefsReplied, Replies
<1>3. c.id \in Ids \cup {NoId}
  BY <1>2, Crud, CallFields DEF CallsOK
<1>4. form' \in FormType /\ confirm' \in ConfirmType /\ NamesTarget(confirm') /\ c.op # "list"
  BY <1>1, <1>2, <1>3, Crud, Dialogs
<1>5. QED
  BY <1>1, <1>2, <1>4, AnswerKeeps

LEMMA CopiesKeep ==
    ASSUME CrudInv, ProxiesCopy
    PROVE  ClientKeeps
<1>1. UNCHANGED <<page, db, ord, made, rows, hides, form, confirm>> /\ page = "proxies"
  BY DEF ProxiesCopy, OnProxies
<1>2. CASE \E i \in Ids : Send("copy", i, <<>>) /\ UNCHANGED loading
  <2>1. PICK i \in Ids : sent < MaxSends[page] /\ sent' = sent + 1 /\ SendNow("copy", i, <<>>)
    BY <1>2 DEF Send
  <2>2. <<>> \in Lists /\ MatchLast(<<>>) /\ "copy" \in Ops
    BY NoList DEF Ops
  <2>3. page = "rules" /\ ListsOK => MatchLast(rows') /\ MatchLast(<<>>)
    BY <1>1
  <2>4. QED
    BY <1>1, <1>2, <2>1, <2>2, <2>3, Crud, SendKeeps
<1>3. CASE /\ UNCHANGED sent
           /\ \E c \in calls : /\ c.op = "copy"
                               /\ \/ calls' = Over(c) /\ loading' = loading
                                  \/ calls' = OverAndFetch(c) /\ loading' = TRUE
  <2>1. PICK c \in calls : /\ c.op = "copy"
                           /\ \/ calls' = Over(c) /\ loading' = loading
                              \/ calls' \in {OverAndFetch(c), Orphaned(OverAndFetch(c))} /\ loading' = TRUE
    BY <1>3
  <2>2. form' \in FormType /\ confirm' \in ConfirmType /\ NamesTarget(confirm') /\ c.op # "list"
    BY <1>1, <2>1, Crud
  <2>3. QED
    BY <1>1, <1>3, <2>1, <2>2, AnswerKeeps
<1>4. QED
  BY <1>2, <1>3 DEF ProxiesCopy, Replies

(* A drag, and the answer to it. *)
LEMMA ReorderKeeps ==
    ASSUME CrudInv, RulesReorder
    PROVE  ClientKeeps
<1>1. UNCHANGED <<page, db, ord, made, loading, hides, form, confirm>>
  BY DEF RulesReorder
<1>2. PICK i, j \in 1..Len(rows) : Drag(i, j) /\ Send("reorder", NoId, rows')
  BY DEF RulesReorder
<1>3. rows \in Lists
  BY Crud
<1>4. /\ rows' = ArrayMove(rows, i, j) /\ rows' \in Lists
      /\ ListsOK => MatchLast(rows')
  BY <1>2, <1>3, ArrayMoved DEF Drag, ListsOK
<1>5. PICK r \in Lists : r = rows'
  BY <1>4
<1>6. sent < MaxSends[page] /\ sent' = sent + 1 /\ SendNow("reorder", NoId, r)
  BY <1>2, <1>5 DEF Send
<1>7. page = "rules" /\ ListsOK => MatchLast(rows') /\ MatchLast(r)
  BY <1>4, <1>5
<1>8. "reorder" \in Ops /\ NoId \in Ids \cup {NoId}
  BY DEF Ops
<1>9. QED
  BY <1>1, <1>4, <1>6, <1>7, <1>8, Crud, SendKeeps

LEMMA ReorderedKeeps ==
    ASSUME CrudInv, RulesReordered
    PROVE  ClientKeeps
<1>1. UNCHANGED <<page, sent, db, ord, made, rows, hides, form>>
  BY DEF RulesReordered
<1>2. PICK c \in calls :
        /\ c.op = "reorder"
        /\ \/ UNCHANGED <<loading, confirm>> /\ calls' = Over(c)
           \/ /\ loading' = TRUE /\ confirm' = ClosedConfirm
              /\ \/ calls' = Orphaned(OverAndFetch(c))
                 \/ \E n \in FreeSlots :
                       calls' = Orphaned(Over(c) \cup {NewCall(n, "list", NoId, c.hide, <<>>)})
  BY DEF RulesReordered, Replies
<1>3. form' \in FormType /\ confirm' \in ConfirmType /\ NamesTarget(confirm') /\ c.op # "list"
  BY <1>1, <1>2, Crud, Dialogs
<1>4. CASE \/ calls' = Over(c) /\ loading' = loading
           \/ calls' \in {OverAndFetch(c), Orphaned(OverAndFetch(c))} /\ loading' = TRUE
  BY <1>1, <1>3, <1>4, AnswerKeeps
<1>5. CASE /\ loading' = TRUE
           /\ \E n \in FreeSlots : calls' = Orphaned(Over(c) \cup {NewCall(n, "list", NoId, c.hide, <<>>)})
  <2>1. PICK n \in FreeSlots : calls' = Orphaned(Over(c) \cup {NewCall(n, "list", NoId, c.hide, <<>>)})
    BY <1>5
  <2>2. DEFINE d == NewCall(n, "list", NoId, c.hide, <<>>)
               cs == Over(c) \cup {d}
  <2>3. page \in Pages /\ CallsOK(page, calls) /\ c \in Call
    BY Crud DEF CallsOK
  <2>4. c.hide \in Ids \cup {NoId} /\ NoId \in Ids \cup {NoId} /\ "list" \in Ops /\ <<>> \in Lists
    BY <2>3, CallFields, NoList DEF Ops
  <2>5. n \in 1..MaxCalls[page] /\ \A e \in calls : e.n # n
    BY DEF FreeSlots
  <2>6. d \in Call /\ d.n = n /\ d.op = "list" /\ d.arg = <<>> /\ d.st = "sent"
    <3>1. n \in UNION {1..MaxCalls[p] : p \in Pages}
      BY <2>3, <2>5
    <3>2. QED
      BY <2>3, <2>4, <3>1 DEF NewCall, Call
  <2>7. calls' = Orphaned(cs)
    BY <2>1
  <2>8. HIDE DEF d
  <2>9. /\ CallsOK(page, Over(c)) /\ (MatchArgs(calls) => MatchArgs(Over(c)))
        /\ \A e \in Over(c) : \E a \in calls : a.n = e.n
    BY <2>3, OverCalls
  <2>10. \A e \in Over(c) : e.n # d.n
    BY <2>5, <2>6, <2>9
  <2>11. CallsOK(page, cs)
    BY <2>6, <2>9, <2>10, AddedCall
  <2>12. Fetching(cs) /\ (MatchArgs(calls) => MatchArgs(cs))
    BY <2>6, <2>9, NoList DEF Fetching, MatchArgs
  <2>13. HIDE DEF cs
  <2>14. CallsOK(page, calls') /\ Fetching(calls') /\ (MatchArgs(calls) => MatchArgs(calls'))
    BY <2>7, <2>11, <2>12, OrphanCalls
  <2>15. ListsKept
    BY <1>1, <2>14 DEF ListsKept, ListsOK
  <2>16. QED
    BY <1>1, <1>3, <1>5, <2>14, <2>15, Crud, ClientStep
<1>6. QED
  BY <1>2, <1>4, <1>5

-----------------------------------------------------------------------------
(* The delay tests. *)

Shaped(ts) == \A t \in ts : DOMAIN t = {"key", "batch", "mine"}
Spins(d, ts) == \A k \in DOMAIN d : d[k] = "testing" => \E t \in ts : t.key = k /\ t.mine

LEMMA TestsAre == TestsInv <=> Shaped(tests) /\ Spins(delays, tests) /\ TestingMeansWork
BY DEF TestsInv, Shaped, Spins, SpinnerMeansTest

(* New tests: every key that is shown as testing has one. *)
LEMMA MoreTests ==
    ASSUME Shaped(tests), Spins(delays, tests), NEW keys, NEW batch, TestSent(keys, batch)
    PROVE  /\ Shaped(tests') /\ Spins(delays', tests') /\ tests \subseteq tests'
           /\ \A k \in keys : \E t \in tests' : t.batch = batch
<1>1. DEFINE new(k) == [key |-> k, batch |-> batch, mine |-> TRUE]
<1>2. /\ tests' = tests \cup {new(k) : k \in keys}
      /\ delays' = [k \in DOMAIN delays \cup keys |-> IF k \in keys THEN "testing" ELSE delays[k]]
  BY DEF TestSent
<1>3. \A k \in keys : /\ DOMAIN new(k) = {"key", "batch", "mine"}
                      /\ new(k).key = k /\ new(k).batch = batch /\ new(k).mine = TRUE /\ new(k) \in tests'
  BY <1>2
<1>4. HIDE DEF new
<1>5. Shaped(tests')
  BY <1>2, <1>3 DEF Shaped
<1>6. \A k \in DOMAIN delays' : delays'[k] = "testing" => \E t \in tests' : t.key = k /\ t.mine
  <2>1. TAKE k \in DOMAIN delays'
  <2>2. CASE k \in keys
    BY <1>3, <2>2
  <2>3. CASE k \notin keys
    <3>1. k \in DOMAIN delays /\ delays'[k] = delays[k]
      BY <1>2, <2>1, <2>3
    <3>2. QED
      BY <1>2, <3>1 DEF Spins
  <2>4. QED
    BY <2>2, <2>3
<1>7. QED
  BY <1>2, <1>3, <1>5, <1>6 DEF Spins

(* The list is unmounted: nothing spins, and its tests still count. *)
LEMMA DropKeepsTests ==
    ASSUME TestsInv, NEW m \in BOOLEAN, KeepOrDrop(m), UNCHANGED <<testing, trigger>>
    PROVE  TestsInv'
<1>1. Shaped(tests) /\ Spins(delays, tests) /\ TestingMeansWork
  BY TestsAre
<1>2. CASE UNCHANGED <<delays, seen, tests>>
  BY <1>2 DEF TestsInv, SpinnerMeansTest, TestingMeansWork
<1>3. CASE /\ delays' = <<>> /\ seen' = FALSE
           /\ tests' = {[t EXCEPT !.mine = FALSE] : t \in tests}
  <2>1. DEFINE o(t) == [t EXCEPT !.mine = FALSE]
  <2>2. \A t \in tests : /\ DOMAIN o(t) = {"key", "batch", "mine"}
                         /\ o(t).batch = t.batch
    <3>1. TAKE t \in tests
    <3>2. DOMAIN t = {"key", "batch", "mine"}
      BY <1>1 DEF Shaped
    <3>3. QED
      BY <3>2
  <2>3. tests' = {o(t) : t \in tests}
    BY <1>3
  <2>4. HIDE DEF o
  <2>5. Shaped(tests')
    BY <2>2, <2>3 DEF Shaped
  <2>6. Spins(delays', tests')
    BY <1>3 DEF Spins
  <2>7. (\E t \in tests : t.batch # Alone) => \E t \in tests' : t.batch # Alone
    BY <2>2, <2>3
  <2>8. TestingMeansWork'
    BY <1>1, <1>3, <2>7 DEF TestingMeansWork
  <2>9. QED
    BY <2>5, <2>6, <2>8 DEF TestsInv, Shaped, Spins, SpinnerMeansTest
<1>4. QED
  BY <1>2, <1>3 DEF KeepOrDrop

LEMMA TestReplyKeeps ==
    ASSUME TestsInv, TestReplied
    PROVE  TestsInv'
<1>1. Shaped(tests) /\ Spins(delays, tests) /\ TestingMeansWork
  BY TestsAre
<1>2. PICK t \in tests :
        /\ tests' = tests \ {t}
        /\ delays' = IF t.mine THEN SetDelay(delays, t.key, "settled") ELSE delays
        /\ testing' = (testing /\ ~Completes(t))
        /\ UNCHANGED <<trigger, seen>>
  BY DEF TestReplied
<1>3. Shaped(tests')
  BY <1>1, <1>2 DEF Shaped
<1>4. Spins(delays', tests')
  <2>1. SUFFICES ASSUME NEW k \in DOMAIN delays', delays'[k] = "testing"
                 PROVE  \E u \in tests' : u.key = k /\ u.mine
    BY DEF Spins
  <2>2. CASE t.mine
    <3>1. delays' = [j \in DOMAIN delays \cup {t.key} |-> IF j = t.key THEN "settled" ELSE delays[j]]
      BY <1>2, <2>2 DEF SetDelay
    <3>2. k # t.key /\ k \in DOMAIN delays /\ delays[k] = "testing"
      BY <2>1, <3>1
    <3>3. PICK u \in tests : u.key = k /\ u.mine
      BY <1>1, <3>2 DEF Spins
    <3>4. QED
      BY <1>2, <3>2, <3>3
  <2>3. CASE ~t.mine
    <3>1. delays' = delays
      BY <1>2, <2>3
    <3>2. PICK u \in tests : u.key = k /\ u.mine
      BY <1>1, <2>1, <3>1 DEF Spins
    <3>3. QED
      BY <1>2, <2>3, <3>2
  <2>4. QED
    BY <2>2, <2>3
<1>5. TestingMeansWork'
  <2>1. SUFFICES ASSUME testing' PROVE (trigger' /\ ~seen') \/ \E u \in tests' : u.batch # Alone
    BY DEF TestingMeansWork
  <2>2. testing /\ (t.batch # Alone => \E u \in tests \ {t} : u.batch = t.batch)
    BY <1>2, <2>1 DEF Completes
  <2>3. CASE trigger /\ ~seen
    BY <1>2, <2>3
  <2>4. CASE \E u \in tests : u.batch # Alone
    BY <1>2, <2>2, <2>4, Zenon
  <2>5. QED
    BY <1>1, <2>2, <2>3, <2>4 DEF TestingMeansWork
<1>6. QED
  BY <1>3, <1>4, <1>5 DEF TestsInv, Shaped, Spins, SpinnerMeansTest

LEMMA ProxiesKeepTests ==
    ASSUME TestsInv, ProxiesNext
    PROVE  TestsInv'
<1>1. Shaped(tests) /\ Spins(delays, tests) /\ TestingMeansWork
  BY TestsAre
<1>2. CASE UNCHANGED testVars
  BY <1>2 DEF testVars, TestsInv, SpinnerMeansTest, TestingMeansWork
<1>3. CASE ProxiesFetched \/ SourceFiltered \/ ProxiesAdd \/ ProxiesEdit \/ ProxiesForm
           \/ ProxiesDeleteClick \/ ProxiesCopy
  BY <1>2, <1>3 DEF ProxiesFetched, SourceFiltered, ProxiesAdd, ProxiesEdit, ProxiesForm,
                    ProxiesDeleteClick, ProxiesCopy, proxyVars
<1>4. CASE ProvidersListed
  <2>1. UNCHANGED <<testing, trigger>>
    BY <1>4 DEF ProvidersListed
  <2>2. DEFINE k == ~(loading /\ rows = <<>> /\ providers' = <<>>)
  <2>3. k \in BOOLEAN /\ (KeepOrDrop(k) \/ UNCHANGED <<delays, seen, tests>>)
    BY <1>4 DEF ProvidersListed
  <2>4. HIDE DEF k
  <2>5. CASE KeepOrDrop(k)
    BY <2>1, <2>3, <2>5, DropKeepsTests
  <2>6. CASE UNCHANGED <<delays, seen, tests>>
    BY <1>2, <2>1, <2>6 DEF testVars
  <2>7. QED
    BY <2>3, <2>5, <2>6
<1>5. CASE ProxiesSave \/ ProxiesDelete
  <2>1. DEFINE k == ~loading' \/ AllRows # <<>>
  <2>2. k \in BOOLEAN /\ (UNCHANGED proxyVars \/ (KeepOrDrop(k) /\ UNCHANGED <<testing, trigger>>))
    BY <1>5 DEF ProxiesSave, ProxiesDelete
  <2>3. HIDE DEF k
  <2>4. QED
    BY <1>2, <2>2, DropKeepsTests DEF proxyVars
<1>6. CASE TestOne
  <2>1. PICK r \in ToSet(ShownRows) : TestSent({r.key}, Alone)
    BY <1>6 DEF TestOne
  <2>2. UNCHANGED <<testing, trigger, seen>>
    BY <1>6 DEF TestOne
  <2>3. Shaped(tests') /\ Spins(delays', tests') /\ tests \subseteq tests'
    BY <1>1, <2>1, MoreTests
  <2>4. TestingMeansWork'
    BY <1>1, <2>2, <2>3 DEF TestingMeansWork
  <2>5. QED
    BY <2>3, <2>4 DEF TestsInv, Shaped, Spins, SpinnerMeansTest
<1>7. CASE TestAllClicked
  BY <1>7 DEF TestAllClicked, TestsInv, SpinnerMeansTest, TestingMeansWork
<1>8. CASE TestAllEffect
  <2>1a. PICK b \in 1..Cardinality(tests) + 1 : NewBatch(b) /\ TestSent(KeysOf(ShownRows), b)
    BY <1>8 DEF TestAllEffect
  <2>1. b # Alone /\ TestSent(KeysOf(ShownRows), b)
    BY <2>1a DEF NewBatch
  <2>0. testing' = (testing /\ KeysOf(ShownRows) # {})
    BY <1>8 DEF TestAllEffect
  <2>2. /\ Shaped(tests') /\ Spins(delays', tests')
        /\ \A k \in KeysOf(ShownRows) : \E t \in tests' : t.batch = b
    BY <1>1, <2>1, MoreTests
  <2>3. TestingMeansWork'
    <3>1. SUFFICES ASSUME testing' PROVE \E t \in tests' : t.batch # Alone
      BY DEF TestingMeansWork
    <3>2. PICK k : k \in KeysOf(ShownRows)
      BY <2>0, <3>1
    <3>3. QED
      BY <2>1, <2>2, <3>2
  <2>4. QED
    BY <2>2, <2>3 DEF TestsInv, Shaped, Spins, SpinnerMeansTest
<1>9. CASE TestReplied
  BY <1>9, TestReplyKeeps
<1>10. QED
  BY <1>3, <1>4, <1>5, <1>6, <1>7, <1>8, <1>9 DEF ProxiesNext

-----------------------------------------------------------------------------
(* The editor of the rule providers' files. *)

EditorType == [open : BOOLEAN, provider : Ids \cup {NoId}, content : Ids \cup {NoId},
               loading : BOOLEAN, saving : BOOLEAN]

(* A request is sent for a provider, with a text. *)
LEMMA LoadSent ==
    ASSUME loads \subseteq Loads, NEW op \in {"get", "put", "refresh"}, NEW id \in Ids,
           NEW content \in Ids \cup {NoId}, SendLoad(op, id, content)
    PROVE  loads' \subseteq Loads /\ sent < MaxSends[page] /\ sent' = sent + 1
BY DEF SendLoad, FreeLoads, Loads

LEMMA LoadEnds ==
    ASSUME loads \subseteq Loads, NEW c \in loads
    PROVE  LoadOver(c) \subseteq Loads
<1>1. [c EXCEPT !.st = "lost"] \in Loads
  BY DEF Loads
<1>2. QED
  BY <1>1 DEF LoadOver

LEMMA EditorSteps ==
    ASSUME editor \in EditorType, NEW i \in Ids, NEW t \in Ids \cup {NoId}
    PROVE  /\ [editor EXCEPT !.open = TRUE, !.provider = i, !.loading = TRUE] \in EditorType
           /\ [editor EXCEPT !.open = TRUE, !.provider = i, !.loading = TRUE].provider = i
           /\ [editor EXCEPT !.content = t, !.loading = FALSE] \in EditorType
           /\ [editor EXCEPT !.content = t, !.loading = FALSE].open = editor.open
           /\ [editor EXCEPT !.content = t, !.loading = FALSE].provider = editor.provider
BY DEF EditorType

LEMMA EditorFlags ==
    ASSUME editor \in EditorType
    PROVE  /\ [editor EXCEPT !.loading = FALSE] \in EditorType
           /\ [editor EXCEPT !.loading = FALSE].open = editor.open
           /\ [editor EXCEPT !.loading = FALSE].provider = editor.provider
           /\ \A b \in BOOLEAN : /\ [editor EXCEPT !.saving = b] \in EditorType
                                 /\ [editor EXCEPT !.saving = b].open = editor.open
                                 /\ [editor EXCEPT !.saving = b].provider = editor.provider
           /\ [editor EXCEPT !.open = FALSE, !.provider = NoId] \in EditorType
           /\ ~[editor EXCEPT !.open = FALSE, !.provider = NoId].open
           /\ [editor EXCEPT !.open = FALSE, !.provider = NoId, !.saving = FALSE] \in EditorType
           /\ ~[editor EXCEPT !.open = FALSE, !.provider = NoId, !.saving = FALSE].open
BY DEF EditorType

LEMMA ProvidersKeepEditor ==
    ASSUME CrudInv, EditorInv, ProvidersNext
    PROVE  EditorInv' /\ (UNCHANGED pageVars => sent' \in 0..MaxSends[page])
<1>1. /\ editor \in EditorType /\ files \in [Ids -> Ids \cup {NoId}] /\ loads \subseteq Loads
      /\ editor.open => editor.provider # NoId
      /\ editor.provider \in Ids \cup {NoId} /\ editor.content \in Ids \cup {NoId}
  BY DEF EditorInv, EditorOpen, EditorType
<1>2. sent \in 0..MaxSends[page] /\ (sent < MaxSends[page] => sent + 1 \in 0..MaxSends[page])
  BY Crud
<1>3. DEFINE EditorKept == editor' \in EditorType /\ (editor'.open => editor'.provider # NoId)
             SentKept == sent' \in 0..MaxSends[page]
<1>4. SUFFICES /\ EditorKept /\ files' \in [Ids -> Ids \cup {NoId}] /\ loads' \subseteq Loads
               /\ UNCHANGED pageVars => SentKept
  BY DEF EditorInv, EditorOpen, EditorType
<1>5. CASE ProvidersFetched \/ ProvidersForm \/ ProvidersSave \/ ProvidersDeleteClick \/ ProvidersDelete
  <2>1. UNCHANGED editorVars
    BY <1>5 DEF ProvidersFetched, ProvidersForm, ProvidersSave, ProvidersDeleteClick, ProvidersDelete
  <2>2. CrudInv'
    <3>1. ClientKeeps
      BY <1>5, ListKeeps, DialogsKeep, SavesAndRefsKeep, SavedKeeps, ConfirmKeeps, DeletedKeeps
         DEF ProvidersFetched, ProvidersForm, ProvidersSave, ProvidersDeleteClick, ProvidersDelete
    <3>2. QED
      BY <3>1 DEF ClientKeeps
  <2>3. page' = page => SentKept
    BY <2>2 DEF CrudInv, ClientOK
  <2>4. QED
    BY <1>1, <2>1, <2>3 DEF editorVars, pageVars
<1>6. CASE ProvidersRefresh
  <2>1. UNCHANGED <<editor, files>>
    BY <1>6 DEF ProvidersRefresh
  <2>2. CASE \E i \in Ids : SendLoad("refresh", i, NoId)
    BY <1>1, <1>2, <2>1, <2>2, LoadSent
  <2>3. CASE UNCHANGED sent /\ \E c \in loads : loads' = LoadOver(c)
    BY <1>1, <1>2, <2>1, <2>3, LoadEnds
  <2>4. QED
    BY <1>6, <2>2, <2>3 DEF ProvidersRefresh
<1>7. CASE EditorOpened
  <2>1. PICK i \in Ids :
          /\ editor' = [editor EXCEPT !.open = TRUE, !.provider = i, !.loading = TRUE]
          /\ SendLoad("get", i, NoId) /\ UNCHANGED files
    BY <1>7 DEF EditorOpened
  <2>2. EditorKept
    <3>1. editor' \in EditorType /\ editor'.provider = i
      BY <1>1, <2>1, EditorSteps
    <3>2. QED
      BY <3>1, IdsOfPages
  <2>3. QED
    BY <1>1, <1>2, <2>1, <2>2, LoadSent
<1>8. CASE EditorLoaded
  <2>1. PICK c \in loads :
          /\ \/ editor' = [editor EXCEPT !.content = c.content, !.loading = FALSE]
             \/ editor' = [editor EXCEPT !.loading = FALSE]
          /\ loads' = LoadOver(c) /\ UNCHANGED <<sent, files>>
    BY <1>8 DEF EditorLoaded
  <2>2. c.content \in Ids \cup {NoId} /\ c.id \in Ids
    BY <1>1, <2>1 DEF Loads
  <2>3. EditorKept
    <3>1. editor' \in EditorType /\ editor'.open = editor.open /\ editor'.provider = editor.provider
      BY <1>1, <2>1, <2>2, EditorSteps, EditorFlags
    <3>2. QED
      BY <1>1, <3>1
  <2>4. QED
    BY <1>1, <1>2, <2>1, <2>3, LoadEnds
<1>9. CASE EditorClosed
  <2>1. UNCHANGED <<sent, files, loads>> /\ editor' = [editor EXCEPT !.open = FALSE, !.provider = NoId]
    BY <1>9 DEF EditorClosed, crudVars
  <2>2. QED
    BY <1>1, <1>2, <2>1, EditorFlags
<1>10. CASE EditorSave
  <2>1. UNCHANGED files
    BY <1>10 DEF EditorSave
  <2>2. CASE /\ editor.open /\ SendLoad("put", editor.provider, editor.content)
             /\ editor' = [editor EXCEPT !.saving = TRUE]
    <3>1. editor.provider \in Ids
      BY <1>1, <2>2
    <3>2. EditorKept
      <4>1. editor' \in EditorType /\ editor'.open = editor.open /\ editor'.provider = editor.provider
        BY <1>1, <2>2, EditorFlags
      <4>2. QED
        BY <1>1, <4>1
    <3>3. QED
      BY <1>1, <1>2, <2>1, <2>2, <3>1, <3>2, LoadSent
  <2>3. CASE \E c \in loads :
               /\ \/ editor' = [editor EXCEPT !.open = FALSE, !.provider = NoId, !.saving = FALSE]
                  \/ editor' = [editor EXCEPT !.saving = FALSE]
               /\ loads' = LoadOver(c) /\ UNCHANGED sent
    <3>1. EditorKept
      <4>1. CASE editor' = [editor EXCEPT !.open = FALSE, !.provider = NoId, !.saving = FALSE]
        BY <1>1, <4>1, EditorFlags
      <4>2. CASE editor' = [editor EXCEPT !.saving = FALSE]
        <5>1. editor' \in EditorType /\ editor'.open = editor.open /\ editor'.provider = editor.provider
          BY <1>1, <4>2, EditorFlags
        <5>2. QED
          BY <1>1, <5>1
      <4>3. QED
        BY <2>3, <4>1, <4>2
    <3>2. QED
      BY <1>1, <1>2, <2>1, <2>3, <3>1, LoadEnds
  <2>4. QED
    BY <1>10, <2>2, <2>3 DEF EditorSave, EditorOpen
<1>11. CASE ServeContent
  <2>1. UNCHANGED <<sent, editor>>
    BY <1>11 DEF ServeContent, crudVars
  <2>2. PICK c \in loads :
          \/ loads' = (loads \ {c}) \cup {[c EXCEPT !.st = "done", !.content = files[c.id]]} /\ files' = files
          \/ /\ files' = [files EXCEPT ![c.id] = c.content]
             /\ loads' = (loads \ {c}) \cup (IF c.st = "sent" THEN {[c EXCEPT !.st = "done"]} ELSE {})
    BY <1>11 DEF ServeContent
  <2>3. c \in Loads /\ c.id \in Ids /\ c.content \in Ids \cup {NoId} /\ files[c.id] \in Ids \cup {NoId}
    BY <1>1 DEF Loads
  <2>4. /\ [c EXCEPT !.st = "done", !.content = files[c.id]] \in Loads
        /\ [c EXCEPT !.st = "done"] \in Loads
    BY <2>3 DEF Loads
  <2>5. loads' \subseteq Loads /\ files' \in [Ids -> Ids \cup {NoId}]
    BY <1>1, <2>2, <2>3, <2>4
  <2>6. QED
    BY <1>1, <1>2, <2>1, <2>5
<1>12. QED
  BY <1>5, <1>6, <1>7, <1>8, <1>9, <1>10, <1>11 DEF ProvidersNext

-----------------------------------------------------------------------------
(* The pages put together. *)

LEMMA NothingSet ==
    ASSUME CrudInv, UNCHANGED pageVars, sent' \in 0..MaxSends[page]
    PROVE  ClientKeeps
<1>1. UNCHANGED <<page, db, ord, made, rows, loading, hides, form, confirm, calls>>
  BY DEF pageVars
<1>2. ListsKept
  BY <1>1 DEF ListsKept, ListsOK
<1>3. QED
  BY <1>1, <1>2, Crud, ClientStep

LEMMA ProxiesKeep ==
    ASSUME CrudInv, ProxiesNext
    PROVE  ClientKeeps
<1>1. CASE ProvidersListed \/ SourceFiltered \/ TestOne \/ TestAllClicked \/ TestAllEffect \/ TestReplied
  <2>1. UNCHANGED <<page, db, ord, made, rows, loading, hides, form, confirm, sent, calls>>
    BY <1>1 DEF ProvidersListed, SourceFiltered, TestOne, TestAllClicked, TestAllEffect, TestReplied, crudVars
  <2>2. QED
    BY <2>1, Crud, NothingSet DEF pageVars
<1>2. CASE ProxiesFetched \/ ProxiesAdd \/ ProxiesEdit \/ ProxiesForm \/ ProxiesDeleteClick
  BY <1>2, ListKeeps, DialogsKeep, SavesAndRefsKeep, RefsKeep
     DEF ProxiesFetched, ProxiesAdd, ProxiesEdit, ProxiesForm, ProxiesDeleteClick
<1>3. CASE ProxiesSave \/ ProxiesDelete
  <2>1. DEFINE k == AllRows # <<>>
  <2>2. k \in BOOLEAN /\ (SaveSent \/ SaveReplied(k) \/ CancelDelete \/ ConfirmDelete \/ DeleteReplied(k))
    BY <1>3 DEF ProxiesSave, ProxiesDelete
  <2>3. HIDE DEF k
  <2>4. QED
    BY <2>2, SavesAndRefsKeep, SavedKeeps, DialogsKeep, ConfirmKeeps, DeletedKeeps
<1>4. CASE ProxiesCopy
  BY <1>4, CopiesKeep
<1>5. QED
  BY <1>1, <1>2, <1>3, <1>4 DEF ProxiesNext

LEMMA GroupsAndRulesKeep ==
    ASSUME CrudInv, GroupsNext \/ RulesNext
    PROVE  ClientKeeps
<1>1. CASE GroupsFetched \/ RulesFetched
  BY <1>1, FilterKeeps, ListKeeps DEF GroupsFetched, RulesFetched, OnGroups, OnRules
<1>2. CASE GroupsAdd \/ GroupsEdit \/ GroupsForm \/ RulesAdd \/ RulesEdit \/ RulesForm
  BY <1>2, DialogsKeep DEF GroupsAdd, GroupsEdit, GroupsForm, RulesAdd, RulesEdit, RulesForm
<1>3. CASE GroupsSave \/ RulesSave
  BY <1>3, SavesAndRefsKeep, SavedKeeps DEF GroupsSave, RulesSave
<1>4. CASE GroupsDeleteClick \/ GroupsDelete \/ RulesDelete
  BY <1>4, SavesAndRefsKeep, RefsKeep, DialogsKeep, ConfirmKeeps, DeletedKeeps
     DEF GroupsDeleteClick, GroupsDelete, RulesDelete
<1>5. CASE RulesReorder \/ RulesReordered
  BY <1>5, ReorderKeeps, ReorderedKeeps
<1>6. QED
  BY <1>1, <1>2, <1>3, <1>4, <1>5 DEF GroupsNext, RulesNext

LEMMA ProvidersKeep ==
    ASSUME CrudInv, EditorInv, ProvidersNext
    PROVE  ClientKeeps
<1>1. CASE ProvidersFetched \/ ProvidersForm \/ ProvidersSave \/ ProvidersDeleteClick \/ ProvidersDelete
  BY <1>1, ListKeeps, DialogsKeep, SavesAndRefsKeep, SavedKeeps, ConfirmKeeps, DeletedKeeps
     DEF ProvidersFetched, ProvidersForm, ProvidersSave, ProvidersDeleteClick, ProvidersDelete
<1>2. CASE ProvidersRefresh \/ EditorOpened \/ EditorLoaded \/ EditorClosed \/ EditorSave \/ ServeContent
  <2>1. UNCHANGED pageVars
    BY <1>2 DEF ProvidersRefresh, EditorOpened, EditorLoaded, EditorClosed, EditorSave, ServeContent,
                pageVars, crudVars
  <2>2. QED
    BY <2>1, ProvidersKeepEditor, NothingSet
<1>3. QED
  BY <1>1, <1>2 DEF ProvidersNext

LEMMA ClientKeepsMatch ==
    ASSUME MatchInv, ClientKeeps, UNCHANGED disordered
    PROVE  CrudInv' /\ MatchInv'
<1>1. CrudInv' /\ UNCHANGED <<page, db, ord, made>> /\ ListsKept
  BY DEF ClientKeeps
<1>2. MatchIsLast => MatchIsLast'
  BY <1>1 DEF MatchIsLast, InOrder
<1>3. page = "rules" /\ ListsOK => ListsOK'
  BY <1>1 DEF ListsKept, ListsOK
<1>4. QED
  BY <1>1, <1>2, <1>3 DEF MatchInv

LEMMA InventoryStep ==
    ASSUME InventoryInv, PageStep \/ ServerStep
    PROVE  InventoryInv'
<1>1. CrudInv /\ MatchInv /\ TestsInv /\ EditorInv /\ disordered \in BOOLEAN
  BY DEF InventoryInv
<1>2. UNCHANGED proxyVars => TestsInv'
  BY <1>1 DEF proxyVars, testVars, TestsInv, SpinnerMeansTest, TestingMeansWork
<1>3. UNCHANGED editorVars => EditorInv'
  BY <1>1 DEF editorVars, EditorInv, EditorOpen
<1>4. CASE ProxiesNext /\ UNCHANGED <<editorVars, disordered>>
  BY <1>1, <1>3, <1>4, ProxiesKeep, ProxiesKeepTests, ClientKeepsMatch DEF InventoryInv
<1>5. CASE (GroupsNext \/ RulesNext) /\ UNCHANGED Rest
  BY <1>1, <1>2, <1>3, <1>5, GroupsAndRulesKeep, ClientKeepsMatch DEF InventoryInv, Rest
<1>6. CASE ProvidersNext /\ UNCHANGED <<proxyVars, disordered>>
  BY <1>1, <1>2, <1>6, ProvidersKeep, ProvidersKeepEditor, ClientKeepsMatch DEF InventoryInv
<1>7. CASE ServerStep
  <2>1. disordered' \in BOOLEAN
    BY <1>7 DEF ServerStep
  <2>2. QED
    BY <1>1, <1>2, <1>3, <1>7, <2>1, ServerKeeps DEF InventoryInv, ServerStep
<1>8. QED
  BY <1>4, <1>5, <1>6, <1>7 DEF PageStep

LEMMA InventoryInit ==
    ASSUME CrudInit, ProxiesInit, ProvidersInit, disordered = FALSE
    PROVE  InventoryInv
<1>1. /\ page \in Pages /\ db = 1..First[page] /\ ord = FirstOrd[page] /\ made = First[page] /\ rows = <<>>
      /\ loading = TRUE /\ hides = NoId /\ form = ClosedForm /\ confirm = ClosedConfirm /\ sent = 0
      /\ calls = {NewCall(1, "list", NoId, NoId, <<>>)}
  BY DEF CrudInit
<1>2. TableOK
  BY <1>1, IdsOfPages, OrderAssumption DEF TableOK
<1>3. ClientOK /\ ConfirmNamesTarget
  <2>1. MaxSends[page] \in Nat
    BY <1>1, CrudAssumption
  <2>2. sent \in 0..MaxSends[page]
    BY <1>1, <2>1
  <2>3. QED
    BY <1>1, <2>2, NoList, Dialogs DEF ClientOK, FormType, ConfirmType, ConfirmNamesTarget, NamesTarget
<1>4. CallsOK(page, calls) /\ Fetching(calls) /\ MatchArgs(calls)
  <2>1. DEFINE d == NewCall(1, "list", NoId, NoId, <<>>)
  <2>2. MaxCalls[page] \in Nat \ {0}
    BY <1>1, CrudAssumption
  <2>3. 1 \in 1..MaxCalls[page]
    BY <2>2
  <2>4. "list" \in Ops /\ <<>> \in Lists /\ NoId \in Ids \cup {NoId}
    BY NoList DEF Ops
  <2>5. d \in Call /\ d.op = "list" /\ d.arg = <<>> /\ d.st = "sent"
    <3>1. 1 \in UNION {1..MaxCalls[p] : p \in Pages}
      BY <1>1, <2>3
    <3>2. QED
      BY <2>4, <3>1 DEF NewCall, Call
  <2>6. calls = {d}
    BY <1>1
  <2>7. HIDE DEF d
  <2>8. QED
    BY <2>5, <2>6, NoList DEF CallsOK, Fetching, MatchArgs
<1>5. MatchInv
  <2>1. page = "rules" => MatchIsLast
    <3>1. SUFFICES ASSUME page = "rules", NEW i \in db \ {MatchRule} PROVE InOrder(i, MatchRule)
      BY DEF MatchIsLast
    <3>2. QED
      BY <1>1, <3>1, MatchAssumption DEF InOrder
  <2>2. QED
    BY <1>1, <1>4, <2>1, NoList DEF MatchInv, ListsOK
<1>6. TestsInv
  BY DEF ProxiesInit, TestsInv, SpinnerMeansTest, TestingMeansWork
<1>7. EditorInv
  BY DEF ProvidersInit, ClosedEditor, EditorInv, EditorOpen
<1>8. QED
  BY <1>1, <1>2, <1>3, <1>4, <1>5, <1>6, <1>7 DEF InventoryInv, CrudInv

-----------------------------------------------------------------------------
(* The traffic page. *)

LEMMA FreshRequest ==
    ASSUME NEW op, NEW arg, NEW flag, AskedOK(Request(op, arg, flag)), FlagOK(Request(op, arg, flag))
    PROVE  /\ RequestOK(Request(op, arg, flag))
           /\ Request(op, arg, flag).flag = flag /\ Request(op, arg, flag).st = "sent"
BY DEF Request, RequestOK, AnswerOK

LEMMA LoadRequest ==
    ASSUME NEW flag \in {None, "traffic.loading"}
    PROVE  /\ RequestOK(Request("load", None, flag))
           /\ Request("load", None, flag).flag = flag /\ Request("load", None, flag).st = "sent"
<1>1. AskedOK(Request("load", None, flag)) /\ FlagOK(Request("load", None, flag))
  BY DEF AskedOK, FlagOK, Request
<1>2. QED
  BY <1>1, FreshRequest

(* A request is answered, lost, replaced or removed: what the others are   *)
(* and the flags they stand for does not change.                           *)
LEMMA OneChanged ==
    ASSUME WireOK(clicks, wire), Backed(busy, wire), NEW n \in DOMAIN wire, NEW w,
           w = [m \in DOMAIN w |-> w[m]],
           DOMAIN w \in {DOMAIN wire, DOMAIN wire \ {n}},
           \A m \in DOMAIN wire \ {n} : w[m] = wire[m],
           n \in DOMAIN w => RequestOK(w[n]),
           NEW b \in SUBSET busy,
           \/ wire[n].flag \notin b
           \/ wire[n].st = "lost"
           \/ n \in DOMAIN w /\ w[n].flag = wire[n].flag /\ w[n].st # "lost"
    PROVE  WireOK(clicks, w) /\ Backed(b, w)
<1>1. WireOK(clicks, w)
  BY DEF WireOK
<1>2. Backed(b, w)
  <2>1. SUFFICES ASSUME NEW f \in b PROVE \E m \in DOMAIN w : w[m].flag = f /\ w[m].st # "lost"
    BY DEF Backed
  <2>2. PICK m \in DOMAIN wire : wire[m].flag = f /\ wire[m].st # "lost"
    BY DEF Backed
  <2>3. CASE m # n
    BY <2>2, <2>3
  <2>4. CASE m = n
    BY <2>2, <2>4
  <2>5. QED
    BY <2>3, <2>4
<1>3. QED
  BY <1>1, <1>2

LEMMA WithoutKeeps ==
    ASSUME WireOK(clicks, wire), Backed(busy, wire), NEW n \in DOMAIN wire, NEW b \in SUBSET busy,
           wire[n].flag \notin b \/ wire[n].st = "lost"
    PROVE  WireOK(clicks, Without(n)) /\ Backed(b, Without(n))
<1>1. DEFINE w == Without(n)
<1>2. w = [m \in DOMAIN wire \ {n} |-> wire[m]]
  BY DEF Without, Restrict
<1>3. /\ DOMAIN w = DOMAIN wire \ {n} /\ w = [m \in DOMAIN w |-> w[m]]
      /\ \A m \in DOMAIN wire \ {n} : w[m] = wire[m]
  BY <1>2
<1>4. HIDE DEF w
<1>5. WireOK(clicks, w) /\ Backed(b, w)
  BY <1>3, OneChanged
<1>6. QED
  BY <1>5 DEF w

(* Another record in the place of n. *)
LEMMA PutKeeps ==
    ASSUME WireOK(clicks, wire), Backed(busy, wire), NEW n \in DOMAIN wire, NEW r, RequestOK(r),
           NEW b \in SUBSET busy,
           wire[n].flag \notin b \/ wire[n].st = "lost" \/ (r.flag = wire[n].flag /\ r.st # "lost")
    PROVE  WireOK(clicks, [wire EXCEPT ![n] = r]) /\ Backed(b, [wire EXCEPT ![n] = r])
<1>1. DEFINE w == [wire EXCEPT ![n] = r]
<1>2. /\ DOMAIN w = DOMAIN wire /\ w = [m \in DOMAIN w |-> w[m]] /\ w[n] = r
      /\ \A m \in DOMAIN wire \ {n} : w[m] = wire[m]
  OBVIOUS
<1>3. HIDE DEF w
<1>4. WireOK(clicks, w) /\ Backed(b, w)
  BY <1>2, OneChanged
<1>5. QED
  BY <1>4 DEF w

LEMMA Restamped ==
    ASSUME NEW r, RequestOK(r), NEW s, NEW v, s = "done" /\ r.op = "load" => v \in Overviews,
           s = "deleting" => r.op = "deleteAccount",
           NEW q, q = [r EXCEPT !.st = s, !.ans = v]
    PROVE  RequestOK(q)
<1>1. DOMAIN r = {"op", "arg", "flag", "st", "ans"}
  BY DEF RequestOK
<1>2. /\ DOMAIN q = DOMAIN r /\ q.op = r.op /\ q.arg = r.arg /\ q.flag = r.flag /\ q.st = s /\ q.ans = v
  BY <1>1
<1>3. AskedOK(q)
  BY <1>2 DEF RequestOK, AskedOK
<1>4. FlagOK(q)
  BY <1>2 DEF RequestOK, FlagOK
<1>5. AnswerOK(q)
  BY <1>2 DEF RequestOK, AnswerOK
<1>6. QED
  BY <1>1, <1>2, <1>3, <1>4, <1>5 DEF RequestOK

LEMMA ProgressKeeps ==
    ASSUME WireOK(clicks, wire), Backed(busy, wire), NEW n \in DOMAIN wire,
           NEW s, s # "lost", NEW v, s = "done" /\ wire[n].op = "load" => v \in Overviews,
           s = "deleting" => wire[n].op = "deleteAccount", Progress(n, s, v)
    PROVE  WireOK(clicks, wire') /\ Backed(busy, wire')
<1>1. CASE wire[n].st = "lost"
  <2>1. wire' = Without(n)
    BY <1>1 DEF Progress
  <2>2. QED
    BY <1>1, <2>1, WithoutKeeps
<1>2. CASE wire[n].st # "lost"
  <2>1. DEFINE q == [wire[n] EXCEPT !.st = s, !.ans = v]
  <2>2. wire' = [wire EXCEPT ![n] = q]
    BY <1>2 DEF Progress
  <2>3. RequestOK(wire[n])
    BY DEF WireOK
  <2>4. RequestOK(q) /\ q.flag = wire[n].flag /\ q.st = s
    <3>1. PICK r : r = wire[n]
      OBVIOUS
    <3>2. /\ RequestOK(r) /\ (s = "done" /\ r.op = "load" => v \in Overviews)
          /\ (s = "deleting" => r.op = "deleteAccount") /\ q = [r EXCEPT !.st = s, !.ans = v]
      BY <2>3, <3>1
    <3>3. q.flag = r.flag /\ q.st = s
      BY <3>2 DEF RequestOK
    <3>4. HIDE DEF q
    <3>5. RequestOK(q)
      BY <3>2, Restamped
    <3>6. QED
      BY <3>1, <3>3, <3>5
  <2>5. HIDE DEF q
  <2>6. QED
    BY <2>2, <2>4, PutKeeps
<1>3. QED
  BY <1>1, <1>2

(* The handler gives up on a request, whose flag it clears. *)
LEMMA FailedKeeps ==
    ASSUME WireOK(clicks, wire), Backed(busy, wire), NEW n \in DOMAIN wire, NEW op, Failed(n, op),
           NEW b \in SUBSET busy, wire[n].flag \notin b
    PROVE  WireOK(clicks, wire') /\ Backed(b, wire')
<1>1. CASE wire' = Without(n)
  BY <1>1, WithoutKeeps
<1>2. CASE wire' = [wire EXCEPT ![n].st = "lost"]
  <2>1. DEFINE q == [wire[n] EXCEPT !.st = "lost", !.ans = wire[n].ans]
  <2>2. RequestOK(wire[n])
    BY DEF WireOK
  <2>3. RequestOK(q)
    <3>1. "lost" # "done" /\ "lost" # "deleting"
      OBVIOUS
    <3>2. PICK r : r = wire[n]
      OBVIOUS
    <3>3. RequestOK(r) /\ q = [r EXCEPT !.st = "lost", !.ans = wire[n].ans]
      BY <2>2, <3>2
    <3>4. HIDE DEF q
    <3>5. QED
      BY <3>1, <3>3, Restamped
  <2>4. q = [wire[n] EXCEPT !.st = "lost"]
    BY <2>2 DEF RequestOK
  <2>5. wire' = [wire EXCEPT ![n] = q]
    BY <1>2, <2>4
  <2>6. HIDE DEF q
  <2>7. QED
    BY <2>3, <2>5, PutKeeps
<1>3. QED
  BY <1>1, <1>2 DEF Failed

LEMMA LoadsKeep ==
    ASSUME WireOK(clicks, wire), Backed(busy, wire), NEW n \in DOMAIN wire, LoadsAfter(n),
           NEW b \in SUBSET busy, wire[n].flag \notin b
    PROVE  WireOK(clicks, wire') /\ Backed(b, wire')
<1>1. DEFINE r == Request("load", None, None)
<1>2. RequestOK(r)
  BY LoadRequest
<1>3. wire' = [wire EXCEPT ![n] = r]
  BY DEF LoadsAfter
<1>4. HIDE DEF r
<1>5. QED
  BY <1>2, <1>3, PutKeeps

LEMMA NewRequest ==
    ASSUME WireOK(clicks, wire), Backed(busy, wire), NEW n \in Nat, n \notin DOMAIN wire, NEW k \in Nat,
           n <= k, clicks <= k, NEW r, RequestOK(r), r.st = "sent", NEW b, b \subseteq busy \cup {r.flag}
    PROVE  WireOK(k, With(n, r)) /\ Backed(b, With(n, r))
<1>1. DEFINE w == With(n, r)
<1>2. w = [m \in DOMAIN wire \cup {n} |-> IF m = n THEN r ELSE wire[m]]
  BY DEF With
<1>3. /\ DOMAIN w = DOMAIN wire \cup {n} /\ w[n] = r /\ \A m \in DOMAIN wire : w[m] = wire[m]
      /\ w = [m \in DOMAIN w |-> w[m]]
  BY <1>2
<1>4. HIDE DEF w
<1>5. DOMAIN w \subseteq 0..k
  <2>1. DOMAIN wire \subseteq 0..clicks /\ clicks \in Nat
    BY DEF WireOK
  <2>2. 0..clicks \subseteq 0..k /\ n \in 0..k
    BY <2>1
  <2>3. QED
    BY <1>3, <2>1, <2>2
<1>6. WireOK(k, w)
  BY <1>3, <1>5 DEF WireOK
<1>7. Backed(b, w)
  BY <1>3 DEF Backed
<1>8. QED
  BY <1>6, <1>7 DEF w

(* What each handler of the page leaves of what it shows. *)
LEMMA LoadsShown ==
    ASSUME IInv, ShownInv, LoadServed \/ OverviewLoaded \/ LoadAgain
    PROVE  ShownInv'
<1>1. /\ overview \in Overviews /\ DialogInv /\ WireOK(clicks, wire) /\ None \notin busy /\ Backed(busy, wire)
      /\ clicks \in Nat
  BY DEF ShownInv, WireOK
<1>2. CASE LoadServed
  <2>1. UNCHANGED <<overview, accountDialog, busy, clicks>>
    BY <1>2 DEF LoadServed, shown
  <2>2. PICK n \in DOMAIN wire : Progress(n, "done", accounts)
    BY <1>2 DEF LoadServed, Answered
  <2>3. accounts \in Overviews
    BY DEF IInv, CheckInv, CheckTypes, Overviews
  <2>4. WireOK(clicks, wire') /\ Backed(busy, wire')
    BY <1>1, <2>2, <2>3, ProgressKeeps
  <2>5. QED
    BY <1>1, <2>1, <2>4 DEF ShownInv, DialogInv
<1>3. CASE OverviewLoaded
  <2>1. UNCHANGED <<accountDialog, clicks>> /\ busy' = busy \ {"traffic.loading"}
    BY <1>3 DEF OverviewLoaded
  <2>2. PICK n \in DOMAIN wire :
          /\ wire[n].op = "load"
          /\ \/ wire[n].st = "done" /\ overview' = wire[n].ans /\ wire' = Without(n)
             \/ Failed(n, "load") /\ UNCHANGED overview
    BY <1>3 DEF OverviewLoaded, Succeeded, Failed
  <2>3. wire[n].flag \in {None, "traffic.loading"} /\ (wire[n].st = "done" => wire[n].ans \in Overviews)
    BY <1>1, <2>2 DEF WireOK, RequestOK, FlagOK, AnswerOK
  <2>4. wire[n].flag \notin busy' /\ busy' \subseteq busy /\ None \notin busy'
    BY <1>1, <2>1, <2>3
  <2>5. PICK b \in SUBSET busy : b = busy'
    BY <2>4
  <2>6. WireOK(clicks, wire') /\ Backed(b, wire')
    BY <1>1, <2>2, <2>4, <2>5, WithoutKeeps, FailedKeeps
  <2>7. overview' \in Overviews
    BY <1>1, <2>2, <2>3
  <2>8. QED
    BY <1>1, <2>1, <2>4, <2>5, <2>6, <2>7 DEF ShownInv, DialogInv
<1>4. CASE LoadAgain
  <2>1. /\ UNCHANGED <<overview, accountDialog, busy, clicks>>
        /\ 0 \notin DOMAIN wire /\ wire' = With(0, Request("load", None, None))
    BY <1>4 DEF LoadAgain, shown
  <2>2. DEFINE r == Request("load", None, None)
  <2>3. RequestOK(r) /\ r.st = "sent"
    BY LoadRequest
  <2>4. wire' = With(0, r)
    BY <2>1
  <2>5. HIDE DEF r
  <2>6. WireOK(clicks, With(0, r)) /\ Backed(busy, With(0, r))
    BY <1>1, <2>1, <2>3, NewRequest
  <2>7. QED
    BY <1>1, <2>1, <2>4, <2>6 DEF ShownInv, DialogInv
<1>5. QED
  BY <1>2, <1>3, <1>4

LEMMA SendsShown ==
    ASSUME ShownInv, UNCHANGED shown, NEW op, NEW arg, NEW flag, Sends(op, arg, flag),
           AskedOK(Request(op, arg, flag)), FlagOK(Request(op, arg, flag))
    PROVE  ShownInv'
<1>1. /\ overview \in Overviews /\ DialogInv /\ WireOK(clicks, wire) /\ None \notin busy /\ Backed(busy, wire)
      /\ clicks \in Nat /\ DOMAIN wire \subseteq 0..clicks
  BY DEF ShownInv, WireOK
<1>2. /\ clicks' = clicks + 1 /\ wire' = With(clicks', Request(op, arg, flag))
      /\ busy' = busy \cup ({flag} \ {None}) /\ UNCHANGED <<overview, accountDialog>>
  BY DEF Sends, shown
<1>3. DEFINE r == Request(op, arg, flag)
<1>4. RequestOK(r) /\ r.flag = flag /\ r.st = "sent"
  BY FreshRequest
<1>5. HIDE DEF r
<1>6. PICK k \in Nat : k = clicks + 1
  BY <1>1
<1>7. PICK b : b = busy \cup ({flag} \ {None})
  OBVIOUS
<1>8. k \notin DOMAIN wire /\ k <= k /\ clicks <= k /\ b \subseteq busy \cup {r.flag} /\ None \notin b
  BY <1>1, <1>4, <1>6, <1>7
<1>9. WireOK(k, With(k, r)) /\ Backed(b, With(k, r))
  BY <1>1, <1>4, <1>8, NewRequest
<1>10. clicks' = k /\ busy' = b /\ wire' = With(k, r)
  BY <1>2, <1>6, <1>7 DEF r
<1>11. QED
  BY <1>1, <1>2, <1>8, <1>9, <1>10 DEF ShownInv, DialogInv

LEMMA ClicksShown ==
    ASSUME ShownInv, AccountSave \/ AccountDelete \/ ChannelSave \/ TestNotify
    PROVE  ShownInv'
<1>1. DialogInv
  BY DEF ShownInv
<1>2. UNCHANGED shown
  BY DEF AccountSave, AccountDelete, ChannelSave, TestNotify
<1>3. CASE AccountSave
  <2>1. PICK f \in Account :
          IF accountDialog.editing = None THEN Sends("createAccount", f, "account.saving")
          ELSE Sends("updateAccount", [id |-> accountDialog.editing, row |-> f], "account.saving")
    BY <1>3 DEF AccountSave
  <2>2. CASE accountDialog.editing = None
    <3>1. Sends("createAccount", f, "account.saving")
      BY <2>1, <2>2
    <3>2. /\ AskedOK(Request("createAccount", f, "account.saving"))
          /\ FlagOK(Request("createAccount", f, "account.saving"))
      BY DEF Request, AskedOK, FlagOK
    <3>3. QED
      BY <1>2, <3>1, <3>2, SendsShown
  <2>3. CASE accountDialog.editing # None
    <3>1. PICK p \in Accounts : p = accountDialog.editing
      BY <1>1, <2>3 DEF DialogInv
    <3>2. Sends("updateAccount", [id |-> p, row |-> f], "account.saving")
      BY <2>1, <2>3, <3>1
    <3>3. /\ AskedOK(Request("updateAccount", [id |-> p, row |-> f], "account.saving"))
          /\ FlagOK(Request("updateAccount", [id |-> p, row |-> f], "account.saving"))
      BY DEF Request, AskedOK, FlagOK
    <3>4. QED
      BY <1>2, <3>2, <3>3, SendsShown
  <2>4. QED
    BY <2>2, <2>3
<1>4. CASE AccountDelete
  <2>1. PICK p \in Accounts : p = accountDialog.editing
    BY <1>1, <1>4 DEF DialogInv, AccountDelete
  <2>2. Sends("deleteAccount", p, None)
    BY <1>4, <2>1 DEF AccountDelete
  <2>3. AskedOK(Request("deleteAccount", p, None)) /\ FlagOK(Request("deleteAccount", p, None))
    BY DEF Request, AskedOK, FlagOK
  <2>4. QED
    BY <1>2, <2>2, <2>3, SendsShown
<1>5. CASE ChannelSave
  <2>1. PICK c \in Channels : Sends("putChannel", c, None)
    BY <1>5 DEF ChannelSave, Channels
  <2>2. AskedOK(Request("putChannel", c, None)) /\ FlagOK(Request("putChannel", c, None))
    BY DEF Request, AskedOK, FlagOK
  <2>3. QED
    BY <1>2, <2>1, <2>2, SendsShown
<1>6. CASE TestNotify
  <2>1. Sends("testNotify", None, "notify.testing")
    BY <1>6 DEF TestNotify
  <2>2. /\ AskedOK(Request("testNotify", None, "notify.testing"))
        /\ FlagOK(Request("testNotify", None, "notify.testing"))
    BY DEF Request, AskedOK, FlagOK
  <2>3. QED
    BY <1>2, <2>1, <2>2, SendsShown
<1>7. QED
  BY <1>3, <1>4, <1>5, <1>6

LEMMA AnswersShown ==
    ASSUME ShownInv, AccountSaved \/ AccountDeleted \/ ChannelSaved \/ NotifyTested
    PROVE  ShownInv'
<1>1. /\ overview \in Overviews /\ DialogInv /\ WireOK(clicks, wire) /\ None \notin busy /\ Backed(busy, wire)
  BY DEF ShownInv
<1>2. UNCHANGED <<overview, clicks>>
  BY DEF AccountSaved, AccountDeleted, ChannelSaved, NotifyTested, shown
<1>3. PICK n \in DOMAIN wire :
        /\ LoadsAfter(n) \/ wire' = Without(n) \/ (\E op : Failed(n, op))
        /\ \/ /\ wire[n].op \in {"createAccount", "updateAccount"} /\ busy' = busy \ {"account.saving"}
              /\ accountDialog' \in {accountDialog, AccountDialogClosed}
           \/ /\ wire[n].op = "deleteAccount" /\ busy' = busy
              /\ accountDialog' \in {accountDialog, AccountDialogClosed}
           \/ /\ wire[n].op = "putChannel" /\ busy' = busy /\ accountDialog' = accountDialog
           \/ /\ wire[n].op = "testNotify" /\ busy' = busy \ {"notify.testing"} /\ accountDialog' = accountDialog
  <2>1. CASE AccountSaved
    <3>1. PICK n \in DOMAIN wire, op \in {"createAccount", "updateAccount"} :
            \/ Succeeded(n, op) /\ ClosesAndLoads(n)
            \/ Failed(n, op) /\ UNCHANGED accountDialog
      BY <2>1 DEF AccountSaved
    <3>2. /\ LoadsAfter(n) \/ wire' = Without(n) \/ (\E o : Failed(n, o))
          /\ accountDialog' \in {accountDialog, AccountDialogClosed}
      BY <3>1 DEF ClosesAndLoads
    <3>3. wire[n].op \in {"createAccount", "updateAccount"}
      BY <3>1 DEF Succeeded, Failed
    <3>4. busy' = busy \ {"account.saving"}
      BY <2>1 DEF AccountSaved
    <3>5. QED
      BY <3>2, <3>3, <3>4
  <2>2. CASE AccountDeleted
    <3>1. PICK n \in DOMAIN wire : \/ Succeeded(n, "deleteAccount") /\ ClosesAndLoads(n)
                                   \/ Failed(n, "deleteAccount") /\ UNCHANGED accountDialog
      BY <2>2 DEF AccountDeleted
    <3>2. /\ LoadsAfter(n) \/ wire' = Without(n) \/ (\E o : Failed(n, o))
          /\ accountDialog' \in {accountDialog, AccountDialogClosed}
      BY <3>1 DEF ClosesAndLoads
    <3>3. wire[n].op = "deleteAccount" /\ busy' = busy
      BY <2>2, <3>1 DEF Succeeded, Failed, AccountDeleted
    <3>4. QED
      BY <3>2, <3>3
  <2>3. CASE ChannelSaved
    <3>1. PICK n \in DOMAIN wire : (Succeeded(n, "putChannel") /\ LoadsAfter(n)) \/ Failed(n, "putChannel")
      BY <2>3 DEF ChannelSaved
    <3>2. LoadsAfter(n) \/ wire' = Without(n) \/ (\E o : Failed(n, o))
      BY <3>1
    <3>3. wire[n].op = "putChannel" /\ busy' = busy /\ accountDialog' = accountDialog
      BY <2>3, <3>1 DEF Succeeded, Failed, ChannelSaved, shown
    <3>4. QED
      BY <3>2, <3>3
  <2>4. CASE NotifyTested
    <3>1. PICK n \in DOMAIN wire :
            (Succeeded(n, "testNotify") /\ wire' = Without(n)) \/ Failed(n, "testNotify")
      BY <2>4 DEF NotifyTested
    <3>2. LoadsAfter(n) \/ wire' = Without(n) \/ (\E o : Failed(n, o))
      BY <3>1
    <3>3. wire[n].op = "testNotify" /\ busy' = busy \ {"notify.testing"} /\ accountDialog' = accountDialog
      BY <2>4, <3>1 DEF Succeeded, Failed, NotifyTested, shown
    <3>4. QED
      BY <3>2, <3>3
  <2>5. QED
    BY <2>1, <2>2, <2>3, <2>4
<1>4. FlagOK(wire[n])
  BY <1>1 DEF WireOK, RequestOK
<1>5. wire[n].flag \notin busy' /\ busy' \subseteq busy
  BY <1>1, <1>3, <1>4 DEF FlagOK
<1>6. PICK b \in SUBSET busy : b = busy'
  BY <1>5
<1>7. WireOK(clicks, wire') /\ Backed(b, wire')
  <2>1. CASE LoadsAfter(n)
    BY <1>1, <1>5, <1>6, <2>1, LoadsKeep
  <2>2. CASE wire' = Without(n)
    BY <1>1, <1>5, <1>6, <2>2, WithoutKeeps
  <2>3. CASE \E op : Failed(n, op)
    BY <1>1, <1>5, <1>6, <2>3, FailedKeeps
  <2>4. QED
    BY <1>3, <2>1, <2>2, <2>3
<1>8. DialogInv'
  BY <1>1, <1>3 DEF DialogInv, AccountDialogClosed
<1>9. QED
  BY <1>1, <1>2, <1>5, <1>6, <1>7, <1>8 DEF ShownInv

(* The service answers: its tables change as Traffic says. *)
LEMMA ChangesShown ==
    ASSUME ShownInv, ChangeServed
    PROVE  ShownInv' /\ [TrafficNext]_trafficVars
<1>1. /\ overview \in Overviews /\ DialogInv /\ WireOK(clicks, wire) /\ None \notin busy /\ Backed(busy, wire)
  BY DEF ShownInv
<1>2. UNCHANGED <<overview, accountDialog, busy, clicks>>
  BY DEF ChangeServed, shown
<1>3. PICK n \in DOMAIN wire :
          \/ /\ Unserved(n, "createAccount") /\ Answered(n, "ok")
             /\ \E p \in Accounts : CreateProvider(p, wire[n].arg)
          \/ /\ Unserved(n, "updateAccount") /\ Answered(n, "ok")
             /\ UpdateProvider(wire[n].arg.id, wire[n].arg.row)
          \/ Unserved(n, "deleteAccount") /\ Progress(n, "deleting", None) /\ DeleteAlerts(wire[n].arg)
          \/ Unserved(n, "putChannel") /\ Answered(n, "ok") /\ UpdateChannel(wire[n].arg)
          \/ Unserved(n, "testNotify") /\ Answered(n, "ok") /\ UNCHANGED trafficVars
  BY DEF ChangeServed
<1>4. AskedOK(wire[n])
  BY <1>1 DEF WireOK, RequestOK
<1>5. \/ Progress(n, "deleting", None) /\ wire[n].op = "deleteAccount"
      \/ Progress(n, "done", "ok") /\ wire[n].op # "load"
  BY <1>3 DEF Unserved, Answered
<1>6. WireOK(clicks, wire') /\ Backed(busy, wire')
  BY <1>1, <1>5, ProgressKeeps
<1>7. ShownInv'
  BY <1>1, <1>2, <1>6 DEF ShownInv, DialogInv
<1>8. [TrafficNext]_trafficVars
  <2>1. CASE wire[n].op = "createAccount" /\ \E p \in Accounts : CreateProvider(p, wire[n].arg)
    BY <1>4, <2>1 DEF AskedOK, TrafficNext
  <2>2. CASE wire[n].op = "updateAccount" /\ UpdateProvider(wire[n].arg.id, wire[n].arg.row)
    BY <1>4, <2>2 DEF AskedOK, TrafficNext
  <2>3. CASE wire[n].op = "deleteAccount" /\ DeleteAlerts(wire[n].arg)
    BY <1>4, <2>3 DEF AskedOK, TrafficNext
  <2>4. CASE wire[n].op = "putChannel" /\ UpdateChannel(wire[n].arg)
    BY <1>4, <2>4 DEF AskedOK, TrafficNext, Channels
  <2>5. CASE UNCHANGED trafficVars
    BY <2>5
  <2>6. QED
    BY <1>3, <2>1, <2>2, <2>3, <2>4, <2>5 DEF Unserved
<1>9. QED
  BY <1>7, <1>8

LEMMA DeletionShown ==
    ASSUME ShownInv, DeletionServed
    PROVE  ShownInv' /\ [TrafficNext]_trafficVars
<1>1. /\ overview \in Overviews /\ DialogInv /\ WireOK(clicks, wire) /\ None \notin busy /\ Backed(busy, wire)
  BY DEF ShownInv
<1>2. UNCHANGED <<overview, accountDialog, busy, clicks>>
  BY DEF DeletionServed, shown
<1>3. PICK p \in Accounts :
        /\ DeleteRow(p)
        /\ UNCHANGED wire \/ \E n \in DOMAIN wire : wire[n].st = "deleting" /\ Answered(n, "ok")
  BY DEF DeletionServed
<1>4. WireOK(clicks, wire') /\ Backed(busy, wire')
  <2>1. CASE UNCHANGED wire
    BY <1>1, <2>1
  <2>2. CASE \E n \in DOMAIN wire : wire[n].st = "deleting" /\ Answered(n, "ok")
    <3>1. PICK n \in DOMAIN wire : wire[n].st = "deleting" /\ Progress(n, "done", "ok")
      BY <2>2 DEF Answered
    <3>2. wire[n].op # "load"
      BY <1>1, <3>1 DEF WireOK, RequestOK, AnswerOK
    <3>3. QED
      BY <1>1, <3>1, <3>2, ProgressKeeps
  <2>3. QED
    BY <1>3, <2>1, <2>2
<1>5. QED
  BY <1>1, <1>2, <1>3, <1>4 DEF ShownInv, DialogInv, TrafficNext

LEMMA DialogShown ==
    ASSUME ShownInv, AddOrEditAccount \/ AccountCancelled
    PROVE  ShownInv'
<1>1. UNCHANGED <<overview, busy, wire, clicks>>
  BY DEF AddOrEditAccount, AccountCancelled
<1>2. DialogInv'
  BY DEF AddOrEditAccount, AccountCancelled, AccountDialogClosed, DialogInv
<1>3. QED
  BY <1>1, <1>2 DEF ShownInv

(* The page as it opens. *)
LEMMA PageOpens ==
    /\ NoOverview \in Overviews
    /\ DOMAIN AccountDialogClosed = {"open", "editing"} /\ AccountDialogClosed.editing = None
    /\ None \notin {"traffic.loading"}
    /\ \A k \in Nat : WireOK(k, FirstLoad)
    /\ Backed({"traffic.loading"}, FirstLoad)
    /\ {FirstLoad[n].flag : n \in DOMAIN FirstLoad} = {"traffic.loading"}
<1>1. DEFINE r == Request("load", None, "traffic.loading")
<1>2. RequestOK(r) /\ r.flag = "traffic.loading" /\ r.st = "sent"
  BY LoadRequest
<1>3. FirstLoad = [n \in {0} |-> r]
  BY DEF FirstLoad
<1>4. HIDE DEF r
<1>5. DOMAIN FirstLoad = {0} /\ FirstLoad[0] = r /\ FirstLoad = [n \in DOMAIN FirstLoad |-> FirstLoad[n]]
  BY <1>3
<1>6. \A k \in Nat : WireOK(k, FirstLoad)
  BY <1>2, <1>5 DEF WireOK
<1>7. Backed({"traffic.loading"}, FirstLoad)
  BY <1>2, <1>5 DEF Backed
<1>8. None \notin {"traffic.loading"}
  BY TrafficPageAssumption DEF Flags
<1>9. {FirstLoad[n].flag : n \in DOMAIN FirstLoad} = {"traffic.loading"}
  BY <1>2, <1>5
<1>10. QED
  BY <1>6, <1>7, <1>8, <1>9 DEF NoOverview, Overviews, AccountDialogClosed

LEMMA ReopenShown ==
    ASSUME ShownInv, PageReopened
    PROVE  ShownInv'
<1>1. /\ wire' = FirstLoad /\ busy' = {"traffic.loading"} /\ clicks' = clicks
      /\ overview' = NoOverview /\ accountDialog' = AccountDialogClosed
  BY DEF PageReopened
<1>2. clicks \in Nat
  BY DEF ShownInv, WireOK
<1>3. QED
  BY <1>1, <1>2, PageOpens DEF ShownInv, DialogInv

(* Whatever the page does, the service takes a step of Traffic or none.    *)
LEMMA ServiceSteps ==
    ASSUME ShownInv, TrafficStep
    PROVE  [TrafficNext]_trafficVars
<1>1. CASE CountingNext
  BY <1>1 DEF CountingNext, TrafficNext
<1>2. CASE CheckNext \/ Restart
  BY <1>2 DEF TrafficNext, LoopNext
<1>3. CASE ChangeServed \/ DeletionServed
  BY <1>3, ChangesShown, DeletionShown
<1>4. CASE \/ LoadServed \/ OverviewLoaded \/ LoadAgain \/ AddOrEditAccount \/ AccountCancelled
           \/ AccountSave \/ AccountSaved \/ AccountDelete \/ AccountDeleted
           \/ ChannelSave \/ ChannelSaved \/ TestNotify \/ NotifyTested
  <2>1. UNCHANGED trafficVars
    BY <1>4 DEF LoadServed, OverviewLoaded, LoadAgain, AddOrEditAccount, AccountCancelled,
                AccountSave, AccountSaved, AccountDelete, AccountDeleted, ChannelSave, ChannelSaved,
                TestNotify, NotifyTested
  <2>2. QED
    BY <2>1
<1>5. QED
  BY <1>1, <1>2, <1>3, <1>4 DEF TrafficStep, TrafficPageNext

LEMMA PageShown ==
    ASSUME IInv, ShownInv, TrafficStep
    PROVE  ShownInv'
<1>1. UNCHANGED clientVars => ShownInv'
  BY DEF clientVars, shown, ShownInv, DialogInv
<1>2. CASE CountingNext \/ (CheckNext /\ UNCHANGED clientVars)
  BY <1>1, <1>2 DEF CountingNext
<1>3. CASE Restart /\ PageReopened
  BY <1>3, ReopenShown
<1>4. CASE LoadServed \/ OverviewLoaded \/ LoadAgain
  BY <1>4, LoadsShown
<1>5. CASE ChangeServed \/ DeletionServed
  BY <1>5, ChangesShown, DeletionShown
<1>6. CASE AddOrEditAccount \/ AccountCancelled
  BY <1>6, DialogShown
<1>7. CASE AccountSave \/ AccountDelete \/ ChannelSave \/ TestNotify
  BY <1>7, ClicksShown
<1>8. CASE AccountSaved \/ AccountDeleted \/ ChannelSaved \/ NotifyTested
  BY <1>8, AnswersShown
<1>9. QED
  BY <1>2, <1>3, <1>4, <1>5, <1>6, <1>7, <1>8 DEF TrafficStep, TrafficPageNext

LEMMA TrafficPageStep ==
    ASSUME TrafficPageInv, TrafficStep
    PROVE  TrafficPageInv'
<1>1. IInv /\ ShownInv
  BY DEF TrafficPageInv
<1>2. IInv'
  BY <1>1, ServiceSteps, StepHolds
<1>3. QED
  BY <1>1, <1>2, PageShown DEF TrafficPageInv

LEMMA TrafficPageStarts ==
    ASSUME NEW which, TrafficPageInit(which)
    PROVE  TrafficPageInv
<1>1. IInv
  BY InitHolds DEF TrafficPageInit
<1>2. /\ overview = NoOverview /\ accountDialog = AccountDialogClosed /\ clicks = 0
      /\ busy = {wire[n].flag : n \in DOMAIN wire}
  BY DEF TrafficPageInit
<1>3. CASE wire = FirstLoad
  <2>1. busy = {"traffic.loading"}
    BY <1>2, <1>3, PageOpens
  <2>2. QED
    BY <1>1, <1>2, <1>3, <2>1, PageOpens DEF TrafficPageInv, ShownInv, DialogInv
<1>4. CASE wire = << >>
  <2>1. DOMAIN wire = {} /\ wire = [n \in DOMAIN wire |-> wire[n]]
    BY <1>4
  <2>2. busy = {} /\ WireOK(clicks, wire) /\ Backed(busy, wire)
    BY <1>2, <2>1 DEF WireOK, Backed
  <2>3. QED
    BY <1>1, <1>2, <2>2, PageOpens DEF TrafficPageInv, ShownInv, DialogInv
<1>5. QED
  BY <1>3, <1>4 DEF TrafficPageInit

-----------------------------------------------------------------------------
(* The keys of the proxies table (lib/node-inventory.ts). *)

(* Induction up to n, with the set of the numbers the statement holds of in *)
(* place of a predicate.                                                   *)
LEMMA UpTo ==
    ASSUME NEW n \in Nat, NEW Good, 0 \in Good, \A k \in 0..n : k < n /\ k \in Good => k + 1 \in Good
    PROVE  \A k \in 0..n : k \in Good
<1>1. DEFINE Bad == {k \in 0..n : k \notin Good}
<1>2. SUFFICES ASSUME Bad # {} PROVE FALSE
  OBVIOUS
<1>3. Bad \subseteq Nat
  OBVIOUS
<1>4. PICK k \in Bad : \A m \in Bad : ~ (<<m, k>> \in OpToRel(<, Nat))
  <2>1. IsWellFoundedOn(OpToRel(<, Nat), Nat)
    BY NatLessThanWellFounded
  <2>2. HIDE DEF Bad
  <2>3. QED
    BY <1>2, <1>3, <2>1, WFMin
<1>5. k \in 0..n /\ k \notin Good /\ k # 0
  OBVIOUS
<1>6. k - 1 \in 0..n /\ k - 1 < n /\ k - 1 < k /\ (k - 1) + 1 = k
  BY <1>5
<1>7. k - 1 \notin Good
  BY <1>5, <1>6
<1>8. <<k - 1, k>> \in OpToRel(<, Nat)
  BY <1>5, <1>6 DEF OpToRel
<1>9. QED
  BY <1>4, <1>6, <1>7, <1>8

LEMMA LargestIs ==
    ASSUME NEW n \in Nat, NEW s \in SUBSET (1..n), s # {}
    PROVE  /\ Max(s) \in s /\ \A x \in s : x <= Max(s)
           /\ s \ {Max(s)} \in SUBSET s /\ s \ {Max(s)} # s
<1>1. DEFINE Good == {k \in 0..n : \A t \in SUBSET (1..k) : t # {} => \E x \in t : \A y \in t : x >= y}
<1>2. 0 \in Good
  <2>1. 1..0 = {} /\ 0 \in 0..n
    OBVIOUS
  <2>2. QED
    BY <2>1
<1>3. ASSUME NEW k \in 0..n, k < n, k \in Good PROVE k + 1 \in Good
  <2>1. k + 1 \in 0..n
    BY <1>3
  <2>2. SUFFICES ASSUME NEW t \in SUBSET (1..(k + 1)), t # {} PROVE \E x \in t : \A y \in t : x >= y
    BY <2>1
  <2>3. CASE k + 1 \in t
    BY <2>3
  <2>4. CASE k + 1 \notin t
    <3>1. t \in SUBSET (1..k)
      BY <2>4
    <3>2. QED
      BY <1>3, <2>2, <3>1
  <2>5. QED
    BY <2>3, <2>4
<1>4. HIDE DEF Good
<1>5. n \in Good
  BY <1>2, <1>3, UpTo
<1>6. \E x \in s : \A y \in s : x >= y
  BY <1>5 DEF Good
<1>7. Max(s) \in s /\ \A y \in s : Max(s) >= y
  BY <1>6 DEF Max
<1>8. QED
  BY <1>7

LEMMA SmallestIs ==
    ASSUME NEW s \in SUBSET Nat, s # {}
    PROVE  \E x \in s : \A y \in s : x <= y
<1>1. IsWellFoundedOn(OpToRel(<, Nat), Nat)
  BY NatLessThanWellFounded
<1>2. PICK x \in s : \A y \in s : ~ (<<y, x>> \in OpToRel(<, Nat))
  BY <1>1, WFMin
<1>3. ASSUME NEW y \in s PROVE x <= y
  <2>1. x \in Nat /\ y \in Nat
    OBVIOUS
  <2>2. ~ (y < x)
    BY <1>2, <2>1 DEF OpToRel
  <2>3. QED
    BY <2>1, <2>2
<1>4. QED
  BY <1>3

(* There is always a suffix that nobody has. *)
LEMMA KeyIsFree ==
    ASSUME NEW key \in Seq(Nat), NEW used, IsFiniteSet(used)
    PROVE  UniqueKey(key, used) \notin used /\ UniqueKey(key, used) \in Seq(Nat)
<1>1. DEFINE c == Cardinality(used)
             S == 2..(c + 2)
             Free == {k \in S : Append(key, k) \notin used}
<1>2. c \in Nat
  BY FS_CardinalityType
<1>3. CASE key \notin used
  BY <1>3 DEF UniqueKey
<1>4. CASE key \in used
  <2>1. \A k \in S : k \in Nat /\ Append(key, k) \in Seq(Nat) /\ Append(key, k)[Len(key) + 1] = k
    BY <1>2
  <2>2. Free # {}
    <3>1. SUFFICES ASSUME Free = {} PROVE FALSE
      OBVIOUS
    <3>2. DEFINE f == [k \in S |-> Append(key, k)]
    <3>3. f \in [S -> used]
      BY <3>1
    <3>4. IsFiniteSet(S) /\ Cardinality(S) = c + 1
      <4>1. 2 \in Int /\ c + 2 \in Int /\ ~(2 > c + 2) /\ (c + 2) - 2 + 1 = c + 1
        BY <1>2
      <4>2. HIDE DEF c
      <4>3. QED
        BY <4>1, FS_Interval
    <3>5. c < Cardinality(S)
      BY <1>2, <3>4
    <3>6. PICK x, y \in S : x # y /\ f[x] = f[y]
      <4>1. HIDE DEF S, f
      <4>2. QED
        BY <3>3, <3>4, <3>5, FS_PigeonHole
    <3>7. Append(key, x) = Append(key, y)
      BY <3>6
    <3>8. QED
      BY <2>1, <3>6, <3>7
  <2>3. \E k \in Free : \A l \in Free : k <= l
    <3>1. Free \in SUBSET Nat
      BY <2>1
    <3>2. HIDE DEF Free
    <3>3. QED
      BY <2>2, <3>1, SmallestIs
  <2>4. PICK k \in Free : UniqueKey(key, used) = Append(key, k)
    BY <1>4, <2>3 DEF UniqueKey
  <2>5. QED
    BY <2>1, <2>4
<1>5. QED
  BY <1>3, <1>4

(* What FoldLeft makes of PushRow and a list q of rows. *)
Pushes(q, g, A) == g = [s \in SUBSET A |-> IF s = {} THEN <<>> ELSE PushRow(g[s \ {Max(s)}], q[Max(s)])]

LEMMA FoldIs ==
    ASSUME NEW q
    PROVE  FoldLeft(PushRow, <<>>, q) = (CHOOSE g : Pushes(q, g, DOMAIN q))[DOMAIN q]
BY DEF FoldLeft, MapThenFoldSet, Pushes

LEMMA UpToFinite ==
    ASSUME NEW n \in Nat, NEW s \in SUBSET (1..n)
    PROVE  IsFiniteSet(s)
<1>1. IsFiniteSet(1..n)
  BY FS_Interval
<1>2. QED
  BY <1>1, FS_Subset

LEMMA PushesAgree ==
    ASSUME NEW n \in Nat, NEW q, NEW A \in SUBSET (1..n), NEW B, A \in SUBSET B,
           NEW g, Pushes(q, g, A), NEW h, Pushes(q, h, B)
    PROVE  g[A] = h[A]
<1>1. DEFINE Good == {s \in SUBSET A : g[s] = h[s]}
<1>2. ASSUME NEW s \in SUBSET A, \A t \in SUBSET s : t # s => t \in Good
      PROVE  s \in Good
  <2>1. g[s] = IF s = {} THEN <<>> ELSE PushRow(g[s \ {Max(s)}], q[Max(s)])
    BY DEF Pushes
  <2>2. h[s] = IF s = {} THEN <<>> ELSE PushRow(h[s \ {Max(s)}], q[Max(s)])
    BY DEF Pushes
  <2>3. s # {} => g[s \ {Max(s)}] = h[s \ {Max(s)}]
    BY <1>2, LargestIs
  <2>4. QED
    BY <2>1, <2>2, <2>3
<1>3. HIDE DEF Good
<1>4. IsFiniteSet(A)
  BY UpToFinite
<1>5. \A s \in SUBSET A : s \in Good
  BY <1>2, <1>4, Subsets
<1>6. QED
  BY <1>5 DEF Good

LEMMA PushesSmaller ==
    ASSUME NEW n \in Nat, NEW q, NEW t \in SUBSET (1..n), NEW u \in SUBSET t,
           NEW h, Pushes(q, h, t), \E g : Pushes(q, g, u)
    PROVE  (CHOOSE g : Pushes(q, g, u))[u] = h[u]
<1>1. PICK k : k = CHOOSE g : Pushes(q, g, u)
  OBVIOUS
<1>2. Pushes(q, k, u)
  BY <1>1
<1>3. k[u] = h[u]
  BY <1>2, PushesAgree
<1>4. QED
  BY <1>1, <1>3

LEMMA PushesExist ==
    ASSUME NEW n \in Nat, NEW q
    PROVE  \E g : Pushes(q, g, 1..n)
<1>1. DEFINE A == 1..n
             Good == {s \in SUBSET A : \E g : Pushes(q, g, s)}
             To(s) == (CHOOSE h : Pushes(q, h, s))[s]
<1>2. ASSUME NEW s \in SUBSET A, \A t \in SUBSET s : t # s => t \in Good
      PROVE  s \in Good
  <2>1. DEFINE g == [t \in SUBSET s |-> IF t = {} THEN <<>> ELSE PushRow(To(t \ {Max(t)}), q[Max(t)])]
  <2>2. ASSUME NEW t \in SUBSET s, t # s
        PROVE  To(t) = g[t]
    <3>1. PICK h : h = CHOOSE k : Pushes(q, k, t)
      OBVIOUS
    <3>2. Pushes(q, h, t) /\ To(t) = h[t]
      BY <1>2, <2>2, <3>1
    <3>3. h[t] = IF t = {} THEN <<>> ELSE PushRow(h[t \ {Max(t)}], q[Max(t)])
      BY <3>2 DEF Pushes
    <3>4. ASSUME t # {} PROVE To(t \ {Max(t)}) = h[t \ {Max(t)}]
      <4>1. DEFINE u == t \ {Max(t)}
      <4>2. t \in SUBSET (1..n)
        BY <1>2, <2>2
      <4>3. u \in SUBSET t /\ u \in SUBSET s /\ u # s /\ u \in SUBSET (1..n)
        BY <2>2, <3>4, <4>2, LargestIs
      <4>4. \E f : Pushes(q, f, u)
        BY <1>2, <4>3
      <4>5. (CHOOSE f : Pushes(q, f, u))[u] = h[u]
        <5>1. HIDE DEF u
        <5>2. QED
          BY <3>2, <4>2, <4>3, <4>4, PushesSmaller
      <4>6. QED
        BY <4>5
    <3>5. QED
      BY <3>2, <3>3, <3>4
  <2>3. ASSUME NEW t \in SUBSET s, t # {}
        PROVE  To(t \ {Max(t)}) = g[t \ {Max(t)}]
    <3>1. t \in SUBSET (1..n)
      BY <1>2, <2>3
    <3>2. t \ {Max(t)} \in SUBSET s /\ t \ {Max(t)} # s
      BY <2>3, <3>1, LargestIs
    <3>3. HIDE DEF g, To
    <3>4. QED
      BY <2>2, <3>2
  <2>4. Pushes(q, g, s)
    <3>1. g = [t \in SUBSET s |-> IF t = {} THEN <<>> ELSE PushRow(To(t \ {Max(t)}), q[Max(t)])]
      OBVIOUS
    <3>2. HIDE DEF g, To
    <3>3. QED
      BY <2>3, <3>1 DEF Pushes
  <2>5. QED
    BY <2>4
<1>3. IsFiniteSet(A)
  BY FS_Interval
<1>4. HIDE DEF Good, A
<1>5. \A s \in SUBSET A : s \in Good
  <2>1. \A s \in SUBSET A : (\A t \in SUBSET s : t # s => t \in Good) => s \in Good
    BY <1>2
  <2>2. QED
    BY <1>3, <2>1, Subsets
<1>6. QED
  BY <1>5 DEF Good, A

(* The table as it grows: a row per row, each with a key of its own. *)
RowsOf(N) == [key : Seq(Nat), kind : {"static", "provider"}, name : N, source : N, readOnly : BOOLEAN]

(* Only the key of a row changes. *)
Keyed(r, row) == \E key : r = [row EXCEPT !.key = key]

KeysDiffer(t) == \A i, j \in 1..Len(t) : t[i].key = t[j].key => i = j

LEMMA PushKeeps ==
    ASSUME NEW N, NEW acc \in Seq(RowsOf(N)), NEW row \in RowsOf(N), KeysDiffer(acc)
    PROVE  /\ PushRow(acc, row) \in Seq(RowsOf(N)) /\ KeysDiffer(PushRow(acc, row))
           /\ Len(PushRow(acc, row)) = Len(acc) + 1
           /\ \A i \in 1..Len(acc) : PushRow(acc, row)[i] = acc[i]
           /\ Keyed(PushRow(acc, row)[Len(acc) + 1], row)
<1>1. DEFINE n == Len(acc)
             used == KeysOf(acc)
             k == UniqueKey(row.key, used)
             new == [row EXCEPT !.key = k]
             t == PushRow(acc, row)
<1>2. n \in Nat /\ \A i \in 1..n : acc[i] \in RowsOf(N)
  OBVIOUS
<1>3. IsFiniteSet(used)
  <2>1. DEFINE f == [i \in 1..n |-> acc[i].key]
  <2>2. f \in Surjection(1..n, used)
    BY DEF Surjection, KeysOf
  <2>3. IsFiniteSet(1..n)
    BY <1>2, FS_Interval
  <2>4. HIDE DEF f, n, used
  <2>5. QED
    BY <2>2, <2>3, FS_Surjection
<1>4. row.key \in Seq(Nat)
  BY DEF RowsOf
<1>5. k \notin used /\ k \in Seq(Nat)
  <2>1. HIDE DEF used
  <2>2. QED
    BY <1>3, <1>4, KeyIsFree
<1>6. new \in RowsOf(N) /\ new.key = k
  <2>1. HIDE DEF k
  <2>2. QED
    BY <1>5 DEF RowsOf
<1>7. t = Append(acc, new)
  BY DEF PushRow
<1>8. HIDE DEF k, new, t
<1>9. /\ t \in Seq(RowsOf(N)) /\ Len(t) = n + 1
      /\ (\A i \in 1..n : t[i] = acc[i]) /\ t[n + 1] = new
  BY <1>6, <1>7
<1>10. \A i \in 1..n : acc[i].key \in used
  BY DEF KeysOf
<1>11. KeysDiffer(t)
  <2>1. SUFFICES ASSUME NEW i \in 1..(n + 1), NEW j \in 1..(n + 1), t[i].key = t[j].key PROVE i = j
    BY <1>9 DEF KeysDiffer
  <2>2. (i \in 1..n \/ i = n + 1) /\ (j \in 1..n \/ j = n + 1)
    BY <1>2
  <2>3. HIDE DEF n, used
  <2>4. CASE i \in 1..n /\ j \in 1..n
    BY <1>9, <2>1, <2>4 DEF KeysDiffer, n
  <2>5. CASE i \in 1..n /\ j = n + 1
    BY <1>5, <1>6, <1>9, <1>10, <2>1, <2>5
  <2>6. CASE i = n + 1 /\ j \in 1..n
    BY <1>5, <1>6, <1>9, <1>10, <2>1, <2>6
  <2>7. QED
    BY <2>2, <2>4, <2>5, <2>6
<1>12. Keyed(new, row)
  BY DEF new, Keyed
<1>13. QED
  BY <1>9, <1>11, <1>12 DEF new, t

(* The table after k rows: what push() made of each, in their order.       *)
Table(t, q, k, R) == t \in Seq(R) /\ Len(t) = k /\ KeysDiffer(t) /\ \A i \in 1..k : Keyed(t[i], q[i])

LEMMA FoldKeeps ==
    ASSUME NEW N, NEW q \in Seq(RowsOf(N))
    PROVE  Table(FoldLeft(PushRow, <<>>, q), q, Len(q), RowsOf(N))
<1>1. DEFINE n == Len(q)
             R == RowsOf(N)
<1>2. n \in Nat /\ DOMAIN q = 1..n /\ \A i \in 1..n : q[i] \in R
  OBVIOUS
<1>3. PICK g : g = CHOOSE f : Pushes(q, f, 1..n)
  OBVIOUS
<1>4. Pushes(q, g, 1..n)
  <2>1. \E h : Pushes(q, h, 1..n)
    BY <1>2, PushesExist
  <2>2. QED
    BY <1>3, <2>1
<1>5. DEFINE Good == {k \in 0..n : Table(g[1..k], q, k, R)}
<1>6. 0 \in Good
  <2>1. 1..0 = {} /\ 0 \in 0..n
    BY <1>2
  <2>2. g[1..0] = <<>>
    BY <1>2, <1>4, <2>1 DEF Pushes
  <2>3. Table(<<>>, q, 0, R)
    BY <2>1 DEF Table, KeysDiffer
  <2>4. QED
    BY <2>1, <2>2, <2>3
<1>7. ASSUME NEW k \in 0..n, k < n, k \in Good PROVE k + 1 \in Good
  <2>1. DEFINE s == 1..(k + 1)
               acc == g[1..k]
               t == PushRow(acc, q[k + 1])
  <2>2. k + 1 \in 0..n /\ k + 1 \in 1..n /\ k \in Nat /\ s \in SUBSET (1..n) /\ s # {}
    <3>1. n \in Nat /\ k \in 0..n /\ k < n
      BY <1>2, <1>7
    <3>2. HIDE DEF n
    <3>3. k \in Nat /\ k + 1 \in 0..n /\ k + 1 \in 1..n
      BY <3>1
    <3>4. k + 1 \in s /\ \A x \in s : x \in 1..n
      BY <3>1, <3>3
    <3>5. QED
      BY <3>3, <3>4
  <2>3. Max(s) = k + 1
    <3>1. Max(s) \in s /\ \A x \in s : x <= Max(s)
      BY <1>2, <2>2, LargestIs
    <3>2. k + 1 \in s
      BY <2>2
    <3>3. QED
      BY <2>2, <3>1, <3>2
  <2>4. s \ {k + 1} = 1..k
    BY <2>2
  <2>5. g[s] = t
    <3>1. g[s] = PushRow(g[s \ {Max(s)}], q[Max(s)])
      BY <1>4, <2>2 DEF Pushes
    <3>2. QED
      BY <2>3, <2>4, <3>1
  <2>6. Table(acc, q, k, R)
    BY <1>7
  <2>7. q[k + 1] \in R
    BY <1>2, <2>2
  <2>8. acc \in Seq(R) /\ Len(acc) = k /\ KeysDiffer(acc) /\ \A i \in 1..k : Keyed(acc[i], q[i])
    BY <2>6 DEF Table
  <2>9. PICK a : a = acc
    OBVIOUS
  <2>10. /\ t \in Seq(R) /\ KeysDiffer(t) /\ Len(t) = k + 1
         /\ \A i \in 1..k : t[i] = a[i]
         /\ Keyed(t[k + 1], q[k + 1])
    <3>1. t = PushRow(a, q[k + 1]) /\ a \in Seq(R) /\ Len(a) = k /\ KeysDiffer(a)
      BY <2>8, <2>9
    <3>2. PICK row : row = q[k + 1] /\ row \in RowsOf(N)
      BY <2>7
    <3>3. HIDE DEF t, acc, s, Good
    <3>4. a \in Seq(RowsOf(N)) /\ KeysDiffer(a)
      BY <3>1
    <3>5. /\ PushRow(a, row) \in Seq(RowsOf(N)) /\ KeysDiffer(PushRow(a, row))
          /\ Len(PushRow(a, row)) = Len(a) + 1
          /\ \A i \in 1..Len(a) : PushRow(a, row)[i] = a[i]
          /\ Keyed(PushRow(a, row)[Len(a) + 1], row)
      BY <3>2, <3>4, PushKeeps
    <3>6. QED
      BY <3>1, <3>2, <3>5
  <2>11. HIDE DEF t, acc, R
  <2>12. \A i \in 1..(k + 1) : Keyed(t[i], q[i])
    <3>1. \A i \in 1..(k + 1) : i \in 1..k \/ i = k + 1
      BY <2>2
    <3>2. QED
      BY <2>8, <2>9, <2>10, <3>1
  <2>13. Table(t, q, k + 1, R)
    BY <2>10, <2>12 DEF Table
  <2>14. QED
    BY <2>2, <2>5, <2>13
<1>8. n \in Good
  <2>1. HIDE DEF Good, n
  <2>2. QED
    BY <1>2, <1>6, <1>7, UpTo
<1>9. Table(g[1..n], q, n, R)
  BY <1>8
<1>10. QED
  BY <1>2, <1>3, <1>9, FoldIs

(* FlattenSeq puts sequences of rows together to one. *)
Flattens(f, ss, k) == f = [i \in 1..k |-> IF i = 1 THEN ss[i] ELSE f[i - 1] \o ss[i]]

LEMMA FlattensExist ==
    ASSUME NEW n \in Nat, NEW ss
    PROVE  \E f : Flattens(f, ss, n)
<1>1. DEFINE Good == {k \in 0..n : \E f : Flattens(f, ss, k)}
<1>2. 0 \in Good
  <2>1. Flattens([i \in 1..0 |-> ss[i]], ss, 0) /\ 0 \in 0..n
    BY DEF Flattens
  <2>2. QED
    BY <2>1
<1>3. ASSUME NEW k \in 0..n, k < n, k \in Good PROVE k + 1 \in Good
  <2>1. PICK f : Flattens(f, ss, k)
    BY <1>3
  <2>2. DEFINE g == [i \in 1..(k + 1) |-> IF i = 1 THEN ss[i] ELSE f[i - 1] \o ss[i]]
  <2>3. \A i \in 1..k : g[i] = f[i]
    <3>1. SUFFICES ASSUME NEW i \in 1..k PROVE g[i] = f[i]
      OBVIOUS
    <3>2. f[i] = IF i = 1 THEN ss[i] ELSE f[i - 1] \o ss[i]
      BY <2>1 DEF Flattens
    <3>3. i \in 1..(k + 1)
      BY <1>3
    <3>4. QED
      BY <3>2, <3>3
  <2>4. \A i \in 1..(k + 1) : i # 1 => i - 1 \in 1..k
    OBVIOUS
  <2>5. g = [i \in 1..(k + 1) |-> IF i = 1 THEN ss[i] ELSE g[i - 1] \o ss[i]]
    <3>1. PICK h : h = g
      OBVIOUS
    <3>2. h = [i \in 1..(k + 1) |-> IF i = 1 THEN ss[i] ELSE f[i - 1] \o ss[i]] /\ \A i \in 1..k : h[i] = f[i]
      BY <2>3, <3>1
    <3>3. HIDE DEF g
    <3>4. h = [i \in 1..(k + 1) |-> IF i = 1 THEN ss[i] ELSE h[i - 1] \o ss[i]]
      BY <2>4, <3>2
    <3>5. QED
      BY <3>1, <3>4
  <2>6. Flattens(g, ss, k + 1)
    <3>1. HIDE DEF g
    <3>2. QED
      BY <2>5 DEF Flattens
  <2>7. QED
    BY <1>3, <2>6
<1>4. HIDE DEF Good
<1>5. n \in Good
  BY <1>2, <1>3, UpTo
<1>6. QED
  BY <1>5 DEF Good

LEMMA FlatRows ==
    ASSUME NEW R, NEW n \in Nat, NEW ss, ss = [i \in 1..n |-> ss[i]], \A i \in 1..n : ss[i] \in Seq(R)
    PROVE  FlattenSeq(ss) \in Seq(R)
<1>1. ss \in Seq(Seq(R)) /\ Len(ss) = n
  OBVIOUS
<1>2. CASE n = 0
  BY <1>1, <1>2 DEF FlattenSeq
<1>3. CASE n # 0
  <2>1. PICK f : f = CHOOSE g : Flattens(g, ss, n)
    OBVIOUS
  <2>2. Flattens(f, ss, n)
    <3>1. \E g : Flattens(g, ss, n)
      BY FlattensExist
    <3>2. QED
      BY <2>1, <3>1
  <2>3. FlattenSeq(ss) = f[n]
    BY <1>1, <1>3, <2>1 DEF FlattenSeq, Flattens
  <2>4. DEFINE Good == {k \in 0..n : k # 0 => f[k] \in Seq(R)}
  <2>5. 0 \in Good
    OBVIOUS
  <2>6. ASSUME NEW k \in 0..n, k < n, k \in Good PROVE k + 1 \in Good
    <3>1. k + 1 \in 1..n /\ k + 1 \in 0..n /\ ss[k + 1] \in Seq(R)
      BY <2>6
    <3>2. f[k + 1] = IF k + 1 = 1 THEN ss[k + 1] ELSE f[(k + 1) - 1] \o ss[k + 1]
      <4>1. PICK j \in 1..n : j = k + 1
        BY <3>1
      <4>2. f[j] = IF j = 1 THEN ss[j] ELSE f[j - 1] \o ss[j]
        BY <2>2 DEF Flattens
      <4>3. QED
        BY <4>1, <4>2
    <3>3. k # 0 => f[k] \in Seq(R)
      BY <2>6
    <3>4. f[k + 1] \in Seq(R)
      <4>1. (k + 1) - 1 = k /\ (k + 1 = 1 => k = 0)
        BY <2>6
      <4>2. QED
        BY <3>1, <3>2, <3>3, <4>1
    <3>5. QED
      BY <3>1, <3>4
  <2>7. HIDE DEF Good
  <2>8. n \in Good
    BY <2>5, <2>6, UpTo
  <2>9. QED
    BY <1>3, <2>3, <2>8 DEF Good
<1>4. QED
  BY <1>2, <1>3

LEMMA KeysAreLists ==
    ASSUME NEW i \in Nat, NEW id \in Seq(Nat)
    PROVE  <<1, i>> \in Seq(Nat) /\ <<2>> \o id \in Seq(Nat)
<1>1. <<1, i>> \in Seq(Nat)
  OBVIOUS
<1>2. <<2>> \in Seq(Nat)
  OBVIOUS
<1>3. QED
  BY <1>1, <1>2

LEMMA RowsMade ==
    ASSUME NEW N, "" \in N, NEW proxy \in Nat, proxy \in N, NEW provider \in N,
           NEW node, node.id \in Seq(Nat), node.name \in N
    PROVE  StaticRow(proxy) \in RowsOf(N) /\ ProviderRow(provider, node) \in RowsOf(N)
<1>1. <<1, proxy>> \in Seq(Nat) /\ <<2>> \o node.id \in Seq(Nat)
  BY KeysAreLists
<1>2. QED
  BY <1>1 DEF StaticRow, ProviderRow, RowsOf

(* Every row of the table has a key of its own, whatever ids and names the *)
(* runtime reports, and the static rows are its first ones, in list order. *)
LEMMA TableOfAll ==
    ASSUME NEW proxies \in Seq(Nat), NEW inv, ProviderList(inv),
           NEW t, t = BuildNodeRows(proxies, inv)
    PROVE  /\ KeysDiffer(t)
           /\ Len(t) \in Nat /\ Len(proxies) <= Len(t)
           /\ \A i \in 1..Len(proxies) : t[i].kind = "static" /\ t[i].name = proxies[i]
<1>1. DEFINE n == Len(proxies)
             m == Len(inv)
             statics == [i \in 1..n |-> StaticRow(proxies[i])]
             part == [p \in 1..m |-> [k \in 1..Len(inv[p].nodes) |->
                          ProviderRow(inv[p].name, inv[p].nodes[k])]]
             nodes == FlattenSeq(part)
             NodeNames(p) == {inv[p].nodes[k].name : k \in 1..Len(inv[p].nodes)}
             N == Nat \cup {""} \cup {inv[p].name : p \in 1..m} \cup UNION {NodeNames(p) : p \in 1..m}
<1>2. n \in Nat /\ m \in Nat /\ \A i \in 1..n : proxies[i] \in Nat
  BY DEF ProviderList
<1>3. \A p \in 1..m : /\ Len(inv[p].nodes) \in Nat
                      /\ \A k \in 1..Len(inv[p].nodes) : inv[p].nodes[k].id \in Seq(Nat)
  <2>1. SUFFICES ASSUME NEW p \in 1..m
                 PROVE  /\ Len(inv[p].nodes) \in Nat
                        /\ \A k \in 1..Len(inv[p].nodes) : inv[p].nodes[k].id \in Seq(Nat)
    OBVIOUS
  <2>2. inv[p] \in ToSet(inv)
    BY DEF ProviderList, ToSet
  <2>3. PICK ns : ns = inv[p].nodes
    OBVIOUS
  <2>4. ns \in Seq(ToSet(ns)) /\ \A node \in ToSet(ns) : node.id \in Seq(Nat)
    BY <2>2, <2>3 DEF ProviderList
  <2>5. \A k \in 1..Len(ns) : ns[k] \in ToSet(ns)
    BY <2>4 DEF ToSet
  <2>6. QED
    BY <2>3, <2>4, <2>5
<1>4. \A i \in 1..n : statics[i] \in RowsOf(N)
  <2>1. SUFFICES ASSUME NEW i \in 1..n PROVE StaticRow(proxies[i]) \in RowsOf(N)
    OBVIOUS
  <2>2. proxies[i] \in Nat /\ proxies[i] \in N /\ "" \in N
    BY <1>2
  <2>3. <<1, proxies[i]>> \in Seq(Nat)
    <3>1. <<>> \in Seq(Nat)
      OBVIOUS
    <3>2. HIDE DEF N
    <3>3. QED
      BY <2>2, <3>1, KeysAreLists
  <2>4. HIDE DEF N
  <2>5. QED
    BY <2>2, <2>3 DEF StaticRow, RowsOf
<1>5. \A p \in 1..m : part[p] \in Seq(RowsOf(N))
  <2>1. SUFFICES ASSUME NEW p \in 1..m PROVE part[p] \in Seq(RowsOf(N))
    OBVIOUS
  <2>2. DEFINE l == Len(inv[p].nodes)
               row(k) == ProviderRow(inv[p].name, inv[p].nodes[k])
  <2>3. \A k \in 1..l : row(k) \in RowsOf(N)
    <3>1. SUFFICES ASSUME NEW k \in 1..l PROVE row(k) \in RowsOf(N)
      OBVIOUS
    <3>2. PICK node : node = inv[p].nodes[k]
      OBVIOUS
    <3>3. node.id \in Seq(Nat)
      BY <1>3, <3>2
    <3>4. inv[p].name \in N /\ 0 \in N /\ "" \in N
      OBVIOUS
    <3>5. node.name \in N
      <4>1. node.name \in NodeNames(p)
        BY <3>2
      <4>2. HIDE DEF NodeNames
      <4>3. QED
        BY <4>1
    <3>6. HIDE DEF N
    <3>7. ProviderRow(inv[p].name, node) \in RowsOf(N)
      BY <3>3, <3>4, <3>5, RowsMade
    <3>8. QED
      BY <3>2, <3>7
  <2>4. l \in Nat
    BY <1>3
  <2>5. part[p] = [k \in 1..l |-> row(k)]
    OBVIOUS
  <2>6. HIDE DEF l, row, N, part
  <2>7. QED
    BY <2>3, <2>4, <2>5
<1>6. nodes \in Seq(RowsOf(N))
  <2>1. part = [p \in 1..m |-> part[p]]
    OBVIOUS
  <2>2. HIDE DEF part, N, m
  <2>3. QED
    BY <1>2, <1>5, <2>1, FlatRows
<1>7. DEFINE q == statics \o nodes
<1>8. statics \in Seq(RowsOf(N)) /\ Len(statics) = n
  <2>1. PICK f : f = statics
    OBVIOUS
  <2>2. f = [i \in 1..n |-> f[i]] /\ \A i \in 1..n : f[i] \in RowsOf(N)
    BY <1>4, <2>1
  <2>3. HIDE DEF statics, N
  <2>4. f \in [1..n -> RowsOf(N)]
    BY <2>2
  <2>5. QED
    BY <1>2, <2>1, <2>4
<1>9. t = FoldLeft(PushRow, <<>>, q)
  BY DEF BuildNodeRows
<1>10. /\ q \in Seq(RowsOf(N)) /\ Len(q) \in Nat /\ n <= Len(q)
       /\ \A i \in 1..n : q[i] = statics[i]
  <2>1. HIDE DEF statics, nodes, N, n
  <2>2. QED
    BY <1>2, <1>6, <1>8
<1>11. Table(t, q, Len(q), RowsOf(N))
  <2>1. HIDE DEF q, N
  <2>2. QED
    BY <1>9, <1>10, FoldKeeps
<1>12. KeysDiffer(t) /\ Len(t) = Len(q)
  BY <1>11 DEF Table
<1>13. ASSUME NEW i \in 1..n
       PROVE  t[i].kind = "static" /\ t[i].name = proxies[i]
  <2>1. i \in 1..Len(q) /\ q[i] = StaticRow(proxies[i])
    <3>1. q[i] = statics[i] /\ statics[i] = StaticRow(proxies[i])
      BY <1>10
    <3>2. HIDE DEF q, statics, n
    <3>3. i \in 1..Len(q)
      <4>1. i \in 1..n /\ n \in Nat /\ Len(q) \in Nat /\ n <= Len(q)
        BY <1>2, <1>10
      <4>2. QED
        BY <4>1
    <3>4. QED
      BY <3>1, <3>3
  <2>2. Keyed(t[i], StaticRow(proxies[i]))
    BY <1>11, <2>1 DEF Table
  <2>3. PICK k : t[i] = [StaticRow(proxies[i]) EXCEPT !.key = k]
    BY <2>2 DEF Keyed
  <2>4. QED
    BY <2>3 DEF StaticRow
<1>14. QED
  BY <1>10, <1>12, <1>13

-----------------------------------------------------------------------------
(* The theorems. *)

LEMMA WebInit == Init => WebInv
<1> SUFFICES ASSUME Init PROVE WebInv
  OBVIOUS
<1>1. InventoryInv
  BY InventoryInit DEF Init
<1>2. TrafficPageInv
  BY TrafficPageStarts DEF Init
<1>3. QED
  BY <1>1, <1>2 DEF Init, WebInv

LEMMA WebStep == WebInv /\ [Next]_vars => WebInv'
<1> SUFFICES ASSUME WebInv, [Next]_vars PROVE WebInv'
  OBVIOUS
<1>1. InventoryInv /\ TrafficPageInv /\ view \in {"inventory", "traffic", "counting"}
  BY DEF WebInv
<1>2. UNCHANGED inventoryVars => InventoryInv'
  <2>1. SUFFICES ASSUME UNCHANGED inventoryVars PROVE InventoryInv'
    OBVIOUS
  <2>2. UNCHANGED <<crudVars, proxyVars, editorVars, disordered>>
    BY <2>1 DEF inventoryVars
  <2>3. UNCHANGED pageVars /\ sent' = sent /\ CrudInv /\ MatchInv
    BY <1>1, <2>2 DEF crudVars, pageVars, InventoryInv
  <2>4. ClientKeeps
    BY <2>3, Crud, NothingSet
  <2>5. CrudInv' /\ MatchInv'
    BY <2>2, <2>3, <2>4, ClientKeepsMatch
  <2>6. TestsInv' /\ EditorInv'
    BY <1>1, <2>2 DEF InventoryInv, proxyVars, testVars, TestsInv, SpinnerMeansTest, TestingMeansWork,
                      editorVars, EditorInv, EditorOpen
  <2>7. QED
    BY <1>1, <2>2, <2>5, <2>6 DEF InventoryInv
<1>3. UNCHANGED trafficPageVars => TrafficPageInv'
  <2>1. SUFFICES ASSUME UNCHANGED trafficPageVars PROVE TrafficPageInv'
    OBVIOUS
  <2>2. UNCHANGED trafficVars /\ UNCHANGED <<overview, accountDialog, busy, wire, clicks>>
    BY <2>1 DEF trafficPageVars, clientVars, shown
  <2>3. IInv'
    BY <1>1, <2>2, Stutter DEF TrafficPageInv
  <2>4. ShownInv'
    BY <1>1, <2>2 DEF TrafficPageInv, ShownInv, DialogInv
  <2>5. QED
    BY <2>3, <2>4 DEF TrafficPageInv
<1>4. CASE (PageStep \/ ServerStep) /\ UNCHANGED <<view, trafficPageVars>>
  BY <1>1, <1>3, <1>4, InventoryStep DEF WebInv
<1>5. CASE TrafficStep /\ UNCHANGED <<view, inventoryVars>>
  BY <1>1, <1>2, <1>5, TrafficPageStep DEF WebInv
<1>6. CASE UNCHANGED vars
  BY <1>1, <1>2, <1>3, <1>6 DEF WebInv, vars
<1>7. QED
  BY <1>4, <1>5, <1>6 DEF Next

(* The invariant of the four inventory pages over their server and of the  *)
(* traffic page over its service holds in every behaviour.                 *)
THEOREM InventoryInvariance == Spec => []WebInv
BY WebInit, WebStep, PTL DEF Spec

(* Every variable keeps its type; requests in flight have a slot each.     *)
THEOREM InventoryTypeCorrect == Spec => []TypeOK
<1>1. WebInv => TypeOK
  <2> SUFFICES ASSUME WebInv PROVE TypeOK
    OBVIOUS
  <2>1. CrudInv /\ EditorInv /\ IInv /\ ShownInv
    BY DEF WebInv, InventoryInv, TrafficPageInv
  <2>2. TrafficPageTypeOK
    BY <2>1, TypesInTwo DEF TrafficPageTypeOK, IInv, CountInv, CheckInv, ShownInv, DialogInv, Overviews
  <2>3. calls \subseteq Call /\ \A c, d \in calls : c.n = d.n => c = d
    BY <2>1 DEF CrudInv, CallsOK
  <2>4. QED
    BY <2>1, <2>2, <2>3 DEF TypeOK, CrudInv, TableOK, ClientOK, EditorInv
<1>2. QED
  BY <1>1, InventoryInvariance, PTL

(* The confirm dialog deletes the row its text describes, whatever replies *)
(* come while it is open (handleDeleteClick, handleDeleteConfirm).         *)
THEOREM ConfirmDeletesItsRow == Spec => []ConfirmNamesTarget
<1>1. WebInv => ConfirmNamesTarget
  BY DEF WebInv, InventoryInv, CrudInv
<1>2. QED
  BY <1>1, InventoryInvariance, PTL

(* A row that shows a running delay test has one (testOneDelay, the effect *)
(* of the test-all trigger, ProxyList unmounted).                          *)
THEOREM NoSpinnerIsLeft == Spec => []SpinnerMeansTest
<1>1. WebInv => SpinnerMeansTest
  BY DEF WebInv, InventoryInv, TestsInv
<1>2. QED
  BY <1>1, InventoryInvariance, PTL

(* Drags keep MATCH last on the server until something wrote sort_orders   *)
(* that disregard those of the other rules (handleDragEnd, Reorder).       *)
THEOREM DragsLeaveMatchLast == Spec => []DragsKeepMatchLast
<1>1. WebInv => DragsKeepMatchLast
  <2> SUFFICES ASSUME WebInv, page = "rules", ~disordered, MatchRule \in db
               PROVE  Last(Listed) = MatchRule
    BY DEF DragsKeepMatchLast
  <2>1. CrudInv /\ MatchIsLast
    BY DEF WebInv, InventoryInv, MatchInv
  <2>2. db \subseteq Ids /\ ord \in [Ids -> Orders]
    BY <2>1, RowsAreIds
  <2>3. MatchRule \in db => \A i \in db \ {MatchRule} : InOrder(i, MatchRule)
    BY <2>1 DEF MatchIsLast
  <2>4. QED
    BY <2>2, <2>3, MatchListedLast DEF Listed
<1>2. QED
  BY <1>1, InventoryInvariance, PTL

(* Every spinner and disabled button of these pages waits for a request or *)
(* a test that is under way.                                               *)
THEOREM SpinnersWaitForWork == Spec => []NothingWaitsInVain
<1>1. WebInv => NothingWaitsInVain
  BY DEF WebInv, InventoryInv, CrudInv, TestsInv, TrafficPageInv, ShownInv, NothingWaitsInVain,
         LoadingMeansFetch, Fetching, Backed, BusyMeansRequest
<1>2. QED
  BY <1>1, InventoryInvariance, PTL

(* The rows of the proxies table never share a key, so no delay or spinner *)
(* is shown for another row than the tested one, whatever ids and names    *)
(* the native providers report (buildNodeRows, push).                      *)
THEOREM KeysNeverCollide == Spec => []KeysDiffer(AllRows)
<1>1. Init => ProviderList(providers)
  <2>1. ProviderList(<<>>)
    BY DEF ProviderList, ToSet
  <2>2. QED
    BY <2>1 DEF Init, ProxiesInit
<1>2. ProviderList(providers) /\ [Next]_vars => ProviderList(providers)'
  <2> SUFFICES ASSUME ProviderList(providers), [Next]_vars PROVE ProviderList(providers')
    BY DEF ProviderList
  <2>1. CASE UNCHANGED providers
    BY <2>1
  <2>2. CASE ProvidersListed
    <3>1. ProviderList(<<>>)
      BY DEF ProviderList, ToSet
    <3>2. QED
      BY <2>2, <3>1, InventoriesAssumption DEF ProvidersListed
  <2>3. ProxiesNext => UNCHANGED providers \/ ProvidersListed
    BY DEF ProxiesNext, ProxiesFetched, SourceFiltered, ProxiesAdd, ProxiesEdit, ProxiesForm, ProxiesSave,
           ProxiesDeleteClick, ProxiesDelete, ProxiesCopy, TestOne, TestAllClicked, TestAllEffect, TestReplied,
           proxyVars
  <2>4. QED
    BY <2>1, <2>2, <2>3 DEF Next, PageStep, ServerStep, Rest, TrafficStep, inventoryVars, proxyVars, vars
<1>3. TypeOK /\ ProviderList(providers) => KeysDiffer(AllRows)
  <2> SUFFICES ASSUME TypeOK, ProviderList(providers) PROVE KeysDiffer(AllRows)
    OBVIOUS
  <2>1. rows \in Seq(Ids)
    BY DEF TypeOK, Lists
  <2>2. rows \in Seq(Nat)
    BY <2>1, IdsOfPages
  <2>3. QED
    BY <2>2, TableOfAll DEF AllRows
<1>4. QED
  BY <1>1, <1>2, <1>3, InventoryTypeCorrect, PTL DEF Spec

(* Behind its page, the service is that of Traffic: each request of a page *)
(* is a step of it or none (handler/traffic.go over TrafficService).       *)
THEOREM PageRunsTheService == Spec => TrafficSpec
<1>1. Init => TrafficInit
  BY DEF Init, TrafficPageInit
<1>2. WebInv /\ [Next]_vars => [TrafficNext]_trafficVars
  <2> SUFFICES ASSUME WebInv, [Next]_vars PROVE [TrafficNext]_trafficVars
    OBVIOUS
  <2>1. ShownInv
    BY DEF WebInv, TrafficPageInv
  <2>2. CASE TrafficStep
    BY <2>1, <2>2, ServiceSteps
  <2>3. CASE UNCHANGED trafficPageVars
    BY <2>3 DEF trafficPageVars
  <2>4. QED
    BY <2>2, <2>3 DEF Next, vars
<1>3. QED
  BY <1>1, <1>2, InventoryInvariance, PTL DEF Spec, TrafficSpec

(* With its page in use the service counts exactly and only what moved,    *)
(* sends an alert once and marks what it sent.                             *)
THEOREM ServiceStaysRight ==
    Spec => [](CountedIsKept /\ CountedWasMoved /\ AlertsGoOutOnce /\ NotifiedWasSent)
BY PageRunsTheService, AccountingIsExact, NothingIsInvented, AlertsOnce, MarksAreTrue, PTL

=============================================================================
