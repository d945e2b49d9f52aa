------------------------ MODULE SubscriptionsProofs ------------------------
(***************************************************************************)
(* What Subscriptions promises for any number of rows, names, URLs and     *)
(* refreshes in flight.  The parts of the invariant need each other: a     *)
(* refresh reads the draft entry of its row (typed because of OneManager), *)
(* and the data it brings stays with its source because an id is not used  *)
(* twice (a fetch belongs to the row it was started for).                  *)
(***************************************************************************)
EXTENDS Subscriptions, TLAPS

(* A refresh in flight is of a row there was, and of its kind: the id of a *)
(* deleted row is not given to a row of the other kind.                    *)
FetchesAreOfRows ==
    \A f \in fetches : f.id \in born /\ (f.id \in Rows => f.src = subs[f.id].src)

IInv == ServerTypeOK /\ OneManager /\ OneTracker /\ TrafficStateIsOwn /\ FetchesAreOfRows

LEMMA Sentinels ==
    /\ None \notin Names /\ None \notin Urls /\ None \notin Tps
    /\ None \in Quotas /\ None \in Expiries /\ None \in Resets
    /\ Keep \notin Names /\ Keep \notin Quotas /\ Keep \notin Expiries /\ Keep \notin Resets
    /\ Keep # None
BY ValuesAssumption

(* A row is a typed record. *)
LEMMA RowTyped ==
    ASSUME ServerTypeOK, NEW i \in Rows
    PROVE  i \in Ids /\ subs[i] \in Sub /\ i \in born
BY DEF ServerTypeOK, Rows

(* A traffic provider that exists is a typed record. *)
LEMMA TpTyped ==
    ASSUME ServerTypeOK, NEW t, TpExists(t)
    PROVE  t \in Tps /\ tps[t] \in Tp
BY DEF ServerTypeOK, TpExists

(* applyTo keeps a row a row, and what it does not touch. *)
LEMMA AppliedTyped ==
    ASSUME NEW s \in Sub, NEW r \in Request
    PROVE  /\ Applied(s, r) \in Sub
           /\ Applied(s, r).src = s.src /\ Applied(s, r).snap = s.snap /\ Applied(s, r).failure = s.failure
           /\ Applied(s, r).name = r.name /\ Applied(s, r).tp = r.tp
           /\ Applied(s, r).prov = (IF r.prov = Keep THEN s.prov ELSE r.prov)
<1>1. /\ Or(r.prov, s.prov) \in Names \cup {None}
      /\ Or(r.quota, s.quota) \in Quotas /\ Or(r.expire, s.expire) \in Expiries
      /\ Or(r.reset, s.reset) \in Resets
      BY DEF Or, Sub, Request
<1>2. Applied(s, r) \in Sub
      BY <1>1 DEF Applied, Sub, Request
<1>3. /\ Applied(s, r).src = s.src /\ Applied(s, r).snap = s.snap /\ Applied(s, r).failure = s.failure
      /\ Applied(s, r).name = r.name /\ Applied(s, r).tp = r.tp
      /\ Applied(s, r).prov = Or(r.prov, s.prov)
      BY DEF Applied, Sub
<1>4. QED  BY <1>2, <1>3 DEF Or

LEMMA BlankTyped ==
    ASSUME NEW r \in Request
    PROVE  /\ Blank(r) \in Sub
           /\ Blank(r).src = r.src /\ Blank(r).snap = None /\ Blank(r).failure = None /\ Blank(r).prov = None
BY Sentinels DEF Blank, Sub, Request

(* The invariant after a row was written: what the four parts ask of it.   *)
LEMMA WriteRow ==
    ASSUME IInv, NEW i \in Ids, NEW s \in Sub,
           subs' = [subs EXCEPT ![i] = s],
           born' = born \cup {i}, fetches' \subseteq fetches, tps' = tps,
           draft' \in [Names -> Urls \cup {None}],
           s.prov = None <=> s.src = "traffic",
           s.src = "native" => \A j \in Rows \ {i} : subs[j].prov # s.prov,
           s.src = "traffic" => \A j \in Rows \ {i} : subs[j].src = "traffic" => subs[j].tp # s.tp,
           s.src = "traffic" => s.snap \in {None, s.tp} /\ s.failure \in {None, s.tp},
           i \in Rows => s.src = subs[i].src,
           i \in Rows \/ i \notin born
    PROVE  IInv'
<1>1. \A j \in Ids : subs'[j] = IF j = i THEN s ELSE subs[j]
      BY DEF IInv, ServerTypeOK
<1>2. Rows' \subseteq Rows \cup {i} /\ \A j \in Rows' : j # i => j \in Rows
      BY <1>1 DEF Rows
<1>3. ServerTypeOK'
      BY <1>1, <1>2 DEF IInv, ServerTypeOK
<1>4. OneManager'
  <2>1. \A j \in Rows' : subs'[j].prov = None <=> subs'[j].src = "traffic"
        BY <1>1, <1>2, RowTyped DEF IInv, OneManager, Rows
  <2>2. ASSUME NEW j \in Rows', NEW k \in Rows', subs'[j].src = "native", subs'[j].prov = subs'[k].prov
        PROVE  j = k
    <3>0. j \in Ids /\ k \in Ids
          BY DEF Rows
    <3>1. CASE j # i /\ k # i
          BY <3>1, <3>0, <2>2, <1>1, <1>2 DEF IInv, OneManager
    <3>2. CASE j = i /\ k # i
          BY <3>2, <3>0, <2>2, <1>1, <1>2
    <3>3. CASE j # i /\ k = i
      <4>1. k = i /\ subs'[k] = s /\ subs'[j] = subs[j] /\ j \in Rows
            BY <3>3, <3>0, <1>1, <1>2
      <4>2. subs[j].prov # None
            BY <4>1, <2>2 DEF IInv, OneManager
      <4>3. s.src = "native"
            BY <4>1, <4>2, <2>2 DEF Sub
      <4>4. QED  BY <4>1, <4>3, <3>3, <2>2
    <3>4. QED  BY <3>1, <3>2, <3>3
  <2>3. QED  BY <2>1, <2>2 DEF OneManager
<1>5. OneTracker'
  <2>1. ASSUME NEW j \in Rows', NEW k \in Rows', subs'[j].src = "traffic", subs'[k].src = "traffic",
               subs'[j].tp = subs'[k].tp
        PROVE  j = k
    <3>0. j \in Ids /\ k \in Ids
          BY DEF Rows
    <3>1. CASE j # i /\ k # i
          BY <3>1, <3>0, <2>1, <1>1, <1>2 DEF IInv, OneTracker
    <3>2. CASE j = i /\ k # i
          BY <3>2, <3>0, <2>1, <1>1, <1>2
    <3>3. CASE j # i /\ k = i
          BY <3>3, <3>0, <2>1, <1>1, <1>2
    <3>4. QED  BY <3>1, <3>2, <3>3
  <2>2. QED  BY <2>1 DEF OneTracker
<1>6. TrafficStateIsOwn'
  <2>1. ASSUME NEW j \in Rows', subs'[j].src = "traffic"
        PROVE  subs'[j].snap \in {None, subs'[j].tp} /\ subs'[j].failure \in {None, subs'[j].tp}
    <3>0. j \in Ids
          BY DEF Rows
    <3>1. CASE j = i
          BY <3>1, <3>0, <2>1, <1>1
    <3>2. CASE j # i
          BY <3>2, <3>0, <2>1, <1>1, <1>2 DEF IInv, TrafficStateIsOwn
    <3>3. QED  BY <3>1, <3>2
  <2>2. QED  BY <2>1 DEF TrafficStateIsOwn
<1>7. FetchesAreOfRows'
  <2>1. ASSUME NEW f \in fetches'
        PROVE  f.id \in born' /\ (f.id \in Rows' => f.src = subs'[f.id].src)
    <3>1. f \in fetches /\ f.id \in born /\ (f.id \in Rows => f.src = subs[f.id].src)
          BY DEF IInv, FetchesAreOfRows
    <3>2. CASE f.id = i
          BY <3>1, <3>2, <1>1
    <3>3. CASE f.id # i
          BY <3>1, <3>3, <1>1, <1>2 DEF Rows
    <3>4. QED  BY <3>2, <3>3
  <2>2. QED  BY <2>1 DEF FetchesAreOfRows
<1>8. QED  BY <1>3, <1>4, <1>5, <1>6, <1>7 DEF IInv

(* The invariant when no row changes. *)
LEMMA KeepRows ==
    ASSUME IInv, subs' = subs, born' = born, fetches' \subseteq fetches,
           draft' \in [Names -> Urls \cup {None}], tps' \in [Tps -> Tp \cup {None}]
    PROVE  IInv'
<1>1. Rows' = Rows
      BY DEF Rows
<1>2. ServerTypeOK'
      BY <1>1 DEF IInv, ServerTypeOK
<1>3. OneManager'
      BY <1>1 DEF IInv, OneManager
<1>4. OneTracker'
      BY <1>1 DEF IInv, OneTracker
<1>5. TrafficStateIsOwn'
      BY <1>1 DEF IInv, TrafficStateIsOwn
<1>6. FetchesAreOfRows'
      BY <1>1 DEF IInv, FetchesAreOfRows
<1>7. QED  BY <1>2, <1>3, <1>4, <1>5, <1>6 DEF IInv

-----------------------------------------------------------------------------
(* One lemma per action. *)

LEMMA UpdateNativeKeeps ==
    ASSUME IInv, NEW i \in Ids, NEW r \in Request, UpdateNative(i, r)
    PROVE  IInv'
<1> DEFINE s == Applied(subs[i], r)
<1>1. i \in Rows /\ subs[i] \in Sub /\ i \in born /\ subs[i].src = "native"
      BY RowTyped DEF UpdateNative, IInv
<1>2. /\ s \in Sub /\ s.src = "native"
      /\ s.prov = (IF r.prov = Keep THEN subs[i].prov ELSE r.prov)
      BY <1>1, AppliedTyped
<1>3. s.prov # None /\ s.prov \in Names
  <2>1. subs[i].prov # None /\ subs[i].prov \in Names
        BY <1>1 DEF IInv, OneManager, Sub
  <2>2. QED  BY <1>2, <2>1, Sentinels DEF Request
<1>4. \A j \in Rows \ {i} : subs[j].prov # s.prov
  <2>1. ~ManagedByOther(s.prov, i)
        BY DEF UpdateNative
  <2>2. SUFFICES ASSUME NEW j \in Rows \ {i}, subs[j].prov = s.prov
                 PROVE  FALSE
        OBVIOUS
  <2>3. subs[j] \in Sub /\ subs[j].prov # None
        BY <2>2, <1>3, RowTyped DEF IInv
  <2>4. subs[j].src = "native"
        BY <2>2, <2>3 DEF IInv, OneManager, Sub
  <2>5. QED  BY <2>1, <2>2, <2>4 DEF ManagedByOther
<1>5. draft' \in [Names -> Urls \cup {None}]
      BY <1>3 DEF UpdateNative, IInv, ServerTypeOK, Request
<1>6. subs' = [subs EXCEPT ![i] = s] /\ born' = born \cup {i} /\ fetches' = fetches /\ tps' = tps
      BY <1>1 DEF UpdateNative
<1> HIDE DEF s
<1>7. QED  BY <1>1, <1>2, <1>3, <1>4, <1>5, <1>6, WriteRow

LEMMA UpdateTrafficKeeps ==
    ASSUME IInv, NEW i \in Ids, NEW r \in Request, UpdateTraffic(i, r)
    PROVE  IInv'
<1> DEFINE a == Applied(subs[i], r)
           s == IF a.tp = subs[i].tp THEN a ELSE [a EXCEPT !.snap = None, !.failure = None]
<1>1. i \in Rows /\ subs[i] \in Sub /\ i \in born /\ subs[i].src = "traffic"
      BY RowTyped DEF UpdateTraffic, IInv
<1>2. a \in Sub /\ a.src = "traffic" /\ a.snap = subs[i].snap /\ a.failure = subs[i].failure
      BY <1>1, AppliedTyped
<1>3. a.prov = None /\ ~TrackedByOther(a.tp, i)
      BY DEF UpdateTraffic
<1>4. /\ s \in Sub /\ s.src = "traffic" /\ s.prov = None /\ s.tp = a.tp
      /\ s.snap \in {None, s.tp} /\ s.failure \in {None, s.tp}
  <2>1. CASE a.tp = subs[i].tp
        BY <1>1, <1>2, <1>3, <2>1 DEF IInv, TrafficStateIsOwn
  <2>2. CASE a.tp # subs[i].tp
        BY <1>2, <1>3, <2>2 DEF Sub
  <2>3. QED  BY <2>1, <2>2
<1>5. \A j \in Rows \ {i} : subs[j].src = "traffic" => subs[j].tp # s.tp
      BY <1>3, <1>4 DEF TrackedByOther
<1>6. /\ subs' = [subs EXCEPT ![i] = s] /\ born' = born \cup {i} /\ fetches' = fetches /\ tps' = tps
      /\ draft' \in [Names -> Urls \cup {None}]
      BY <1>1 DEF UpdateTraffic, IInv, ServerTypeOK
<1> HIDE DEF s
<1>7. QED  BY <1>1, <1>4, <1>5, <1>6, WriteRow

LEMMA CreateNativeKeeps ==
    ASSUME IInv, NEW i \in Ids, NEW r \in Request, CreateNative(i, r)
    PROVE  IInv'
<1> DEFINE prov == IF r.prov = Keep THEN r.name ELSE r.prov
           a == Applied(Blank(r), r)
           s == [a EXCEPT !.prov = prov]
<1>1. i \notin born /\ i \notin Rows /\ r.src = "native"
      BY DEF CreateNative, IInv, ServerTypeOK
<1>2. prov \in Names /\ prov # None
      BY Sentinels DEF Request
<1>3. a \in Sub /\ a.src = "native"
      BY <1>1, BlankTyped, AppliedTyped
<1>4. s \in Sub /\ s.src = "native" /\ s.prov = prov
      BY <1>2, <1>3 DEF Sub
<1>5. \A j \in Rows \ {i} : subs[j].prov # prov
  <2>1. ~ManagedByOther(prov, i)
        BY DEF CreateNative
  <2>2. SUFFICES ASSUME NEW j \in Rows \ {i}, subs[j].prov = prov
                 PROVE  FALSE
        OBVIOUS
  <2>3. subs[j] \in Sub
        BY RowTyped DEF IInv
  <2>4. subs[j].src = "native"
        BY <2>2, <2>3, <1>2 DEF IInv, OneManager, Sub
  <2>5. QED  BY <2>1, <2>2, <2>4 DEF ManagedByOther
<1>6. born' = born \cup {i} /\ fetches' = fetches /\ tps' = tps
      BY DEF CreateNative
<1>7. draft' \in [Names -> Urls \cup {None}]
      BY <1>2 DEF CreateNative, IInv, ServerTypeOK, Request
<1>8. \E t \in Tps \cup {None} : subs' = [subs EXCEPT ![i] = [s EXCEPT !.tp = t]]
  <2>1. CASE subs' = [subs EXCEPT ![i] = s]
    <3>1. s.tp \in Tps \cup {None} /\ s = [s EXCEPT !.tp = s.tp]
          BY <1>4 DEF Sub
    <3>2. QED  BY <2>1, <3>1
  <2>2. CASE \E t \in Tps : subs' = [subs EXCEPT ![i] = [s EXCEPT !.tp = t]]
        BY <2>2
  <2>3. QED  BY <2>1, <2>2 DEF CreateNative
<1>9. PICK t \in Tps \cup {None} : subs' = [subs EXCEPT ![i] = [s EXCEPT !.tp = t]]
      BY <1>8
<1>10. [s EXCEPT !.tp = t] \in Sub /\ [s EXCEPT !.tp = t].src = "native" /\ [s EXCEPT !.tp = t].prov = prov
       BY <1>4 DEF Sub
<1> HIDE DEF s, prov
<1>11. QED  BY <1>1, <1>2, <1>5, <1>6, <1>7, <1>9, <1>10, WriteRow

LEMMA CreateTrafficKeeps ==
    ASSUME IInv, NEW i \in Ids, NEW r \in Request, CreateTraffic(i, r)
    PROVE  IInv'
<1> DEFINE a == Applied(Blank(r), r)
           s == [a EXCEPT !.quota = Or(r.quota, tps[r.tp].quota), !.reset = Or(r.reset, tps[r.tp].reset)]
<1>1. i \notin born /\ i \notin Rows /\ r.src = "traffic" /\ r.prov = Keep
      BY DEF CreateTraffic, IInv, ServerTypeOK
<1>2. a \in Sub /\ a.src = "traffic" /\ a.snap = None /\ a.failure = None /\ a.prov = None /\ a.tp = r.tp
      BY <1>1, BlankTyped, AppliedTyped
<1>3. Or(r.quota, tps[r.tp].quota) \in Quotas /\ Or(r.reset, tps[r.tp].reset) \in Resets
  <2>1. tps[r.tp] \in Tp
        BY TpTyped DEF CreateTraffic, IInv
  <2>2. QED  BY <2>1 DEF Or, Request, Tp
<1>4. /\ s \in Sub /\ s.src = "traffic" /\ s.snap = None /\ s.failure = None /\ s.prov = None /\ s.tp = r.tp
      BY <1>2, <1>3 DEF Sub
<1>5. \A j \in Rows \ {i} : subs[j].src = "traffic" => subs[j].tp # s.tp
      BY <1>4 DEF CreateTraffic, TrackedByOther
<1>6. /\ subs' = [subs EXCEPT ![i] = s] /\ born' = born \cup {i} /\ fetches' = fetches /\ tps' = tps
      /\ draft' \in [Names -> Urls \cup {None}]
      BY DEF CreateTraffic, IInv, ServerTypeOK
<1> HIDE DEF s
<1>7. QED  BY <1>1, <1>4, <1>5, <1>6, WriteRow

LEMMA DeleteKeeps ==
    ASSUME IInv, NEW i \in Ids, Delete(i)
    PROVE  IInv'
<1>1. i \in Rows /\ subs' = [subs EXCEPT ![i] = None] /\ born' = born /\ tps' = tps /\ fetches' = fetches
      BY DEF Delete
<1>2. \A j \in Ids : subs'[j] = IF j = i THEN None ELSE subs[j]
      BY <1>1 DEF IInv, ServerTypeOK
<1>3. Rows' = Rows \ {i} /\ \A j \in Rows' : subs'[j] = subs[j] /\ j \in Rows
      BY <1>2 DEF Rows
<1>4. draft' \in [Names -> Urls \cup {None}]
      BY DEF Delete, IInv, ServerTypeOK
<1>5. ServerTypeOK'
      BY <1>1, <1>3, <1>4 DEF IInv, ServerTypeOK
<1>6. OneManager'
      BY <1>3 DEF IInv, OneManager
<1>7. OneTracker'
      BY <1>3 DEF IInv, OneTracker
<1>8. TrafficStateIsOwn'
      BY <1>3 DEF IInv, TrafficStateIsOwn
<1>9. FetchesAreOfRows'
      BY <1>1, <1>3 DEF IInv, FetchesAreOfRows
<1>10. QED  BY <1>5, <1>6, <1>7, <1>8, <1>9 DEF IInv

LEMMA TpChangedKeeps ==
    ASSUME IInv, NEW t \in Tps, NEW row \in Tp \cup {None}, TpChanged(t, row)
    PROVE  IInv'
<1>1. /\ subs' = subs /\ born' = born /\ fetches' \subseteq fetches
      /\ draft' \in [Names -> Urls \cup {None}] /\ tps' \in [Tps -> Tp \cup {None}]
      BY DEF TpChanged, IInv, ServerTypeOK
<1>2. QED  BY <1>1, KeepRows

LEMMA DraftChangedKeeps ==
    ASSUME IInv, NEW p \in Names, NEW url \in Urls \cup {None}, DraftChanged(p, url)
    PROVE  IInv'
<1>1. /\ subs' = subs /\ born' = born /\ fetches' \subseteq fetches
      /\ draft' \in [Names -> Urls \cup {None}] /\ tps' \in [Tps -> Tp \cup {None}]
      BY DEF DraftChanged, IInv, ServerTypeOK
<1>2. QED  BY <1>1, KeepRows

(* The source of a row has a URL or none: a native row has an entry name.  *)
LEMMA SourceUrlTyped ==
    ASSUME IInv, NEW i \in Rows
    PROVE  UrlOf(subs[i]) \in Urls \cup {None}
<1>1. i \in Ids /\ subs[i] \in Sub
      BY RowTyped DEF IInv
<1>2. CASE subs[i].src = "native"
  <2>1. subs[i].prov \in Names
        BY <1>1, <1>2 DEF IInv, OneManager, Sub
  <2>2. QED  BY <1>2, <2>1 DEF IInv, ServerTypeOK, UrlOf
<1>3. CASE subs[i].src # "native"
  <2>1. CASE TpExists(subs[i].tp)
    <3>1. tps[subs[i].tp] \in Tp
          BY <2>1, TpTyped DEF IInv
    <3>2. QED  BY <1>3, <2>1, <3>1 DEF UrlOf, Tp
  <2>2. CASE ~TpExists(subs[i].tp)
        BY <1>3, <2>2 DEF UrlOf
  <2>3. QED  BY <2>1, <2>2
<1>4. QED  BY <1>2, <1>3

LEMMA RefreshStartKeeps ==
    ASSUME IInv, NEW n \in FetchIds, NEW i \in Ids, NEW auto \in BOOLEAN, RefreshStart(n, i, auto)
    PROVE  IInv'
<1> DEFINE f == [n |-> n, id |-> i, src |-> subs[i].src, tp |-> subs[i].tp,
                 url |-> UrlOf(subs[i]), auto |-> auto]
<1>1. i \in Rows /\ fetches' = fetches \cup {f} /\ subs' = subs /\ born' = born /\ draft' = draft /\ tps' = tps
      BY DEF RefreshStart
<1>2. subs[i] \in Sub /\ i \in born
      BY <1>1, RowTyped DEF IInv
<1>3. f \in Fetch /\ f.id = i /\ f.src = subs[i].src
      BY <1>1, <1>2, SourceUrlTyped DEF Fetch, Sub
<1> HIDE DEF f
<1>4. Rows' = Rows
      BY <1>1 DEF Rows
<1>5. ServerTypeOK'
      BY <1>1, <1>3, <1>4 DEF IInv, ServerTypeOK
<1>6. OneManager' /\ OneTracker' /\ TrafficStateIsOwn'
      BY <1>1, <1>4 DEF IInv, OneManager, OneTracker, TrafficStateIsOwn
<1>7. FetchesAreOfRows'
      BY <1>1, <1>2, <1>3, <1>4 DEF IInv, FetchesAreOfRows
<1>8. QED  BY <1>5, <1>6, <1>7 DEF IInv

(* A refresh writes data and an error only, of the row's own source.       *)
LEMMA RefreshWrites ==
    ASSUME IInv, NEW f \in fetches, f.id \in Rows,
           NEW a \in Tps \cup Urls \cup {None}, NEW e \in Tps \cup Urls \cup {None},
           subs[f.id].src = "traffic" => a \in {None, subs[f.id].tp} /\ e \in {None, subs[f.id].tp},
           Written(f, [subs[f.id] EXCEPT !.snap = a, !.failure = e]),
           fetches' \subseteq fetches, UNCHANGED <<born, draft, tps>>
    PROVE  IInv'
<1> DEFINE i == f.id
           s == [subs[i] EXCEPT !.snap = a, !.failure = e]
<1>1. i \in Ids /\ i \in Rows /\ subs[i] \in Sub /\ i \in born
      BY RowTyped DEF IInv
<1>2. /\ s \in Sub /\ s.src = subs[i].src /\ s.prov = subs[i].prov /\ s.tp = subs[i].tp
      /\ s.snap = a /\ s.failure = e
      BY <1>1 DEF Sub
<1>3. s.prov = None <=> s.src = "traffic"
      BY <1>1, <1>2 DEF IInv, OneManager
<1>4. s.src = "native" => \A j \in Rows \ {i} : subs[j].prov # s.prov
      BY <1>1, <1>2 DEF IInv, OneManager
<1>5. s.src = "traffic" => \A j \in Rows \ {i} : subs[j].src = "traffic" => subs[j].tp # s.tp
      BY <1>1, <1>2 DEF IInv, OneTracker
<1>6. s.src = "traffic" => s.snap \in {None, s.tp} /\ s.failure \in {None, s.tp}
      BY <1>2
<1>7. /\ subs' = [subs EXCEPT ![i] = s] /\ born' = born \cup {i} /\ tps' = tps
      /\ draft' \in [Names -> Urls \cup {None}]
      BY <1>1 DEF Written, IInv, ServerTypeOK
<1> HIDE DEF s, i
<1>8. QED  BY <1>1, <1>2, <1>3, <1>4, <1>5, <1>6, <1>7, WriteRow

LEMMA TrafficResultKeeps ==
    ASSUME IInv, NEW f \in fetches, NEW ok \in BOOLEAN, f.id \in Rows, f.src = "traffic",
           TrafficResult(f, ok), fetches' \subseteq fetches, UNCHANGED <<born, draft, tps>>
    PROVE  IInv'
<1> DEFINE s == subs[f.id]
<1>1. s \in Sub /\ s.src = "traffic" /\ f.tp \in Tps \cup {None}
      BY RowTyped DEF IInv, FetchesAreOfRows, ServerTypeOK, Fetch
<1>2. s.snap \in {None, s.tp} /\ s.failure \in {None, s.tp}
      BY <1>1 DEF IInv, TrafficStateIsOwn
<1>3. CASE subs' = subs
      BY <1>3, KeepRows DEF IInv, ServerTypeOK
<1>4. CASE f.url = None /\ s.tp = f.tp /\ Written(f, [s EXCEPT !.failure = IF TpExists(f.tp) THEN None ELSE f.tp])
  <2> DEFINE e == IF TpExists(f.tp) THEN None ELSE f.tp
  <2>1. e \in {None, s.tp} /\ e \in Tps \cup Urls \cup {None}
        BY <1>1, <1>4
  <2>2. [s EXCEPT !.failure = e] = [s EXCEPT !.snap = s.snap, !.failure = e]
        BY <1>1 DEF Sub
  <2>3. s.snap \in Tps \cup Urls \cup {None} /\ Written(f, [s EXCEPT !.snap = s.snap, !.failure = e])
        BY <1>1, <1>4, <2>2 DEF Sub
  <2> HIDE DEF e
  <2>4. QED  BY <1>2, <2>1, <2>3, RefreshWrites
<1>5. CASE StillSource(f) /\ Written(f, [s EXCEPT !.snap = f.tp, !.failure = None])
  <2>1. f.tp = s.tp
        BY <1>5 DEF StillSource
  <2>2. QED  BY <1>1, <1>5, <2>1, RefreshWrites
<1>6. CASE StillSource(f) /\ Written(f, [s EXCEPT !.failure = f.tp])
  <2>1. f.tp = s.tp
        BY <1>6 DEF StillSource
  <2>2. [s EXCEPT !.failure = f.tp] = [s EXCEPT !.snap = s.snap, !.failure = f.tp]
        BY <1>1 DEF Sub
  <2>3. s.snap \in Tps \cup Urls \cup {None} /\ Written(f, [s EXCEPT !.snap = s.snap, !.failure = f.tp])
        BY <1>1, <1>6, <2>2 DEF Sub
  <2>4. QED  BY <1>1, <1>2, <2>1, <2>3, RefreshWrites
<1>7. QED  BY <1>3, <1>4, <1>5, <1>6 DEF TrafficResult

LEMMA NativeResultKeeps ==
    ASSUME IInv, NEW f \in fetches, NEW ok \in BOOLEAN, f.id \in Rows, f.src = "native",
           NativeResult(f, ok), fetches' \subseteq fetches, UNCHANGED <<born, draft, tps>>
    PROVE  IInv'
<1> DEFINE s == subs[f.id]
<1>1. s \in Sub /\ s.src # "traffic" /\ f.url \in Urls \cup {None}
      BY RowTyped DEF IInv, FetchesAreOfRows, ServerTypeOK, Fetch
<1>2. CASE subs' = subs
      BY <1>2, KeepRows DEF IInv, ServerTypeOK
<1>3. CASE \E e \in {None, f.url} : Written(f, [s EXCEPT !.snap = f.url, !.failure = e])
  <2>1. PICK e \in {None, f.url} : Written(f, [s EXCEPT !.snap = f.url, !.failure = e])
        BY <1>3
  <2>2. QED  BY <1>1, <2>1, RefreshWrites
<1>4. CASE Written(f, [s EXCEPT !.failure = f.url])
  <2>1. [s EXCEPT !.failure = f.url] = [s EXCEPT !.snap = s.snap, !.failure = f.url]
        BY <1>1 DEF Sub
  <2>2. s.snap \in Tps \cup Urls \cup {None} /\ Written(f, [s EXCEPT !.snap = s.snap, !.failure = f.url])
        BY <1>1, <1>4, <2>1 DEF Sub
  <2>3. QED  BY <1>1, <2>2, RefreshWrites
<1>5. QED  BY <1>2, <1>3, <1>4 DEF NativeResult

LEMMA RefreshEndKeeps ==
    ASSUME IInv, NEW f \in fetches, NEW ok \in BOOLEAN, RefreshEnd(f, ok)
    PROVE  IInv'
<1>1. fetches' \subseteq fetches /\ UNCHANGED <<born, draft, tps>>
      BY DEF RefreshEnd
<1>2. CASE f.id \notin Rows /\ UNCHANGED subs
      BY <1>1, <1>2, KeepRows DEF IInv, ServerTypeOK
<1>3. CASE f.id \in Rows /\ f.src = "traffic" /\ TrafficResult(f, ok)
      BY <1>1, <1>3, TrafficResultKeeps
<1>4. CASE f.id \in Rows /\ f.src = "native" /\ NativeResult(f, ok)
      BY <1>1, <1>4, NativeResultKeeps
<1>5. QED  BY <1>2, <1>3, <1>4 DEF RefreshEnd

-----------------------------------------------------------------------------
LEMMA InitEstablishes == ServerInit => IInv
<1> SUFFICES ASSUME ServerInit PROVE IInv
    OBVIOUS
<1>1. Rows = {}
      BY DEF ServerInit, Rows
<1>2. ServerTypeOK
      BY <1>1 DEF ServerInit, ServerTypeOK
<1>3. OneManager /\ OneTracker /\ TrafficStateIsOwn /\ FetchesAreOfRows
      BY <1>1 DEF ServerInit, OneManager, OneTracker, TrafficStateIsOwn, FetchesAreOfRows
<1>4. QED  BY <1>2, <1>3 DEF IInv

LEMMA NextPreserves == IInv /\ [ServerNext]_serverVars => IInv'
<1> SUFFICES ASSUME IInv, [ServerNext]_serverVars PROVE IInv'
    OBVIOUS
<1>1. CASE \E i \in Ids, r \in Request : Saved(i, r)
      BY <1>1, UpdateNativeKeeps, UpdateTrafficKeeps, CreateNativeKeeps, CreateTrafficKeeps DEF Saved
<1>2. CASE \E i \in Ids : Delete(i)
      BY <1>2, DeleteKeeps
<1>3. CASE \E t \in Tps : \E row \in Tp \cup {None} : TpChanged(t, row)
      BY <1>3, TpChangedKeeps
<1>4. CASE \E p \in Names : \E url \in Urls \cup {None} : DraftChanged(p, url)
      BY <1>4, DraftChangedKeeps
<1>5. CASE \E n \in FetchIds, i \in Ids, auto \in BOOLEAN : RefreshStart(n, i, auto)
      BY <1>5, RefreshStartKeeps
<1>6. CASE \E f \in fetches, ok \in BOOLEAN : RefreshEnd(f, ok)
      BY <1>6, RefreshEndKeeps
<1>7. CASE UNCHANGED serverVars
      BY <1>7, KeepRows DEF IInv, ServerTypeOK, serverVars
<1>8. QED  BY <1>1, <1>2, <1>3, <1>4, <1>5, <1>6, <1>7 DEF ServerNext

(* The inductive invariant: types, one manager, one tracker, own state and *)
(* fetches that belong to the row they were started for.                   *)
THEOREM Invariance == ServerSpec => []IInv
<1>1. QED  BY InitEstablishes, NextPreserves, PTL DEF ServerSpec

(* The rows, the draft's entries and the refreshes in flight keep their    *)
(* types (ServerTypeOK).                                                   *)
THEOREM ServerTypeCorrect == ServerSpec => []ServerTypeOK
<1>1. IInv => ServerTypeOK
      BY DEF IInv
<1>2. QED  BY <1>1, Invariance, PTL

(* No two native subscriptions ever manage one provider entry of the draft *)
(* (OneManager), however updates, creations and deletions interleave.      *)
THEOREM ProvidersHaveOneManager == ServerSpec => []OneManager
<1>1. IInv => OneManager
      BY DEF IInv
<1>2. QED  BY <1>1, Invariance, PTL

(* No two traffic sources are ever bound to one traffic provider           *)
(* (OneTracker).                                                           *)
THEOREM TpsHaveOneTracker == ServerSpec => []OneTracker
<1>1. IInv => OneTracker
      BY DEF IInv
<1>2. QED  BY <1>1, Invariance, PTL

(* What a traffic source shows was fetched for the provider it is bound to *)
(* (TrafficStateIsOwn), although a refresh talks to the vendor without the *)
(* lock.                                                                   *)
THEOREM UsageIsOwn == ServerSpec => []TrafficStateIsOwn
<1>1. IInv => TrafficStateIsOwn
      BY DEF IInv
<1>2. QED  BY <1>1, Invariance, PTL
=============================================================================
