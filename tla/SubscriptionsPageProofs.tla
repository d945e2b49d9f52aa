---------------------- MODULE SubscriptionsPageProofs ----------------------
(***************************************************************************)
(* What the subscriptions page promises for any number of rows, names,     *)
(* providers and requests in flight.  First, that the page and everybody   *)
(* beside it only take steps of the server of Subscriptions, so that the   *)
(* server's invariant (SubscriptionsProofs) holds here; then the page's    *)
(* own invariant: the types, what a form in the making says of the fields  *)
(* typed in, and what a save in flight inherits from its form.             *)
(***************************************************************************)
EXTENDS SubscriptionsPage, SubscriptionsProofs

(* The dialog, the requests in flight and the replies, as typed records.   *)
FormRec ==
    [open : BOOLEAN, id : Ids \cup {None}, base : Sub \cup {None}, name : Names \cup {None},
     src : {"native", "traffic"}, prov : Names \cup {None}, provTouched : BOOLEAN,
     url : Urls \cup {None}, enabled : BOOLEAN, quota : Quotas, quotaDirty : BOOLEAN,
     expire : Expiries, expireDirty : BOOLEAN, reset : Resets, resetDirty : BOOLEAN,
     tp : Tps \cup {None}, touched : SUBSET {"quota", "expire", "reset"}]

SaveRec ==
    [n : Nat, id : Ids \cup {None}, base : Sub \cup {None}, touched : SUBSET {"quota", "expire", "reset"},
     req : Request, st : {"sent", "lost", "ok", "refused"}]

GetRec == [who : Ids \cup {"poll", "save", "removal", "all"}, lists : Snapshot \cup {None}]

RemovalRec == [id : Ids, st : {"sent", "lost", "ok", "refused"}]

AskRec == [id : Ids, who : {"one", "all"}, n : FetchIds \cup {None}, row : Sub \cup {None},
           st : {"sent", "run", "done", "failed"}]

(* A supplement field goes out only if it is dirty, and it is dirty only   *)
(* if somebody typed in it since the dialog opened or a provider was       *)
(* chosen; an edited row is known.                                         *)
DirtyIsTouched(f) ==
    /\ f.quotaDirty => "quota" \in f.touched
    /\ f.expireDirty => "expire" \in f.touched
    /\ f.resetDirty => "reset" \in f.touched

(* What a save carries of its form: a supplement field nobody typed in is  *)
(* omitted, and a URL sent for an existing row goes to the entry the row   *)
(* had when the dialog opened.                                             *)
SaysWhatWasTyped(c) ==
    /\ "quota" \notin c.touched => c.req.quota = Keep
    /\ "expire" \notin c.touched => c.req.expire = Keep
    /\ (c.req.src = "traffic" /\ "reset" \notin c.touched) => c.req.reset = Keep
    /\ (c.id # None /\ c.req.url # None) => c.req.prov = c.base.prov /\ c.req.prov \in Names

ClientTypeOK ==
    /\ left \in Left
    /\ seen \in Snapshot
    /\ gets \subseteq GetRec
    /\ form \in FormRec /\ DirtyIsTouched(form)
    /\ save \subseteq SaveRec
    /\ deleting \in Ids \cup {None} /\ removal \subseteq RemovalRec
    /\ refreshing \subseteq Ids \cup {"all"} /\ asks \subseteq AskRec

SavesSayWhatWasTyped == \A c \in save : SaysWhatWasTyped(c)

PInv == IInv /\ ClientTypeOK /\ SavesSayWhatWasTyped /\ WaitingMeansWork

-----------------------------------------------------------------------------
(* The form. *)

LEMMA ClosedFormTyped == ClosedForm \in FormRec /\ DirtyIsTouched(ClosedForm)
BY Sentinels DEF ClosedForm, FormRec, DirtyIsTouched

LEMMA CreateFormTyped == CreateForm \in FormRec /\ DirtyIsTouched(CreateForm)
BY Sentinels DEF CreateForm, ClosedForm, FormRec, DirtyIsTouched

LEMMA EditFormTyped ==
    ASSUME NEW i \in Ids, NEW s \in Sub
    PROVE  EditForm(i, s) \in FormRec /\ DirtyIsTouched(EditForm(i, s))
<1>1. /\ s.name \in Names /\ s.src \in {"native", "traffic"} /\ s.prov \in Names \cup {None}
      /\ s.enabled \in BOOLEAN /\ s.quota \in Quotas /\ s.expire \in Expiries /\ s.reset \in Resets
      /\ s.tp \in Tps \cup {None}
      BY DEF Sub
<1> DEFINE Filled(p, q, x) ==
             [ClosedForm EXCEPT !.open = TRUE, !.id = i, !.base = s, !.name = s.name, !.src = s.src, !.prov = p,
                                !.provTouched = TRUE, !.enabled = s.enabled, !.reset = s.reset, !.tp = s.tp,
                                !.quota = q, !.expire = x]
           prov == IF s.prov = None THEN s.name ELSE s.prov
           quota == IF s.snap = None THEN s.quota ELSE None
           expire == IF s.snap = None THEN s.expire ELSE None
<1>2. prov \in Names \cup {None} /\ quota \in Quotas /\ expire \in Expiries
      BY <1>1, Sentinels
<1>3. ASSUME NEW p \in Names \cup {None}, NEW q \in Quotas, NEW x \in Expiries
      PROVE  Filled(p, q, x) \in FormRec /\ DirtyIsTouched(Filled(p, q, x))
  <2>1. Filled(p, q, x) \in FormRec
    <3> DEFINE a == [ClosedForm EXCEPT !.open = TRUE, !.id = i, !.base = s, !.name = s.name, !.src = s.src]
               b == [a EXCEPT !.prov = p, !.provTouched = TRUE, !.enabled = s.enabled, !.reset = s.reset]
    <3>1. a \in FormRec
          BY <1>1, ClosedFormTyped DEF FormRec
    <3>2. b \in FormRec
      <4> HIDE DEF a
      <4>1. QED  BY <1>1, <3>1 DEF FormRec
    <3>3. Filled(p, q, x) = [b EXCEPT !.tp = s.tp, !.quota = q, !.expire = x]
          OBVIOUS
    <3> HIDE DEF a, b, Filled
    <3>4. [b EXCEPT !.tp = s.tp, !.quota = q, !.expire = x] \in FormRec
          BY <1>1, <3>2 DEF FormRec
    <3>5. QED  BY <3>3, <3>4
  <2>2. ~Filled(p, q, x).quotaDirty /\ ~Filled(p, q, x).expireDirty /\ ~Filled(p, q, x).resetDirty
        BY DEF ClosedForm
  <2>3. QED  BY <2>1, <2>2 DEF DirtyIsTouched
<1>4. EditForm(i, s) = Filled(prov, quota, expire)
      BY DEF EditForm
<1> HIDE DEF Filled, prov, quota, expire
<1>5. QED  BY <1>2, <1>3, <1>4

(* Every input leaves a typed form whose dirty fields were typed in: what  *)
(* choosing a provider fills in is clean again.                            *)
LEMMA EditsTyped ==
    ASSUME NEW f \in FormRec, DirtyIsTouched(f),
           NEW ts \in [Tps -> Tp \cup {None}], NEW e \in Edits(f, ts)
    PROVE  e \in FormRec /\ DirtyIsTouched(e)
<1> USE DEF FormRec, DirtyIsTouched
<1>1. ASSUME NEW v \in Names, e = NameTyped(f, v)
      PROVE  e \in FormRec /\ DirtyIsTouched(e)
  <2>1. e \in FormRec
        BY <1>1 DEF NameTyped
  <2>2. /\ e.quotaDirty = f.quotaDirty /\ e.expireDirty = f.expireDirty /\ e.resetDirty = f.resetDirty
        /\ e.touched = f.touched
        BY <1>1 DEF NameTyped
  <2>3. QED  BY <2>1, <2>2
<1>2. ASSUME NEW v \in Quotas, e = QuotaTyped(f, v)
      PROVE  e \in FormRec /\ DirtyIsTouched(e)
      BY <1>2 DEF QuotaTyped
<1>3. ASSUME NEW v \in Expiries, e = ExpiryTyped(f, v)
      PROVE  e \in FormRec /\ DirtyIsTouched(e)
      BY <1>3 DEF ExpiryTyped
<1>4. ASSUME NEW v \in Resets, e = ResetTyped(f, v)
      PROVE  e \in FormRec /\ DirtyIsTouched(e)
      BY <1>4 DEF ResetTyped
<1>5. ASSUME e = EnabledToggled(f)
      PROVE  e \in FormRec /\ DirtyIsTouched(e)
  <2>1. e \in FormRec
    <3>1. \A b \in BOOLEAN : [f EXCEPT !.enabled = b] \in FormRec
          OBVIOUS
    <3>2. (~f.enabled) \in BOOLEAN /\ e = [f EXCEPT !.enabled = ~f.enabled]
          BY <1>5 DEF EnabledToggled
    <3> HIDE DEF FormRec
    <3>3. QED  BY <3>1, <3>2, Zenon
  <2>2. /\ e.quotaDirty = f.quotaDirty /\ e.expireDirty = f.expireDirty /\ e.resetDirty = f.resetDirty
        /\ e.touched = f.touched
        BY <1>5 DEF EnabledToggled
  <2>3. QED  BY <2>1, <2>2
<1>6. ASSUME NEW v \in {"native", "traffic"}, e = SourceChosen(f, v)
      PROVE  e \in FormRec /\ DirtyIsTouched(e)
      BY <1>6 DEF SourceChosen
<1>7. ASSUME NEW v \in {None} \cup {t \in Tps : ts[t] # None}, e = TrafficChosen(f, v, ts)
      PROVE  e \in FormRec /\ DirtyIsTouched(e)
  <2>1. CASE Creating(f) /\ v # None
    <3>1. ts[v].quota \in Quotas /\ ts[v].reset \in Resets /\ v \in Tps
          BY <2>1 DEF Tp
    <3> DEFINE q == ts[v].quota
               r == ts[v].reset
               a == [f EXCEPT !.tp = v, !.quota = q, !.reset = r]
    <3>2. e = [a EXCEPT !.quotaDirty = FALSE, !.resetDirty = FALSE, !.touched = f.touched \ {"quota", "reset"}]
          BY <1>7, <2>1 DEF TrafficChosen
    <3> HIDE DEF q, r
    <3>3. a \in FormRec /\ a.expireDirty = f.expireDirty /\ a.touched = f.touched
          BY <3>1 DEF q, r
    <3> HIDE DEF a
    <3>4. e \in FormRec
          BY <3>2, <3>3
    <3>5. ~e.quotaDirty /\ ~e.resetDirty /\ e.expireDirty = a.expireDirty /\ e.touched = f.touched \ {"quota", "reset"}
          BY <3>2, <3>3
    <3>6. QED  BY <3>3, <3>4, <3>5
  <2>2. CASE ~(Creating(f) /\ v # None)
        BY <1>7, <2>2 DEF TrafficChosen
  <2>3. QED  BY <2>1, <2>2
<1>8. ASSUME NEW v \in Names \cup {None}, e = ProviderTyped(f, v)
      PROVE  e \in FormRec /\ DirtyIsTouched(e)
      BY <1>8 DEF ProviderTyped
<1>9. ASSUME NEW v \in Urls, e = UrlTyped(f, v)
      PROVE  e \in FormRec /\ DirtyIsTouched(e)
      BY <1>9 DEF UrlTyped
<1>10. ASSUME NEW v \in {None} \cup {t \in Tps : ts[t] # None}, e = TrackerChosen(f, v)
       PROVE  e \in FormRec /\ DirtyIsTouched(e)
       BY <1>10 DEF TrackerChosen
<1> HIDE DEF FormRec, DirtyIsTouched
<1>11. \/ \E v \in Names : e = NameTyped(f, v)
       \/ \E v \in Quotas : e = QuotaTyped(f, v)
       \/ \E v \in Expiries : e = ExpiryTyped(f, v)
       \/ \E v \in Resets : e = ResetTyped(f, v)
       \/ e = EnabledToggled(f)
       \/ \E v \in {"native", "traffic"} : e = SourceChosen(f, v)
       \/ \E v \in {None} \cup {t \in Tps : ts[t] # None} : e = TrafficChosen(f, v, ts)
       \/ \E v \in Names \cup {None} : e = ProviderTyped(f, v)
       \/ \E v \in Urls : e = UrlTyped(f, v)
       \/ \E v \in {None} \cup {t \in Tps : ts[t] # None} : e = TrackerChosen(f, v)
       BY DEF Edits
<1>12. QED  BY <1>1, <1>2, <1>3, <1>4, <1>5, <1>6, <1>7, <1>8, <1>9, <1>10, <1>11

(* A form that passes the checks makes a request of the API's shape.       *)
LEMMA InputTyped ==
    ASSUME NEW f \in FormRec, NEW links, Valid(f, links)
    PROVE  Input(f, links) \in Request
<1>1. f.name \in Names
      BY DEF Valid, FormRec
<1>2. ProviderOf(f) \in Names
      BY <1>1 DEF ProviderOf, FormRec
<1>3. UrlSent(f, links) \in Urls \cup {None}
      BY DEF UrlSent, FormRec
<1>4. /\ QuotaSent(f) \in Quotas \cup {Keep} /\ ExpirySent(f) \in Expiries \cup {Keep}
      /\ ResetSent(f) \in Resets \cup {Keep}
      BY DEF QuotaSent, ExpirySent, ResetSent, FormRec
<1>5. f.enabled \in BOOLEAN /\ f.src \in {"native", "traffic"} /\ f.tp \in Tps \cup {None}
      BY DEF FormRec
<1>6. QED  BY <1>1, <1>2, <1>3, <1>4, <1>5 DEF Input, Request

(* What submit makes of a form says what was typed.                        *)
LEMMA SubmitSays ==
    ASSUME NEW f \in FormRec, DirtyIsTouched(f), NEW links, Valid(f, links),
           NEW c \in SaveRec, c.id = f.id, c.base = f.base, c.touched = f.touched,
           c.req = Input(f, links)
    PROVE  SaysWhatWasTyped(c)
<1>1. /\ c.req.quota = QuotaSent(f) /\ c.req.expire = ExpirySent(f) /\ c.req.reset = ResetSent(f)
      /\ c.req.src = f.src /\ c.req.url = UrlSent(f, links)
      /\ c.req.prov = IF f.src = "native" THEN ProviderOf(f) ELSE Keep
      BY DEF Input
<1>2. /\ "quota" \notin c.touched => c.req.quota = Keep
      /\ "expire" \notin c.touched => c.req.expire = Keep
      /\ (c.req.src = "traffic" /\ "reset" \notin c.touched) => c.req.reset = Keep
      BY <1>1 DEF QuotaSent, ExpirySent, ResetSent, DirtyIsTouched
<1>3. ASSUME c.id # None, c.req.url # None
      PROVE  c.req.prov = c.base.prov /\ c.req.prov \in Names
  <2>1. f.src = "native" /\ (~Existing(f, links) \/ OwnProvider(f))
        BY <1>1, <1>3 DEF UrlSent
  <2>2. OwnProvider(f)
        BY <2>1, <1>3 DEF Valid, Creating
  <2>3. ProviderOf(f) \in Names
        BY DEF Valid, FormRec, ProviderOf
  <2>4. QED  BY <1>1, <2>1, <2>2, <2>3 DEF OwnProvider
<1>4. QED  BY <1>2, <1>3 DEF SaysWhatWasTyped

-----------------------------------------------------------------------------
(* The server's side of every step. *)

(* What another administrator sends is a request of the API.               *)
LEMMA OneChangeTyped ==
    ASSUME NEW s \in Sub, NEW r \in OneChange(s)
    PROVE  r \in Request
<1>1. Echo(s) \in Request
      BY DEF Echo, Sub, Request
<1> DEFINE e == Echo(s)
<1> HIDE DEF e
<1>2. e \in Request
      BY <1>1 DEF e
<1>3. [e EXCEPT !.enabled = ~@] \in Request
  <2>1. \A b \in BOOLEAN : [e EXCEPT !.enabled = b] \in Request
        BY <1>2 DEF Request
  <2>2. (~e.enabled) \in BOOLEAN /\ [e EXCEPT !.enabled = ~@] = [e EXCEPT !.enabled = ~e.enabled]
        OBVIOUS
  <2>3. QED  BY <2>1, <2>2, Zenon
<1>4. /\ \A v \in Quotas : [e EXCEPT !.quota = v] \in Request
      /\ \A v \in Expiries : [e EXCEPT !.expire = v] \in Request
      /\ \A v \in Resets : [e EXCEPT !.reset = v] \in Request
      /\ \A v \in Tps : [e EXCEPT !.tp = v] \in Request
      /\ \A v \in Names : [e EXCEPT !.prov = v] \in Request
      BY <1>2 DEF Request
<1>5. \/ r = [e EXCEPT !.enabled = ~@]
      \/ \E v \in Quotas : r = [e EXCEPT !.quota = v]
      \/ \E v \in Expiries : r = [e EXCEPT !.expire = v]
      \/ \E v \in Resets : r = [e EXCEPT !.reset = v]
      \/ \E v \in Tps : r = [e EXCEPT !.tp = v]
      \/ \E v \in Names : r = [e EXCEPT !.prov = v]
      BY DEF OneChange, e
<1>6. QED  BY <1>3, <1>4, <1>5

LEMMA TpChangesTyped ==
    ASSUME ServerTypeOK, NEW t \in Tps, NEW row \in TpChanges(t)
    PROVE  row \in Tp \cup {None}
<1>1. tps[t] \in Tp \cup {None}
      BY DEF ServerTypeOK
<1>2. CASE tps[t] = None
      BY <1>2 DEF TpChanges
<1>3. CASE tps[t] # None
  <2>1. tps[t] \in Tp
        BY <1>1, <1>3
  <2> DEFINE w == tps[t]
  <2> HIDE DEF w
  <2>2. \A v \in Urls : [w EXCEPT !.url = v] \in Tp
        BY <2>1 DEF Tp, w
  <2>3. row = None \/ \E v \in Urls : row = [w EXCEPT !.url = v]
        BY <1>3 DEF TpChanges, w
  <2>4. QED  BY <2>2, <2>3
<1>4. QED  BY <1>2, <1>3

(* A save is executed on the row of its form, or creates one.              *)
LEMMA ExecutesTyped ==
    ASSUME PInv, NEW c \in save, Executes(c)
    PROVE  \E i \in Ids : Saved(i, c.req) /\ (c.id = None => i \notin born) /\ (c.id # None => i = c.id)
<1>1. c.id \in Ids \cup {None}
      BY DEF PInv, ClientTypeOK, SaveRec
<1>2. QED  BY <1>1 DEF Executes

LEMMA StepIsServerStep ==
    ASSUME PInv, Next
    PROVE  ServerNext \/ UNCHANGED serverVars
<1> USE DEF PInv, IInv
<1>1. CASE ServeSave
  <2>1. PICK c \in save : Executes(c) \/ UNCHANGED serverVars
        BY <1>1 DEF ServeSave
  <2>2. c.req \in Request
        BY DEF ClientTypeOK, SaveRec
  <2>3. CASE Executes(c)
        BY <2>2, <2>3, ExecutesTyped DEF ServerNext
  <2>4. QED  BY <2>1, <2>3
<1>2. CASE ServeRemoval
  <2>1. PICK d \in removal : Delete(d.id) \/ UNCHANGED serverVars
        BY <1>2 DEF ServeRemoval
  <2>2. d.id \in Ids
        BY DEF ClientTypeOK, RemovalRec
  <2>3. QED  BY <2>1, <2>2 DEF ServerNext
<1>3. CASE ServeAsk
  <2>1. PICK a \in asks : (\E n \in FetchIds : RefreshStart(n, a.id, FALSE)) \/ UNCHANGED serverVars
        BY <1>3 DEF ServeAsk
  <2>2. a.id \in Ids
        BY DEF ClientTypeOK, AskRec
  <2>3. QED  BY <2>1, <2>2 DEF ServerNext
<1>4. CASE Background
      BY <1>4 DEF Background, ServerNext
<1>5. CASE ServeRefresh
      BY <1>5 DEF ServeRefresh, ServerNext
<1>6. CASE Others
  <2>1. ASSUME NEW i \in Rows, NEW r \in OneChange(subs[i]), Saved(i, r)
        PROVE  ServerNext
    <3>1. i \in Ids /\ r \in Request
          BY RowTyped, OneChangeTyped
    <3>2. QED  BY <2>1, <3>1 DEF ServerNext
  <2>2. ASSUME NEW i \in Rows, Delete(i)
        PROVE  ServerNext
        BY <2>2, RowTyped DEF ServerNext
  <2>3. ASSUME NEW t \in Tps, NEW row \in TpChanges(t), TpChanged(t, row)
        PROVE  ServerNext
        BY <2>3, TpChangesTyped DEF ServerNext
  <2>4. ASSUME NEW p \in Names, NEW url \in Urls \cup {None}, DraftChanged(p, url)
        PROVE  ServerNext
        BY <2>4 DEF ServerNext
  <2>5. QED  BY <1>6, <2>1, <2>2, <2>3, <2>4 DEF Others
<1>7. CASE Poll \/ ServeGet \/ Fetched \/ Open \/ Type \/ Cancel \/ Submit \/ SaveReplied
      BY <1>7 DEF Poll, ServeGet, Fetched, Open, Type, Cancel, Submit, SaveReplied
<1>8. CASE AskDelete \/ Confirm \/ RemovalReplied \/ RefreshOne \/ RefreshAll \/ RefreshReplied \/ AllSettled
      BY <1>8 DEF AskDelete, Confirm, RemovalReplied, RefreshOne, RefreshAll, RefreshReplied, AllSettled
<1>9. QED  BY <1>1, <1>2, <1>3, <1>4, <1>5, <1>6, <1>7, <1>8 DEF Next

-----------------------------------------------------------------------------
(* The client's types: one lemma per variable, over the steps that change  *)
(* it.                                                                     *)

LEMMA SpendTyped ==
    ASSUME left \in Left
    PROVE  /\ Spend("typed") => left' \in Left
           /\ Spend("saves") => left' \in Left
           /\ Spend("others") => left' \in Left
           /\ Spend("polls") => left' \in Left
           /\ Spend("refreshes") => left' \in Left
           /\ Spend("faults") => left' \in Left
           /\ NothingSpent => left' \in Left
BY DEF Spend, Left, NothingSpent

LEMMA LeftTyped ==
    ASSUME left \in Left, Next
    PROVE  left' \in Left
<1>1. \/ Spend("typed") \/ Spend("saves") \/ Spend("others") \/ Spend("polls") \/ Spend("refreshes")
      \/ Spend("faults") \/ NothingSpent
  <2>1. CASE Poll \/ ServeGet \/ Fetched \/ Open \/ Type \/ Cancel \/ Submit \/ ServeSave \/ SaveReplied
        BY <2>1 DEF Poll, ServeGet, Fetched, Open, Type, Cancel, Submit, ServeSave, SaveReplied, NothingSpent
  <2>2. CASE AskDelete \/ Confirm \/ ServeRemoval \/ RemovalReplied
        BY <2>2 DEF AskDelete, Confirm, ServeRemoval, RemovalReplied, NothingSpent
  <2>3. CASE RefreshOne \/ RefreshAll \/ ServeAsk \/ Background \/ ServeRefresh \/ RefreshReplied \/ AllSettled \/ Others
        BY <2>3 DEF RefreshOne, RefreshAll, ServeAsk, Background, ServeRefresh, RefreshReplied, AllSettled,
                    Others, NothingSpent
  <2>4. QED  BY <2>1, <2>2, <2>3 DEF Next
<1>2. QED  BY <1>1, SpendTyped

LEMMA FormTyped ==
    ASSUME PInv, Next
    PROVE  form' \in FormRec /\ DirtyIsTouched(form')
<1>0. form \in FormRec /\ DirtyIsTouched(form) /\ seen \in Snapshot
      BY DEF PInv, ClientTypeOK
<1>1. CASE form' = form
      BY <1>0, <1>1
<1>2. CASE form' = ClosedForm
      BY <1>2, ClosedFormTyped
<1>3. CASE Open
  <2>1. ASSUME NEW i \in Ids, CardShown(i), form' = EditForm(i, seen.subs[i])
        PROVE  form' \in FormRec /\ DirtyIsTouched(form')
    <3>1. seen.subs[i] \in Sub
          BY <1>0, <2>1 DEF CardShown, Snapshot
    <3>2. QED  BY <2>1, <3>1, EditFormTyped
  <2>2. QED  BY <1>3, <2>1, CreateFormTyped DEF Open
<1>4. CASE Type
  <2>1. seen.tps \in [Tps -> Tp \cup {None}] /\ form' \in Edits(form, seen.tps)
        BY <1>0, <1>4 DEF Type, Snapshot
  <2>2. QED  BY <1>0, <2>1, EditsTyped
<1>5. CASE Fetched \/ Cancel \/ AskDelete
      BY <1>1, <1>2, <1>5 DEF Fetched, Cancel, AskDelete
<1>6. CASE Poll \/ ServeGet \/ Submit \/ ServeSave \/ SaveReplied \/ Confirm \/ ServeRemoval \/ RemovalReplied
      BY <1>1, <1>6 DEF Poll, ServeGet, Submit, ServeSave, SaveReplied, Confirm, ServeRemoval, RemovalReplied, formVars
<1>7. CASE RefreshOne \/ RefreshAll \/ ServeAsk \/ Background \/ ServeRefresh \/ RefreshReplied \/ AllSettled \/ Others
      BY <1>1, <1>7 DEF RefreshOne, RefreshAll, ServeAsk, Background, ServeRefresh, RefreshReplied, AllSettled,
                        Others, clientVars, formVars
<1>8. QED  BY <1>3, <1>4, <1>5, <1>6, <1>7 DEF Next

LEMMA LinksTyped ==
    ASSUME NEW rows, NEW entries
    PROVE  Links(rows, entries) \in [Names -> {Absent, Free} \cup Ids]
<1>1. ASSUME NEW p \in Names
      PROVE  (IF entries[p] = None THEN Absent
              ELSE LET Of == {i \in Ids : rows[i] # None /\ rows[i].src = "native" /\ rows[i].prov = p}
                   IN IF Of = {} THEN Free ELSE CHOOSE i \in Of : TRUE) \in {Absent, Free} \cup Ids
  <2> DEFINE Of == {i \in Ids : rows[i] # None /\ rows[i].src = "native" /\ rows[i].prov = p}
  <2>1. Of # {} => (CHOOSE i \in Of : TRUE) \in Of
        OBVIOUS
  <2>2. Of \subseteq Ids
        OBVIOUS
  <2> HIDE DEF Of
  <2>3. (IF entries[p] = None THEN Absent ELSE IF Of = {} THEN Free ELSE CHOOSE i \in Of : TRUE)
          \in {Absent, Free} \cup Ids
        BY <2>1, <2>2
  <2>4. QED  BY <2>3 DEF Of
<1>2. QED  BY <1>1 DEF Links

LEMMA GetTyped ==
    ASSUME NEW who \in Ids \cup {"poll", "save", "removal", "all"}
    PROVE  Get(who) \in GetRec /\ Get(who).who = who
BY DEF Get, GetRec

(* A reply is a snapshot: of the lists, or of the empty list that a failed *)
(* one is taken for.                                                       *)
LEMMA ReplyTyped ==
    ASSUME ServerTypeOK, NEW links \in {Lists.links, NoLinks}, NEW ts \in {tps, NoTps}
    PROVE  [subs |-> subs, links |-> links, tps |-> ts] \in Snapshot
<1>1. links \in [Names -> {Absent, Free} \cup Ids]
      BY LinksTyped DEF Lists, NoLinks
<1>2. ts \in [Tps -> Tp \cup {None}] /\ subs \in [Ids -> Sub \cup {None}]
      BY DEF NoTps, ServerTypeOK
<1>3. QED  BY <1>1, <1>2 DEF Snapshot

LEMMA GetsTyped ==
    ASSUME PInv, Next
    PROVE  gets' \subseteq GetRec
<1>0. gets \subseteq GetRec /\ asks \subseteq AskRec
      BY DEF PInv, ClientTypeOK
<1>1. CASE gets' \subseteq gets
      BY <1>0, <1>1
<1>2. CASE \E who \in Ids \cup {"poll", "save", "removal", "all"} : gets' = gets \cup {Get(who)}
      BY <1>0, <1>2, GetTyped
<1>3. CASE ServeGet
  <2>1. PICK g \in gets, links \in {Lists.links, NoLinks}, ts \in {tps, NoTps} :
          gets' = (gets \ {g}) \cup {[g EXCEPT !.lists = [subs |-> subs, links |-> links, tps |-> ts]]}
        BY <1>3 DEF ServeGet
  <2>2. [subs |-> subs, links |-> links, tps |-> ts] \in Snapshot
        BY ReplyTyped DEF PInv, IInv
  <2>3. \A x \in Snapshot : [g EXCEPT !.lists = x] \in GetRec
        BY <1>0 DEF GetRec
  <2>4. QED  BY <1>0, <2>1, <2>2, <2>3
<1>4. CASE RefreshReplied
  <2>1. PICK a \in asks : gets' = gets \cup {Get(a.id)} \/ gets' = gets
        BY <1>4 DEF RefreshReplied
  <2>2. a.id \in Ids
        BY <1>0 DEF AskRec
  <2>3. QED  BY <1>1, <1>2, <2>1, <2>2
<1>5. CASE Poll \/ SaveReplied \/ RemovalReplied \/ AllSettled
      BY <1>1, <1>2, <1>5 DEF Poll, SaveReplied, RemovalReplied, AllSettled
<1>6. CASE Fetched \/ Open \/ Type \/ Cancel \/ Submit \/ ServeSave \/ AskDelete \/ Confirm \/ ServeRemoval
      BY <1>1, <1>6 DEF Fetched, Open, Type, Cancel, Submit, ServeSave, AskDelete, Confirm, ServeRemoval, listVars
<1>7. CASE RefreshOne \/ RefreshAll \/ ServeAsk \/ Background \/ ServeRefresh \/ Others
      BY <1>1, <1>7 DEF RefreshOne, RefreshAll, ServeAsk, Background, ServeRefresh, Others, clientVars, listVars
<1>8. QED  BY <1>3, <1>4, <1>5, <1>6, <1>7 DEF Next

LEMMA SeenTyped ==
    ASSUME PInv, Next
    PROVE  seen' \in Snapshot
<1>0. seen \in Snapshot /\ gets \subseteq GetRec /\ asks \subseteq AskRec
      BY DEF PInv, ClientTypeOK
<1>1. CASE seen' = seen
      BY <1>0, <1>1
<1>2. CASE Fetched
  <2>1. PICK g \in gets : (g.lists # None /\ seen' = g.lists) \/ seen' = seen
        BY <1>2 DEF Fetched
  <2>2. g.lists \in Snapshot \cup {None}
        BY <1>0 DEF GetRec
  <2>3. QED  BY <1>0, <2>1, <2>2
<1>3. CASE RefreshReplied
  <2>1. PICK a \in asks : \/ seen' = seen
                          \/ /\ a.row # None
                             /\ seen' = [seen EXCEPT !.subs[a.id] = IF @ = None THEN None ELSE a.row]
        BY <1>3 DEF RefreshReplied
  <2>2. a.id \in Ids /\ a.row \in Sub \cup {None}
        BY <1>0 DEF AskRec
  <2>3. CASE seen' = seen
        BY <1>0, <2>3
  <2>4. CASE seen' = [seen EXCEPT !.subs[a.id] = IF @ = None THEN None ELSE a.row]
    <3> DEFINE row == IF seen.subs[a.id] = None THEN None ELSE a.row
    <3>1. seen' = [seen EXCEPT !.subs = [seen.subs EXCEPT ![a.id] = row]]
          BY <2>4
    <3>2. row \in Sub \cup {None}
          BY <2>2
    <3> HIDE DEF row
    <3>3. [seen.subs EXCEPT ![a.id] = row] \in [Ids -> Sub \cup {None}]
          BY <1>0, <3>2 DEF Snapshot
    <3> DEFINE m == [seen.subs EXCEPT ![a.id] = row]
    <3> HIDE DEF m
    <3>4. m \in [Ids -> Sub \cup {None}] /\ seen' = [seen EXCEPT !.subs = m]
          BY <3>1, <3>3 DEF m
    <3>5. QED  BY <1>0, <3>4 DEF Snapshot
  <2>5. QED  BY <2>1, <2>3, <2>4
<1>4. CASE Poll \/ ServeGet \/ Open \/ Type \/ Cancel \/ Submit \/ ServeSave \/ SaveReplied
      BY <1>1, <1>4 DEF Poll, ServeGet, Open, Type, Cancel, Submit, ServeSave, SaveReplied, listVars
<1>5. CASE AskDelete \/ Confirm \/ ServeRemoval \/ RemovalReplied \/ RefreshOne \/ RefreshAll
      BY <1>1, <1>5 DEF AskDelete, Confirm, ServeRemoval, RemovalReplied, RefreshOne, RefreshAll, listVars
<1>6. CASE ServeAsk \/ Background \/ ServeRefresh \/ AllSettled \/ Others
      BY <1>1, <1>6 DEF ServeAsk, Background, ServeRefresh, AllSettled, Others, clientVars, listVars
<1>7. QED  BY <1>2, <1>3, <1>4, <1>5, <1>6 DEF Next

(* A save changes its state only: its request stays what was submitted.    *)
LEMMA SaveAdvances ==
    ASSUME NEW c \in SaveRec, NEW st \in {"sent", "lost", "ok", "refused"}
    PROVE  /\ [c EXCEPT !.st = st] \in SaveRec /\ [c EXCEPT !.st = st].st = st
           /\ SaysWhatWasTyped(c) => SaysWhatWasTyped([c EXCEPT !.st = st])
<1>1. [c EXCEPT !.st = st] \in SaveRec /\ [c EXCEPT !.st = st].st = st
      BY DEF SaveRec
<1>2. /\ [c EXCEPT !.st = st].id = c.id /\ [c EXCEPT !.st = st].base = c.base
      /\ [c EXCEPT !.st = st].touched = c.touched /\ [c EXCEPT !.st = st].req = c.req
      BY DEF SaveRec
<1> DEFINE d == [c EXCEPT !.st = st]
<1> HIDE DEF d
<1>3. d.id = c.id /\ d.base = c.base /\ d.touched = c.touched /\ d.req = c.req
      BY <1>2 DEF d
<1>4. SaysWhatWasTyped(c) => SaysWhatWasTyped(d)
      BY <1>3 DEF SaysWhatWasTyped
<1>5. QED  BY <1>1, <1>4 DEF d

LEMMA SavesTyped ==
    ASSUME PInv, Next
    PROVE  save' \subseteq SaveRec /\ SavesSayWhatWasTyped'
<1>0. /\ save \subseteq SaveRec /\ \A c \in save : SaysWhatWasTyped(c)
      /\ left \in Left /\ form \in FormRec /\ DirtyIsTouched(form)
      BY DEF PInv, ClientTypeOK, SavesSayWhatWasTyped
<1>1. CASE save' \subseteq save
      BY <1>0, <1>1 DEF SavesSayWhatWasTyped
<1>2. CASE \E c \in save, st \in {"lost", "ok", "refused"} : save' \subseteq save \cup {[c EXCEPT !.st = st]}
  <2>1. PICK c \in save, st \in {"lost", "ok", "refused"} : save' \subseteq save \cup {[c EXCEPT !.st = st]}
        BY <1>2
  <2>2. [c EXCEPT !.st = st] \in SaveRec /\ SaysWhatWasTyped([c EXCEPT !.st = st])
        BY <1>0, SaveAdvances
  <2>3. QED  BY <1>0, <2>1, <2>2 DEF SavesSayWhatWasTyped
<1>3. CASE Submit
  <2> DEFINE c == [n |-> left.saves, id |-> form.id, base |-> form.base, touched |-> form.touched,
                   req |-> Input(form, seen.links), st |-> "sent"]
  <2>1. Valid(form, seen.links) /\ save' = save \cup {c}
        BY <1>3 DEF Submit
  <2>2. Input(form, seen.links) \in Request
        BY <1>0, <2>1, InputTyped
  <2>3. left.saves \in Nat /\ form.id \in Ids \cup {None} /\ form.base \in Sub \cup {None}
        /\ form.touched \in SUBSET {"quota", "expire", "reset"}
        BY <1>0 DEF Left, FormRec
  <2>4. c \in SaveRec
        BY <2>2, <2>3 DEF SaveRec
  <2>5. c.id = form.id /\ c.base = form.base /\ c.touched = form.touched /\ c.req = Input(form, seen.links)
        OBVIOUS
  <2> HIDE DEF c
  <2>6. SaysWhatWasTyped(c)
        BY <1>0, <2>1, <2>4, <2>5, SubmitSays
  <2>7. QED  BY <1>0, <2>1, <2>4, <2>6 DEF SavesSayWhatWasTyped
<1>4. CASE ServeSave
      BY <1>1, <1>2, <1>4 DEF ServeSave, SaveIs
<1>5. CASE SaveReplied
      BY <1>1, <1>2, <1>5 DEF SaveReplied
<1>6. CASE Poll \/ ServeGet \/ Fetched \/ Open \/ Type \/ Cancel \/ AskDelete \/ Confirm
      BY <1>1, <1>6 DEF Poll, ServeGet, Fetched, Open, Type, Cancel, AskDelete, Confirm, formVars
<1>7. CASE ServeRemoval \/ RemovalReplied \/ RefreshOne \/ RefreshAll \/ ServeAsk \/ Background
      BY <1>1, <1>7 DEF ServeRemoval, RemovalReplied, RefreshOne, RefreshAll, ServeAsk, Background, clientVars, formVars
<1>8. CASE ServeRefresh \/ RefreshReplied \/ AllSettled \/ Others
      BY <1>1, <1>8 DEF ServeRefresh, RefreshReplied, AllSettled, Others, clientVars, formVars
<1>9. QED  BY <1>3, <1>4, <1>5, <1>6, <1>7, <1>8 DEF Next

LEMMA RemovalsTyped ==
    ASSUME PInv, Next
    PROVE  deleting' \in Ids \cup {None} /\ removal' \subseteq RemovalRec
<1>0. deleting \in Ids \cup {None} /\ removal \subseteq RemovalRec /\ form \in FormRec
      BY DEF PInv, ClientTypeOK
<1>1. CASE UNCHANGED <<deleting, removal>>
      BY <1>0, <1>1
<1>2. CASE AskDelete
      BY <1>0, <1>2 DEF AskDelete, FormRec
<1>3. CASE Confirm
      BY <1>0, <1>3 DEF Confirm, RemovalRec
<1>4. \A d \in removal : \A st \in {"lost", "ok", "refused"} : [d EXCEPT !.st = st] \in RemovalRec
      BY <1>0 DEF RemovalRec
<1>5. CASE ServeRemoval
  <2>1. PICK d \in removal, st \in {"ok", "refused"} :
          removal' \subseteq removal \cup {[d EXCEPT !.st = st]}
        BY <1>5 DEF ServeRemoval
  <2>2. deleting' = deleting
        BY <1>5 DEF ServeRemoval
  <2>3. QED  BY <1>0, <1>4, <2>1, <2>2
<1>6. CASE RemovalReplied
      BY <1>0, <1>4, <1>6 DEF RemovalReplied
<1>7. CASE Poll \/ ServeGet \/ Fetched \/ Open \/ Type \/ Cancel \/ Submit \/ ServeSave \/ SaveReplied
      BY <1>1, <1>7 DEF Poll, ServeGet, Fetched, Open, Type, Cancel, Submit, ServeSave, SaveReplied, deleteVars
<1>8. CASE RefreshOne \/ RefreshAll \/ ServeAsk \/ Background \/ ServeRefresh \/ RefreshReplied \/ AllSettled \/ Others
      BY <1>1, <1>8 DEF RefreshOne, RefreshAll, ServeAsk, Background, ServeRefresh, RefreshReplied, AllSettled,
                        Others, clientVars, deleteVars
<1>9. QED  BY <1>2, <1>3, <1>5, <1>6, <1>7, <1>8 DEF Next

(* A request to refresh keeps its row and its button through the server's  *)
(* two steps.                                                              *)
LEMMA AskRuns ==
    ASSUME NEW a \in AskRec, NEW n \in FetchIds
    PROVE  /\ [a EXCEPT !.n = n, !.st = "run"] \in AskRec
           /\ [a EXCEPT !.n = n, !.st = "run"].id = a.id /\ [a EXCEPT !.n = n, !.st = "run"].who = a.who
BY DEF AskRec

LEMMA AskFails ==
    ASSUME NEW a \in AskRec
    PROVE  /\ [a EXCEPT !.st = "failed"] \in AskRec
           /\ [a EXCEPT !.st = "failed"].id = a.id /\ [a EXCEPT !.st = "failed"].who = a.who
BY DEF AskRec

LEMMA AskEnds ==
    ASSUME NEW a \in AskRec, NEW row \in Sub \cup {None}
    PROVE  /\ [a EXCEPT !.st = "done", !.row = row] \in AskRec
           /\ [a EXCEPT !.st = "done", !.row = row].id = a.id /\ [a EXCEPT !.st = "done", !.row = row].who = a.who
BY DEF AskRec

LEMMA AskTyped ==
    ASSUME NEW i \in Ids, NEW who \in {"one", "all"}
    PROVE  Ask(i, who) \in AskRec /\ Ask(i, who).id = i /\ Ask(i, who).who = who
BY DEF Ask, AskRec

(* A step of the server on the requests to refresh gives every one of them *)
(* a successor with its row and button, and makes none up.                 *)
AsksCarriedOn ==
    /\ \A a \in asks : \E b \in asks' : b.id = a.id /\ b.who = a.who
    /\ asks' \subseteq AskRec

LEMMA ServerCarriesAsks ==
    ASSUME PInv, ServeAsk \/ ServeRefresh, ServerTypeOK'
    PROVE  AsksCarriedOn
<1>0. asks \subseteq AskRec
      BY DEF PInv, ClientTypeOK
<1>1. CASE ServeAsk
  <2>1. PICK a \in asks : \/ \E n \in FetchIds : asks' = (asks \ {a}) \cup {[a EXCEPT !.n = n, !.st = "run"]}
                          \/ asks' = (asks \ {a}) \cup {[a EXCEPT !.st = "failed"]}
        BY <1>1 DEF ServeAsk
  <2>2. PICK b \in AskRec : asks' = (asks \ {a}) \cup {b} /\ b.id = a.id /\ b.who = a.who
    <3>1. a \in AskRec
          BY <1>0
    <3>2. CASE \E n \in FetchIds : asks' = (asks \ {a}) \cup {[a EXCEPT !.n = n, !.st = "run"]}
          BY <3>1, <3>2, AskRuns
    <3>3. CASE asks' = (asks \ {a}) \cup {[a EXCEPT !.st = "failed"]}
          BY <3>1, <3>3, AskFails
    <3>4. QED  BY <2>1, <3>2, <3>3
  <2>3. QED  BY <1>0, <2>2 DEF AsksCarriedOn
<1>2. CASE ServeRefresh
  <2>1. PICK f \in fetches :
          asks' = {IF a.st = "run" /\ a.n = f.n THEN [a EXCEPT !.st = "done", !.row = subs'[a.id]] ELSE a : a \in asks}
        BY <1>2 DEF ServeRefresh
  <2> DEFINE Next1(a) == IF a.st = "run" /\ a.n = f.n THEN [a EXCEPT !.st = "done", !.row = subs'[a.id]] ELSE a
  <2>2. ASSUME NEW a \in asks
        PROVE  Next1(a) \in AskRec /\ Next1(a).id = a.id /\ Next1(a).who = a.who
    <3>1. a \in AskRec /\ a.id \in Ids
          BY <1>0 DEF AskRec
    <3>2. subs'[a.id] \in Sub \cup {None}
          BY <3>1 DEF ServerTypeOK
    <3>3. QED  BY <3>1, <3>2, AskEnds
  <2>3. asks' = {Next1(a) : a \in asks}
        BY <2>1
  <2> HIDE DEF Next1
  <2>4. QED  BY <2>2, <2>3 DEF AsksCarriedOn
<1>3. QED  BY <1>1, <1>2

LEMMA AsksTyped ==
    ASSUME PInv, Next, ServerTypeOK'
    PROVE  refreshing' \subseteq Ids \cup {"all"} /\ asks' \subseteq AskRec
<1>0. refreshing \subseteq Ids \cup {"all"} /\ asks \subseteq AskRec
      BY DEF PInv, ClientTypeOK
<1>1. CASE UNCHANGED <<refreshing, asks>>
      BY <1>0, <1>1
<1>2. CASE refreshing' \subseteq refreshing /\ asks' \subseteq asks
      BY <1>0, <1>2
<1>3. CASE RefreshOne \/ RefreshAll
      BY <1>0, <1>3, AskTyped DEF RefreshOne, RefreshAll
<1>4. CASE ServeAsk \/ ServeRefresh
  <2>1. asks' \subseteq AskRec
        BY <1>4, ServerCarriesAsks DEF AsksCarriedOn
  <2>2. refreshing' = refreshing
        BY <1>4 DEF ServeAsk, ServeRefresh
  <2>3. QED  BY <1>0, <2>1, <2>2
<1>5. CASE Fetched \/ RefreshReplied \/ AllSettled
      BY <1>2, <1>5 DEF Fetched, RefreshReplied, AllSettled
<1>6. CASE Poll \/ ServeGet \/ Open \/ Type \/ Cancel \/ Submit \/ ServeSave \/ SaveReplied
      BY <1>1, <1>6 DEF Poll, ServeGet, Open, Type, Cancel, Submit, ServeSave, SaveReplied, askVars
<1>7. CASE AskDelete \/ Confirm \/ ServeRemoval \/ RemovalReplied \/ Background \/ Others
      BY <1>1, <1>7 DEF AskDelete, Confirm, ServeRemoval, RemovalReplied, Background, Others, clientVars, askVars
<1>8. QED  BY <1>3, <1>4, <1>5, <1>6, <1>7 DEF Next

-----------------------------------------------------------------------------
(* Waiting means work. *)

SavingMeansWork ==
    saving => (\E c \in save : c.st # "lost") \/ (\E g \in gets : g.who = "save")

SpinningMeansWork ==
    \A i \in refreshing :
        \/ \E a \in asks : IF i = "all" THEN a.who = "all" ELSE a.who = "one" /\ a.id = i
        \/ \E g \in gets : g.who = i

LEMMA Waiting == WaitingMeansWork <=> SavingMeansWork /\ SpinningMeansWork
BY DEF WaitingMeansWork, SavingMeansWork, SpinningMeansWork

(* A fetch that is answered is still the fetch of the same caller.         *)
LEMMA ServeGetKeepsCallers ==
    ASSUME PInv, ServeGet
    PROVE  \A g \in gets : \E h \in gets' : h.who = g.who
<1>1. PICK g \in gets : \E x : gets' = (gets \ {g}) \cup {[g EXCEPT !.lists = x]}
      BY DEF ServeGet
<1>2. PICK x : gets' = (gets \ {g}) \cup {[g EXCEPT !.lists = x]}
      BY <1>1
<1>3. [g EXCEPT !.lists = x].who = g.who
      BY DEF PInv, ClientTypeOK, GetRec
<1>4. QED  BY <1>2, <1>3

LEMMA SavingKeeps ==
    ASSUME PInv, Next
    PROVE  SavingMeansWork'
<1>0. SavingMeansWork /\ save \subseteq SaveRec
      BY Waiting DEF PInv, ClientTypeOK
<1>1. CASE saving' = saving /\ save \subseteq save' /\ gets \subseteq gets'
      BY <1>0, <1>1 DEF SavingMeansWork
<1>2. CASE saving' = FALSE
      BY <1>2 DEF SavingMeansWork
<1>3. CASE ServeGet
  <2>1. saving' = saving /\ save' = save
        BY <1>3 DEF ServeGet, formVars
  <2>2. QED  BY <1>0, <1>3, <2>1, ServeGetKeepsCallers DEF SavingMeansWork
<1>4. CASE Fetched
  <2>1. PICK g \in gets : /\ gets' = gets \ {g}
                          /\ IF g.who = "save" THEN saving' = FALSE ELSE saving' = saving
        BY <1>4 DEF Fetched
  <2>2. save' = save
        BY <1>4 DEF Fetched
  <2>3. QED  BY <1>0, <1>2, <2>1, <2>2 DEF SavingMeansWork
<1>5. CASE Submit
  <2> DEFINE c == [n |-> left.saves, id |-> form.id, base |-> form.base, touched |-> form.touched,
                   req |-> Input(form, seen.links), st |-> "sent"]
  <2>1. c \in save' /\ c.st # "lost"
        BY <1>5 DEF Submit
  <2>2. QED  BY <2>1 DEF SavingMeansWork
<1>6. CASE ServeSave
  <2>1. PICK c \in save, st \in {"ok", "refused"} :
          c.st \in {"sent", "lost"} /\ save' = (save \ {c}) \cup (IF c.st = "lost" THEN {} ELSE {[c EXCEPT !.st = st]})
        BY <1>6 DEF ServeSave, SaveIs
  <2>2. [c EXCEPT !.st = st].st # "lost"
        BY <1>0, SaveAdvances
  <2>3. saving' = saving /\ gets' = gets
        BY <1>6 DEF ServeSave, listVars
  <2>4. QED  BY <1>0, <2>1, <2>2, <2>3 DEF SavingMeansWork
<1>7. CASE SaveReplied
  <2>1. CASE saving' = FALSE
        BY <1>2, <2>1
  <2>2. CASE gets' = gets \cup {Get("save")}
    <3>1. Get("save") \in gets' /\ Get("save").who = "save"
          BY <2>2, GetTyped
    <3>2. QED  BY <3>1 DEF SavingMeansWork
  <2>3. QED  BY <1>7, <2>1, <2>2 DEF SaveReplied
<1>8. CASE Poll \/ Open \/ Type \/ Cancel \/ AskDelete \/ Confirm \/ ServeRemoval \/ RemovalReplied
      BY <1>1, <1>8 DEF Poll, Open, Type, Cancel, AskDelete, Confirm, ServeRemoval, RemovalReplied, formVars, listVars
<1>9. CASE RefreshOne \/ RefreshAll \/ ServeAsk \/ Background \/ ServeRefresh \/ RefreshReplied \/ AllSettled \/ Others
      BY <1>1, <1>9 DEF RefreshOne, RefreshAll, ServeAsk, Background, ServeRefresh, RefreshReplied, AllSettled,
                        Others, clientVars, formVars, listVars
<1>10. QED  BY <1>3, <1>4, <1>5, <1>6, <1>7, <1>8, <1>9 DEF Next

LEMMA SpinningKeeps ==
    ASSUME PInv, Next, ServerTypeOK'
    PROVE  SpinningMeansWork'
<1>0. SpinningMeansWork /\ asks \subseteq AskRec /\ "all" \notin Ids
      BY Waiting, PageAssumption DEF PInv, ClientTypeOK
<1>1. CASE refreshing' \subseteq refreshing /\ asks \subseteq asks' /\ gets \subseteq gets'
      BY <1>0, <1>1 DEF SpinningMeansWork
<1>2. CASE ServeGet
  <2>1. refreshing' = refreshing /\ asks' = asks
        BY <1>2 DEF ServeGet, askVars
  <2>2. QED  BY <1>0, <1>2, <2>1, ServeGetKeepsCallers DEF SpinningMeansWork
<1>3. CASE Fetched
  <2>1. PICK g \in gets : gets' = gets \ {g} /\ refreshing' = refreshing \ {g.who}
        BY <1>3 DEF Fetched
  <2>2. asks' = asks
        BY <1>3 DEF Fetched
  <2>3. QED  BY <1>0, <2>1, <2>2 DEF SpinningMeansWork
<1>4. CASE RefreshOne
  <2>1. PICK i \in Ids : refreshing' = refreshing \cup {i} /\ asks' = asks \cup {Ask(i, "one")}
        BY <1>4 DEF RefreshOne
  <2>2. gets' = gets
        BY <1>4 DEF RefreshOne, listVars
  <2>3. Ask(i, "one").who = "one" /\ Ask(i, "one").id = i /\ i # "all"
        BY <1>0, AskTyped
  <2>4. QED  BY <1>0, <2>1, <2>2, <2>3 DEF SpinningMeansWork
<1>5. CASE RefreshAll
  <2>1. PICK i \in Ids : Ask(i, "all") \in asks'
        BY <1>5 DEF RefreshAll
  <2>2. refreshing' = refreshing \cup {"all"} /\ asks \subseteq asks' /\ gets' = gets
        BY <1>5 DEF RefreshAll, listVars
  <2>3. Ask(i, "all").who = "all"
        BY AskTyped
  <2>4. QED  BY <1>0, <2>1, <2>2, <2>3 DEF SpinningMeansWork
<1>6. CASE ServeAsk \/ ServeRefresh
  <2>1. \A a \in asks : \E b \in asks' : b.id = a.id /\ b.who = a.who
        BY <1>6, ServerCarriesAsks DEF AsksCarriedOn
  <2>2. refreshing' = refreshing /\ gets' = gets
        BY <1>6 DEF ServeAsk, ServeRefresh, listVars
  <2>3. QED  BY <1>0, <2>1, <2>2 DEF SpinningMeansWork
<1>7. CASE RefreshReplied
  <2>1. PICK a \in asks : /\ a.who = "one" /\ asks' = asks \ {a}
                          /\ \/ gets' = gets \cup {Get(a.id)} /\ refreshing' = refreshing
                             \/ gets' = gets /\ refreshing' = refreshing \ {a.id}
        BY <1>7 DEF RefreshReplied
  <2>2. a.id \in Ids /\ Get(a.id).who = a.id
        BY <1>0, GetTyped DEF AskRec
  <2>3. QED  BY <1>0, <2>1, <2>2 DEF SpinningMeansWork
<1>8. CASE AllSettled
  <2>1. asks' = {a \in asks : a.who = "one"} /\ refreshing' = refreshing \ {"all"} /\ gets \subseteq gets'
        BY <1>8 DEF AllSettled
  <2>2. QED  BY <1>0, <2>1 DEF SpinningMeansWork
<1>9. CASE Poll \/ Open \/ Type \/ Cancel \/ Submit \/ ServeSave \/ SaveReplied \/ AskDelete \/ Confirm
      BY <1>1, <1>9 DEF Poll, Open, Type, Cancel, Submit, ServeSave, SaveReplied, AskDelete, Confirm, askVars, listVars
<1>10. CASE ServeRemoval \/ RemovalReplied \/ Background \/ Others
       BY <1>1, <1>10 DEF ServeRemoval, RemovalReplied, Background, Others, clientVars, askVars, listVars
<1>11. QED  BY <1>2, <1>3, <1>4, <1>5, <1>6, <1>7, <1>8, <1>9, <1>10 DEF Next

-----------------------------------------------------------------------------
(* The two facts of the server that the action properties rest on. *)

(* An update merges the request into the row as it is by then.             *)
LEMMA UpdateMerges ==
    ASSUME IInv, NEW i \in Rows, NEW r \in Request, Saved(i, r)
    PROVE  /\ subs'[i].quota = Or(r.quota, subs[i].quota)
           /\ subs'[i].expire = Or(r.expire, subs[i].expire)
           /\ subs'[i].reset = Or(r.reset, subs[i].reset)
<1>1. i \in Ids /\ i \in born /\ subs[i] \in Sub /\ subs \in [Ids -> Sub \cup {None}]
      BY RowTyped DEF IInv, ServerTypeOK
<1> DEFINE s == Applied(subs[i], r)
<1>2. s \in Sub
      BY <1>1, AppliedTyped
<1>3. /\ s.quota = Or(r.quota, subs[i].quota) /\ s.expire = Or(r.expire, subs[i].expire)
      /\ s.reset = Or(r.reset, subs[i].reset)
      BY <1>1 DEF Applied, Sub
<1>4. subs'[i] \in {s, [s EXCEPT !.snap = None, !.failure = None]}
  <2>1. UpdateNative(i, r) \/ UpdateTraffic(i, r)
        BY <1>1 DEF Saved, CreateNative, CreateTraffic
  <2>2. subs' \in {[subs EXCEPT ![i] = s], [subs EXCEPT ![i] = [s EXCEPT !.snap = None, !.failure = None]]}
        BY <2>1 DEF UpdateNative, UpdateTraffic
  <2> HIDE DEF s
  <2>3. QED  BY <1>1, <2>2
<1> HIDE DEF s
<1>5. QED  BY <1>2, <1>3, <1>4 DEF Sub

(* Only an update with a URL overwrites an entry the draft has: the row's  *)
(* entry after the update.                                                 *)
LEMMA OnlyUpdatesOverwrite ==
    ASSUME IInv, NEW i \in Ids, NEW r \in Request, Saved(i, r),
           NEW p \in Names, draft'[p] # draft[p], draft[p] # None
    PROVE  i \in born /\ r.url # None /\ p = Or(r.prov, subs[i].prov)
<1>1. draft \in [Names -> Urls \cup {None}]
      BY DEF IInv, ServerTypeOK
<1>2. CASE UpdateNative(i, r)
  <2>1. i \in Rows /\ i \in born /\ subs[i] \in Sub
        BY <1>2, RowTyped DEF UpdateNative, IInv
  <2>2. Applied(subs[i], r).prov = Or(r.prov, subs[i].prov)
        BY <2>1, AppliedTyped DEF Or
  <2>3. r.url # None /\ draft' = [draft EXCEPT ![Or(r.prov, subs[i].prov)] = r.url]
        BY <1>2, <2>2 DEF UpdateNative
  <2>4. QED  BY <1>1, <2>1, <2>3
<1>3. CASE CreateNative(i, r)
  <2>1. draft' = draft \/ \E x \in {r.name, r.prov} : draft[x] = None /\ draft' = [draft EXCEPT ![x] = r.url]
        BY <1>3 DEF CreateNative
  <2>2. QED  BY <1>1, <2>1
<1>4. CASE UpdateTraffic(i, r) \/ CreateTraffic(i, r)
      BY <1>4 DEF UpdateTraffic, CreateTraffic
<1>5. QED  BY <1>2, <1>3, <1>4 DEF Saved

(* A save that leaves the set was executed, refused or answered: what      *)
(* changed on the server in that step is what it asked for.                *)
LEMMA LeavingSaveIsServed ==
    ASSUME PInv, Next, NEW c \in save \ save'
    PROVE  UNCHANGED <<subs, draft>> \/ Executes(c)
<1>0. save \subseteq SaveRec
      BY DEF PInv, ClientTypeOK
<1>1. CASE save' = save
      BY <1>1
<1>2. CASE Submit \/ SaveReplied
      BY <1>2 DEF Submit, SaveReplied, serverVars
<1>3. CASE ServeSave
  <2>1. PICK d \in save : /\ Executes(d) \/ UNCHANGED serverVars
                          /\ save \ {d} \subseteq save'
        BY <1>3 DEF ServeSave, SaveIs
  <2>2. c = d
        BY <2>1
  <2>3. QED  BY <2>1, <2>2 DEF serverVars
<1>4. CASE Poll \/ ServeGet \/ Fetched \/ Open \/ Type \/ Cancel \/ AskDelete \/ Confirm
      BY <1>1, <1>4 DEF Poll, ServeGet, Fetched, Open, Type, Cancel, AskDelete, Confirm, formVars
<1>5. CASE ServeRemoval \/ RemovalReplied \/ RefreshOne \/ RefreshAll \/ ServeAsk \/ Background
      BY <1>1, <1>5 DEF ServeRemoval, RemovalReplied, RefreshOne, RefreshAll, ServeAsk, Background, clientVars, formVars
<1>6. CASE ServeRefresh \/ RefreshReplied \/ AllSettled \/ Others
      BY <1>1, <1>6 DEF ServeRefresh, RefreshReplied, AllSettled, Others, clientVars, formVars
<1>7. QED  BY <1>2, <1>3, <1>4, <1>5, <1>6 DEF Next

LEMMA UntouchedStep ==
    ASSUME PInv, Next, NEW c \in save \ save', c.id # None, subs' # subs, c.id \in Rows
    PROVE  /\ "quota" \notin c.touched => subs'[c.id].quota = subs[c.id].quota
           /\ "expire" \notin c.touched => subs'[c.id].expire = subs[c.id].expire
           /\ (c.req.src = "traffic" /\ "reset" \notin c.touched) => subs'[c.id].reset = subs[c.id].reset
<1>1. c.req \in Request /\ SaysWhatWasTyped(c) /\ IInv
      BY DEF PInv, ClientTypeOK, SaveRec, SavesSayWhatWasTyped
<1>2. Executes(c)
      BY LeavingSaveIsServed
<1>3. Saved(c.id, c.req)
      BY <1>2, ExecutesTyped
<1>4. /\ subs'[c.id].quota = Or(c.req.quota, subs[c.id].quota)
      /\ subs'[c.id].expire = Or(c.req.expire, subs[c.id].expire)
      /\ subs'[c.id].reset = Or(c.req.reset, subs[c.id].reset)
      BY <1>1, <1>3, UpdateMerges
<1>5. QED  BY <1>1, <1>4 DEF SaysWhatWasTyped, Or

LEMMA LinksStep ==
    ASSUME PInv, Next, NEW c \in save \ save', NEW p \in Names, draft'[p] # draft[p], draft[p] # None
    PROVE  c.id # None /\ p = c.base.prov
<1>1. c.req \in Request /\ SaysWhatWasTyped(c) /\ IInv
      BY DEF PInv, ClientTypeOK, SaveRec, SavesSayWhatWasTyped
<1>2. Executes(c)
      BY LeavingSaveIsServed
<1>3. PICK i \in Ids : Saved(i, c.req) /\ (c.id = None => i \notin born) /\ (c.id # None => i = c.id)
      BY <1>2, ExecutesTyped
<1>4. i \in born /\ c.req.url # None /\ p = Or(c.req.prov, subs[i].prov)
      BY <1>1, <1>3, OnlyUpdatesOverwrite
<1>5. c.id # None
      BY <1>3, <1>4
<1>6. c.req.prov = c.base.prov /\ c.req.prov # Keep
      BY <1>1, <1>4, <1>5, Sentinels DEF SaysWhatWasTyped
<1>7. QED  BY <1>4, <1>5, <1>6 DEF Or

-----------------------------------------------------------------------------
LEMMA PageInit == Init => PInv
<1> SUFFICES ASSUME Init PROVE PInv
    OBVIOUS
<1>1. /\ subs \in [Ids -> Sub \cup {None}] /\ draft \in [Names -> Urls \cup {None}]
      /\ tps \in [Tps -> Tp \cup {None}] /\ born = Rows /\ fetches = {} /\ Rows \subseteq Ids
      BY PageAssumption DEF Init, Rows
<1>2. ServerTypeOK
      BY <1>1 DEF ServerTypeOK
<1>3. \A i \in Rows :
        /\ subs[i] \in Sub
        /\ subs[i].prov = None <=> subs[i].src = "traffic"
        /\ subs[i].src = "traffic" => subs[i].snap \in {None, subs[i].tp} /\ subs[i].failure \in {None, subs[i].tp}
        /\ \A j \in Rows \ {i} :
             /\ subs[i].src = "native" => subs[i].prov # subs[j].prov
             /\ subs[i].src = "traffic" /\ subs[j].src = "traffic" => subs[i].tp # subs[j].tp
      BY <1>2, RowTyped, PageAssumption DEF Init, Rows
<1>4. OneManager /\ OneTracker /\ TrafficStateIsOwn /\ FetchesAreOfRows
      BY <1>1, <1>3 DEF OneManager, OneTracker, TrafficStateIsOwn, FetchesAreOfRows
<1>5. seen \in Snapshot
      BY DEF Init, Snapshot, NoLinks, NoTps
<1>6. gets \subseteq GetRec
      BY GetTyped DEF Init
<1>7. form \in FormRec /\ DirtyIsTouched(form)
      BY ClosedFormTyped DEF Init
<1>8. left \in Left
      BY PageAssumption DEF Init
<1>9. ClientTypeOK
      BY <1>5, <1>6, <1>7, <1>8 DEF Init, ClientTypeOK
<1>10. SavesSayWhatWasTyped /\ WaitingMeansWork
       BY DEF Init, SavesSayWhatWasTyped, WaitingMeansWork
<1>11. QED  BY <1>2, <1>4, <1>9, <1>10 DEF PInv, IInv

LEMMA PageNext == PInv /\ [Next]_vars => PInv'
<1> SUFFICES ASSUME PInv, [Next]_vars PROVE PInv'
    OBVIOUS
<1>1. CASE Next
  <2>1. IInv'
        BY <1>1, StepIsServerStep, NextPreserves DEF PInv
  <2>2. ServerTypeOK'
        BY <2>1 DEF IInv
  <2>3. ClientTypeOK'
    <3>1. left' \in Left
          BY <1>1, LeftTyped DEF PInv, ClientTypeOK
    <3>2. QED  BY <1>1, <2>2, <3>1, FormTyped, GetsTyped, SeenTyped, SavesTyped, RemovalsTyped, AsksTyped
               DEF ClientTypeOK
  <2>4. SavesSayWhatWasTyped'
        BY <1>1, SavesTyped
  <2>5. SavingMeansWork' /\ SpinningMeansWork'
        BY <1>1, <2>2, SavingKeeps, SpinningKeeps
  <2>6. WaitingMeansWork'
        BY <2>5 DEF WaitingMeansWork, SavingMeansWork, SpinningMeansWork
  <2>7. QED  BY <2>1, <2>3, <2>4, <2>6 DEF PInv
<1>2. CASE UNCHANGED vars
  <2>1. UNCHANGED serverVars /\ UNCHANGED clientVars /\ UNCHANGED left
        BY <1>2 DEF vars
  <2>2. IInv'
        BY <2>1, NextPreserves DEF PInv
  <2>3. ClientTypeOK' /\ SavesSayWhatWasTyped'
        BY <2>1 DEF PInv, ClientTypeOK, SavesSayWhatWasTyped, clientVars, listVars, formVars, deleteVars, askVars
  <2>4. WaitingMeansWork'
        BY <2>1 DEF PInv, WaitingMeansWork, clientVars, listVars, formVars, deleteVars, askVars
  <2>5. QED  BY <2>2, <2>3, <2>4 DEF PInv
<1>3. QED  BY <1>1, <1>2

(* The page's inductive invariant.                                         *)
THEOREM PageInvariance == Spec => []PInv
<1>1. QED  BY PageInit, PageNext, PTL DEF Spec

(* Every step of the page, of the other administrator and of the           *)
(* background is a step of the server of Subscriptions or none: what is    *)
(* proved of its steps holds behind the page.                              *)
THEOREM PageStepsAreServerSteps == Spec => [][ServerNext]_serverVars
<1>1. PInv /\ [Next]_vars => [ServerNext]_serverVars
      BY StepIsServerStep DEF vars
<1>2. QED  BY <1>1, PageInvariance, PTL DEF Spec

(* The types of the page and of the server behind it (TypeOK).             *)
THEOREM PageTypeCorrect == Spec => []TypeOK
<1>1. PInv => TypeOK
  <2> SUFFICES ASSUME PInv PROVE TypeOK
      OBVIOUS
  <2>1. \A g \in gets : g.lists = None \/ g.lists \in Snapshot
        BY DEF PInv, ClientTypeOK, GetRec
  <2>2. form.tp \in Tps \cup {None} /\ form.base \in Sub \cup {None}
        BY DEF PInv, ClientTypeOK, FormRec
  <2>3. \A c \in save : c.req \in Request
        BY DEF PInv, ClientTypeOK, SaveRec
  <2>4. QED  BY <2>1, <2>2, <2>3 DEF PInv, IInv, ClientTypeOK, TypeOK
<1>2. QED  BY <1>1, PageInvariance, PTL

(* Behind the page, too, no two native subscriptions manage one provider   *)
(* entry (OneManager).                                                     *)
THEOREM PageKeepsOneManager == Spec => []OneManager
<1>1. PInv => OneManager
      BY DEF PInv, IInv
<1>2. QED  BY <1>1, PageInvariance, PTL

(* ... no two traffic sources track one traffic provider (OneTracker).     *)
THEOREM PageKeepsOneTracker == Spec => []OneTracker
<1>1. PInv => OneTracker
      BY DEF PInv, IInv
<1>2. QED  BY <1>1, PageInvariance, PTL

(* ... and a traffic source shows its own provider's data                  *)
(* (TrafficStateIsOwn).                                                    *)
THEOREM PageKeepsUsageOwn == Spec => []TrafficStateIsOwn
<1>1. PInv => TrafficStateIsOwn
      BY DEF PInv, IInv
<1>2. QED  BY <1>1, PageInvariance, PTL

(* No button of the page waits for nothing (WaitingMeansWork): through     *)
(* failures, time-outs and dialogs closed meanwhile, a disabled Save and a *)
(* spinning Refresh each have a request or a fetch in flight that will     *)
(* clear them.                                                             *)
THEOREM ButtonsWaitForWork == Spec => []WaitingMeansWork
<1>1. PInv => WaitingMeansWork
      BY DEF PInv
<1>2. QED  BY <1>1, PageInvariance, PTL

(* A save leaves what nobody typed in as the server has it by then         *)
(* (UntouchedSurvive), whatever another administrator wrote since the form *)
(* opened and however often a save is answered late.                       *)
THEOREM SavesKeepUntouched == Spec => UntouchedSurvive
<1>1. PInv /\ [Next]_vars =>
        [\A c \in save \ save' :
           (c.id # None /\ subs' # subs /\ c.id \in Rows) =>
              /\ "quota" \notin c.touched => subs'[c.id].quota = subs[c.id].quota
              /\ "expire" \notin c.touched => subs'[c.id].expire = subs[c.id].expire
              /\ (c.req.src = "traffic" /\ "reset" \notin c.touched) => subs'[c.id].reset = subs[c.id].reset]_vars
      BY UntouchedStep
<1>2. QED  BY <1>1, PageInvariance, PTL DEF Spec, UntouchedSurvive

(* Linking a provider never changes where it downloads from                *)
(* (LinksKeepUrls), however old the lists were the form went by.           *)
THEOREM LinkingKeepsUrls == Spec => LinksKeepUrls
<1>1. PInv /\ [Next]_vars =>
        [\A c \in save \ save' : \A p \in Names :
           (draft'[p] # draft[p] /\ draft[p] # None) => (c.id # None /\ p = c.base.prov)]_vars
      BY LinksStep
<1>2. QED  BY <1>1, PageInvariance, PTL DEF Spec, LinksKeepUrls
=============================================================================
