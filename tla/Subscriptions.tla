--------------------------- MODULE Subscriptions ---------------------------
(***************************************************************************)
(* The subscription metadata of the server                                 *)
(* (service/subscription_service.go over store/subscription_store.go): the *)
(* rows, the proxy-provider entries of the draft they own or link, and the *)
(* vendor snapshots that refreshes fetch.                                  *)
(*                                                                         *)
(* A mutation holds mutateMu from its checks to its write and is one step. *)
(* A refresh reads its row, talks to the vendor without the lock, and      *)
(* takes the lock again to write: two steps, anything in between.          *)
(***************************************************************************)
EXTENDS FiniteSets

CONSTANTS
    Ids,         \* subscriptions
    Names,       \* names of subscriptions and of draft providers
    Urls,        \* subscription URLs
    Tps,         \* traffic providers
    Quotas,      \* manual quotas, None among them
    Expiries,    \* manual expiries, None among them
    Resets,      \* billing schedules (day, hour, minute, timezone), None among them
    None,        \* the empty value of every column
    Keep,        \* a field the request omits
    FetchIds     \* bound: refreshes in flight

ASSUME ValuesAssumption ==
    /\ None \notin Ids \cup Names \cup Urls \cup Tps
    /\ None \in Quotas \cap Expiries \cap Resets
    /\ Keep \notin Names \cup Quotas \cup Expiries \cup Resets

VARIABLES
    subs,        \* rows; None where there is none
    born,        \* ids given to a row so far: a uuid is not given twice
    draft,       \* the draft's proxy-providers: URL by name, None when absent
    tps,         \* traffic providers: [url, quota, reset]; None when deleted
    fetches      \* refreshes that talk to the vendor

serverVars == <<subs, born, draft, tps, fetches>>

(* snap and failure name the source whose data and whose last error the    *)
(* row shows: a traffic provider for a traffic source, a URL for a native. *)
Sub == [name : Names, enabled : BOOLEAN, src : {"native", "traffic"},
        prov : Names \cup {None}, tp : Tps \cup {None},
        quota : Quotas, expire : Expiries, reset : Resets,
        snap : Tps \cup Urls \cup {None}, failure : Tps \cup Urls \cup {None}]

Tp == [url : Urls \cup {None}, quota : Quotas, reset : Resets]

Fetch == [n : FetchIds, id : Ids, src : {"native", "traffic"}, tp : Tps \cup {None},
          url : Urls \cup {None}, auto : BOOLEAN]

(* SubscriptionRequest as the web client fills it in. *)
Request == [name : Names, enabled : BOOLEAN, src : {"native", "traffic"},
            prov : Names \cup {Keep}, url : Urls \cup {None}, tp : Tps \cup {None},
            quota : Quotas \cup {Keep}, expire : Expiries \cup {Keep}, reset : Resets \cup {Keep}]

Rows == {i \in Ids : subs[i] # None}
NameTaken(name, i)   == \E j \in Rows \ {i} : subs[j].name = name

(* As ManagedByOther and TrackedByOther when only an update checks. *)
ManagedWhenUpdated(p, i) == i \in Rows /\ \E j \in Rows \ {i} : subs[j].src = "native" /\ subs[j].prov = p
TrackedWhenUpdated(t, i) == i \in Rows /\ \E j \in Rows \ {i} : subs[j].src = "traffic" /\ subs[j].tp = t

ManagedByOther(p, i) == \E j \in Rows \ {i} : subs[j].src = "native" /\ subs[j].prov = p
TrackedByOther(t, i) == \E j \in Rows \ {i} : subs[j].src = "traffic" /\ subs[j].tp = t
TpExists(t) == t \in Tps /\ tps[t] # None

Or(sent, stored) == IF sent = Keep THEN stored ELSE sent

(* As Applied when an omitted quota is stored as it was sent. *)
AppliedBlind(s, r) ==
    [s EXCEPT !.name = r.name, !.enabled = r.enabled, !.tp = r.tp, !.prov = Or(r.prov, @),
              !.quota = r.quota, !.expire = Or(r.expire, @), !.reset = Or(r.reset, @)]

(* applyTo: what the request sends replaces what is stored. *)
Applied(s, r) ==
    [s EXCEPT !.name = r.name, !.enabled = r.enabled, !.tp = r.tp, !.prov = Or(r.prov, @),
              !.quota = Or(r.quota, @), !.expire = Or(r.expire, @), !.reset = Or(r.reset, @)]

-----------------------------------------------------------------------------
(* Mutations.  A refused request changes nothing.                          *)

(* Update of a native subscription.  Its provider may be exchanged for one *)
(* the draft has and nobody manages; a URL is written to the draft entry.  *)
UpdateNative(i, r) ==
    LET s == Applied(subs[i], r) IN
    /\ i \in Rows /\ subs[i].src = "native"
    /\ s.name = subs[i].name \/ ~NameTaken(s.name, i)
    /\ ~ManagedByOther(s.prov, i)
    /\ s.prov # subs[i].prov => draft[s.prov] # None
    /\ s.tp # None => TpExists(s.tp)
    /\ subs' = [subs EXCEPT ![i] = s]
    /\ draft' = IF r.url = None THEN draft ELSE [draft EXCEPT ![s.prov] = r.url]
    /\ UNCHANGED <<born, tps, fetches>>

(* Update of a traffic source.  Binding it to another traffic provider     *)
(* clears what was fetched from the old one in the same statement.         *)
UpdateTraffic(i, r) ==
    LET s == Applied(subs[i], r)
        Rebound == [s EXCEPT !.snap = None, !.failure = None] IN
    /\ i \in Rows /\ subs[i].src = "traffic"
    /\ s.prov = None /\ r.url = None
    /\ s.name = subs[i].name \/ ~NameTaken(s.name, i)
    /\ TpExists(s.tp) /\ ~TrackedByOther(s.tp, i)
    /\ subs' = [subs EXCEPT ![i] = IF s.tp = subs[i].tp THEN s ELSE Rebound]
    /\ UNCHANGED <<born, draft, tps, fetches>>

Blank(r) == [name |-> r.name, enabled |-> r.enabled, src |-> r.src,
             prov |-> None, tp |-> r.tp, quota |-> None, expire |-> None, reset |-> None,
             snap |-> None, failure |-> None]

(* Create of a native subscription: links the draft's provider of that     *)
(* name when there is one, else creates it with the URL.  A linked         *)
(* provider brings the traffic provider that tracks its URL, if any.       *)
CreateNative(i, r) ==
    LET prov == IF r.prov = Keep THEN r.name ELSE r.prov
        s    == [Applied(Blank(r), r) EXCEPT !.prov = prov]
        Tracking == {t \in Tps : TpExists(t) /\ tps[t].url = draft[prov]} IN
    /\ i \notin born /\ r.src = "native"
    /\ born' = born \cup {i}
    /\ ~NameTaken(r.name, i) /\ ~ManagedByOther(prov, i)
    /\ r.tp # None => TpExists(r.tp)
    /\ \/ /\ draft[prov] # None /\ r.url = None
          /\ \/ (r.tp # None \/ Tracking = {}) /\ subs' = [subs EXCEPT ![i] = s]
             \/ /\ r.tp = None
                /\ \E t \in Tracking : subs' = [subs EXCEPT ![i] = [s EXCEPT !.tp = t]]
          /\ UNCHANGED draft
       \/ /\ draft[prov] = None /\ r.url # None
          /\ subs' = [subs EXCEPT ![i] = s]
          /\ draft' = [draft EXCEPT ![prov] = r.url]
    /\ UNCHANGED <<tps, fetches>>

(* createTrafficSource: what the request omits is inherited. *)
CreateTraffic(i, r) ==
    LET s == Applied(Blank(r), r) IN
    /\ i \notin born /\ r.src = "traffic"
    /\ born' = born \cup {i}
    /\ r.prov = Keep /\ r.url = None /\ TpExists(r.tp)
    /\ ~NameTaken(r.name, i) /\ ~TrackedByOther(r.tp, i)
    /\ subs' = [subs EXCEPT ![i] = [s EXCEPT !.quota = Or(r.quota, tps[r.tp].quota),
                                             !.reset = Or(r.reset, tps[r.tp].reset)]]
    /\ UNCHANGED <<draft, tps, fetches>>

(* Delete.  A native provider leaves the draft with its row, unless that   *)
(* write fails, which is only reported.                                    *)
Delete(i) ==
    /\ i \in Rows
    /\ subs' = [subs EXCEPT ![i] = None]
    /\ \/ UNCHANGED draft
       \/ subs[i].src = "native" /\ draft' = [draft EXCEPT ![subs[i].prov] = None]
    /\ UNCHANGED <<born, tps, fetches>>

(* The traffic page and the draft editor change what refreshes read.       *)
TpChanged(t, row) == tps' = [tps EXCEPT ![t] = row] /\ UNCHANGED <<subs, born, draft, fetches>>
DraftChanged(p, url) == draft' = [draft EXCEPT ![p] = url] /\ UNCHANGED <<subs, born, tps, fetches>>

-----------------------------------------------------------------------------
(* Refreshes: Refresh, refreshTrafficSource and the two background forms.  *)

UrlOf(s) == IF s.src = "native" THEN draft[s.prov]
            ELSE IF TpExists(s.tp) THEN tps[s.tp].url ELSE None

RefreshStart(n, i, auto) ==
    /\ i \in Rows /\ \A f \in fetches : f.n # n
    /\ auto => subs[i].enabled /\ UrlOf(subs[i]) # None
    /\ fetches' = fetches \cup {[n |-> n, id |-> i, src |-> subs[i].src, tp |-> subs[i].tp,
                                 url |-> UrlOf(subs[i]), auto |-> auto]}
    /\ UNCHANGED <<subs, born, draft, tps>>

Written(f, s) == subs' = [subs EXCEPT ![f.id] = s]

(* As StillSource with the URL alone. *)
SameUrl(f) == UrlOf(subs[f.id]) = f.url

(* The source the fetch was started for is still the row's.                *)
StillSource(f) ==
    LET s == subs[f.id] IN
    IF f.src = "native" THEN draft[s.prov] = f.url
    ELSE s.tp = f.tp /\ TpExists(s.tp) /\ tps[s.tp].url = f.url

(* A traffic source: without a URL only the status is written, provided    *)
(* the row was not bound to another provider; a result is dropped, good or *)
(* bad, when the source changed.  A missing provider is a failure of the   *)
(* provider the row named.                                                 *)
TrafficResult(f, ok) ==
    LET s == subs[f.id] IN
    \/ /\ f.url = None /\ s.tp = f.tp
       /\ Written(f, [s EXCEPT !.failure = IF TpExists(f.tp) THEN None ELSE f.tp])
    \/ /\ f.url # None /\ StillSource(f)
       /\ \/ ok /\ Written(f, [s EXCEPT !.snap = f.tp, !.failure = None])
          \/ ~ok /\ ~f.auto /\ Written(f, [s EXCEPT !.failure = f.tp])
          \/ ~ok /\ f.auto /\ UNCHANGED subs
    \/ ((f.url = None /\ s.tp # f.tp) \/ (f.url # None /\ ~StillSource(f))) /\ UNCHANGED subs

(* A native provider: the snapshot needs the URL to be current, the error  *)
(* of a manual refresh is written in any case.  A manual refresh also asks *)
(* mihomo to reload the provider, which may fail beside a good snapshot.   *)
NativeResult(f, ok) ==
    LET s == subs[f.id] IN
    \/ /\ ok /\ f.url # None /\ StillSource(f)
       /\ \E e \in IF f.auto THEN {None} ELSE {None, f.url} :
             Written(f, [s EXCEPT !.snap = f.url, !.failure = e])
    \/ /\ ~f.auto /\ ~(ok /\ f.url # None /\ StillSource(f))
       /\ Written(f, [s EXCEPT !.failure = f.url])
    \/ f.auto /\ ~(ok /\ StillSource(f)) /\ UNCHANGED subs

RefreshEnd(f, ok) ==
    /\ f \in fetches
    /\ fetches' = fetches \ {f}
    /\ \/ f.id \notin Rows /\ UNCHANGED subs
       \/ f.id \in Rows /\ f.src = "traffic" /\ TrafficResult(f, ok)
       \/ f.id \in Rows /\ f.src = "native" /\ NativeResult(f, ok)
    /\ UNCHANGED <<born, draft, tps>>

-----------------------------------------------------------------------------
Saved(i, r) == UpdateNative(i, r) \/ UpdateTraffic(i, r) \/ CreateNative(i, r) \/ CreateTraffic(i, r)

ServerNext ==
    \/ \E i \in Ids, r \in Request : Saved(i, r)
    \/ \E i \in Ids : Delete(i)
    \/ \E t \in Tps : \E row \in Tp \cup {None} : TpChanged(t, row)
    \/ \E p \in Names : \E url \in Urls \cup {None} : DraftChanged(p, url)
    \/ \E n \in FetchIds, i \in Ids, auto \in BOOLEAN : RefreshStart(n, i, auto)
    \/ \E f \in fetches, ok \in BOOLEAN : RefreshEnd(f, ok)

ServerInit ==
    /\ subs = [i \in Ids |-> None]
    /\ born = {}
    /\ draft = [p \in Names |-> None]
    /\ tps = [t \in Tps |-> None]
    /\ fetches = {}

ServerSpec == ServerInit /\ [][ServerNext]_serverVars

-----------------------------------------------------------------------------
ServerTypeOK ==
    /\ subs \in [Ids -> Sub \cup {None}]
    /\ Rows \subseteq born /\ born \subseteq Ids
    /\ draft \in [Names -> Urls \cup {None}]
    /\ tps \in [Tps -> Tp \cup {None}]
    /\ fetches \subseteq Fetch

(* A native subscription has a provider entry of its own, a traffic source *)
(* none: what one of them deletes or overwrites in the draft is never what *)
(* another one manages.                                                    *)
OneManager ==
    /\ \A i \in Rows : subs[i].prov = None <=> subs[i].src = "traffic"
    /\ \A i, j \in Rows : (subs[i].src = "native" /\ subs[i].prov = subs[j].prov) => i = j

(* A traffic provider is managed by at most one traffic source             *)
(* (docs/subscription-score-api.md), whatever is rebound at the same time. *)
OneTracker ==
    \A i, j \in Rows :
        (subs[i].src = "traffic" /\ subs[j].src = "traffic" /\ subs[i].tp = subs[j].tp) => i = j

(* The usage and the error a traffic source shows are those of the         *)
(* provider it is bound to: a refresh that ends after a rebind leaves no   *)
(* trace (docs/subscription-score-api.md: never attributed to the new      *)
(* source).                                                                *)
TrafficStateIsOwn ==
    \A i \in Rows : subs[i].src = "traffic" =>
        subs[i].snap \in {None, subs[i].tp} /\ subs[i].failure \in {None, subs[i].tp}
=============================================================================
