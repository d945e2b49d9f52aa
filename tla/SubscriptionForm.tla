-------------------------- MODULE SubscriptionForm --------------------------
(***************************************************************************)
(* components/subscriptions/subscription-form.tsx: what the dialog keeps   *)
(* of the row it was opened for, how its inputs change it, and the request *)
(* it makes of it.  Pure operators: the page (SubscriptionsPage) says when *)
(* they run.  A schedule is one value, as is a wall-clock expiry with its  *)
(* zone; a blank input is None.                                            *)
(***************************************************************************)
EXTENDS Subscriptions

(* What the page knows of the server: the rows, for every draft provider   *)
(* whether it is there and which row is linked to it, the traffic          *)
(* providers.  Absent and Free are the two cases without a row.            *)
CONSTANTS Absent, Free

Links(rows, entries) ==
    [p \in Names |->
        IF entries[p] = None THEN Absent
        ELSE LET Of == {i \in Ids : rows[i] # None /\ rows[i].src = "native" /\ rows[i].prov = p}
             IN IF Of = {} THEN Free ELSE CHOOSE i \in Of : TRUE]

(* base is the row of the list the dialog was opened with, and touched the *)
(* supplement fields the user has typed in (observed only).                *)
ClosedForm == [open |-> FALSE, id |-> None, base |-> None, name |-> None, src |-> "native",
               prov |-> None, provTouched |-> FALSE, url |-> None, enabled |-> TRUE,
               quota |-> None, quotaDirty |-> FALSE, expire |-> None, expireDirty |-> FALSE,
               reset |-> None, resetDirty |-> FALSE, tp |-> None, touched |-> {}]

(* The effect on [open, subscription].  A quota or an expiry the vendor    *)
(* reports is not put in the input.                                        *)
CreateForm == [ClosedForm EXCEPT !.open = TRUE]
EditForm(i, s) ==
    [ClosedForm EXCEPT !.open = TRUE, !.id = i, !.base = s, !.name = s.name, !.src = s.src,
                       !.prov = IF s.prov = None THEN s.name ELSE s.prov, !.provTouched = TRUE,
                       !.enabled = s.enabled, !.reset = s.reset, !.tp = s.tp,
                       !.quota = IF s.snap = None THEN s.quota ELSE None,
                       !.expire = IF s.snap = None THEN s.expire ELSE None]

Creating(f) == f.id = None

-----------------------------------------------------------------------------
(* Inputs. *)

NameTyped(f, v) ==
    IF Creating(f) /\ ~f.provTouched THEN [f EXCEPT !.name = v, !.prov = v]
    ELSE [f EXCEPT !.name = v]

(* The type is chosen while creating; what the other type's inputs hold    *)
(* stays.                                                                  *)
SourceChosen(f, v) == [f EXCEPT !.src = v]

ProviderTyped(f, v) == [f EXCEPT !.prov = v, !.provTouched = TRUE]
UrlTyped(f, v) == [f EXCEPT !.url = v]
EnabledToggled(f) == [f EXCEPT !.enabled = ~@]

QuotaTyped(f, v)  == [f EXCEPT !.quota = v, !.quotaDirty = TRUE, !.touched = @ \cup {"quota"}]
ExpiryTyped(f, v) == [f EXCEPT !.expire = v, !.expireDirty = TRUE, !.touched = @ \cup {"expire"}]
ResetTyped(f, v)  == [f EXCEPT !.reset = v, !.resetDirty = TRUE, !.touched = @ \cup {"reset"}]

(* The traffic-source select: while creating it shows what is inherited.   *)
(* The select of a native subscription's local tracker does not.           *)
TrafficChosen(f, v, seenTps) ==
    IF Creating(f) /\ v # None
    THEN [f EXCEPT !.tp = v, !.quota = seenTps[v].quota, !.quotaDirty = FALSE,
                   !.reset = seenTps[v].reset, !.resetDirty = FALSE,
                   !.touched = @ \ {"quota", "reset"}]
    ELSE [f EXCEPT !.tp = v]
TrackerChosen(f, v) == [f EXCEPT !.tp = v]

(* Every change of one input.  The inputs of the other type are hidden.    *)
Edits(f, seenTps) ==
    LET Choices == {None} \cup {t \in Tps : seenTps[t] # None} IN
    {NameTyped(f, v) : v \in Names}
    \cup {QuotaTyped(f, v) : v \in Quotas} \cup {ExpiryTyped(f, v) : v \in Expiries}
    \cup {ResetTyped(f, v) : v \in Resets} \cup {EnabledToggled(f)}
    \cup (IF Creating(f) THEN {SourceChosen(f, v) : v \in {"native", "traffic"}} ELSE {})
    \cup (IF f.src = "traffic" THEN {TrafficChosen(f, v, seenTps) : v \in Choices}
          ELSE {ProviderTyped(f, v) : v \in Names \cup {None}} \cup {UrlTyped(f, v) : v \in Urls}
               \cup {TrackerChosen(f, v) : v \in Choices})

-----------------------------------------------------------------------------
(* submit. *)

(* An empty provider name stands for the subscription's, but only what the *)
(* input holds is looked up.                                               *)
ProviderOf(f) == IF f.prov = None THEN f.name ELSE f.prov
Existing(f, links) == f.prov # None /\ links[f.prov] # Absent
LinkedElsewhere(f, links) == f.prov # None /\ links[f.prov] \notin {Absent, Free, f.id}
OwnProvider(f) == ~Creating(f) /\ ProviderOf(f) = f.base.prov

(* The checks of submit, and the disabled Save button of a provider that   *)
(* is linked elsewhere: of either type, the hidden input counts too.       *)
Valid(f, links) ==
    /\ f.name # None
    /\ f.src = "traffic" => f.tp # None
    /\ ~LinkedElsewhere(f, links)
    /\ f.src = "native" =>
         /\ ~Creating(f) => OwnProvider(f) \/ Existing(f, links)
         /\ Existing(f, links) \/ f.url # None

(* As QuotaSent when every quota in the input is sent. *)
QuotaShown(f) == IF f.quota # None \/ f.quotaDirty THEN f.quota ELSE Keep

(* Only what the user typed: the rest keeps what the server has by then.   *)
QuotaSent(f) == IF f.quotaDirty THEN f.quota ELSE Keep
ExpirySent(f) == IF f.expireDirty THEN f.expire ELSE Keep
ResetSent(f) == IF f.src = "native" \/ f.resetDirty THEN f.reset ELSE Keep

(* As UrlSent with the URL of any provider. *)
UrlTypedIsSent(f, links) == IF f.src = "native" THEN f.url ELSE None

(* The URL of an existing provider is sent only for the one the row had    *)
(* when the dialog opened.                                                 *)
UrlSent(f, links) ==
    IF f.src = "native" /\ (~Existing(f, links) \/ OwnProvider(f)) THEN f.url ELSE None

Input(f, links) ==
    [name |-> f.name, enabled |-> f.enabled, src |-> f.src,
     prov |-> IF f.src = "native" THEN ProviderOf(f) ELSE Keep,
     url |-> UrlSent(f, links), tp |-> f.tp,
     quota |-> QuotaSent(f), expire |-> ExpirySent(f), reset |-> ResetSent(f)]
=============================================================================
