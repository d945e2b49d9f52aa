---------------------------- MODULE ProxiesPage ----------------------------
(***************************************************************************)
(* pages/proxies.tsx with components/proxies/proxy-list.tsx: the static    *)
(* proxies with their dialogs, the read-only nodes of the native providers *)
(* and the delay tests of both.  ProxyList keeps the delays and the        *)
(* confirm dialog; it is unmounted only while the page loads with nothing  *)
(* to show.                                                                *)
(***************************************************************************)
EXTENDS CrudPage, NodeInventory

CONSTANTS
    Inventories, \* the provider lists the runtime API may report
    MaxTests     \* bound: delay tests a click adds to those of a test-all

ASSUME InventoriesAssumption == \A inv \in Inventories : ProviderList(inv)

VARIABLES
    providers,   \* client: the provider list as last set
    provLoading, \* client: the provider request is in flight
    provError,   \* client: the last provider request failed
    source,      \* client: the source filter
    delays,      \* client: what ProxyList shows per row key
    testing,     \* client: testingAll
    trigger,     \* client: testAllTrigger > 0
    seen,        \* client: ProxyList has run the test of the last trigger
    tests        \* delay requests in flight: [key, batch, mine]

testVars == <<delays, testing, trigger, seen, tests>>
proxyVars == <<providers, provLoading, provError, source, testVars>>

OnProxies == page = "proxies"

AllRows == BuildNodeRows(rows, providers)
ShownRows == FilterNodeRows(AllRows, source)

(* page: loading && allRows.length === 0 replaces the list. *)
ListMounted == ~(loading /\ AllRows = <<>>)

ProxyShown(i) == ListMounted /\ \E r \in ToSet(ShownRows) : r.kind = "static" /\ r.name = i

(* A row key that no test has touched shows the delay the server reported. *)
DelayOf(key) == IF key \in DOMAIN delays THEN delays[key] ELSE "none"
SetDelay(d, key, v) == [k \in DOMAIN d \cup {key} |-> IF k = key THEN v ELSE d[k]]

(* What unmounting ProxyList drops: its state; its tests go on. *)
KeepOrDrop(mounted) ==
    IF mounted THEN UNCHANGED <<delays, seen, tests>>
    ELSE /\ delays' = <<>>
         /\ seen' = FALSE
         /\ tests' = {[t EXCEPT !.mine = FALSE] : t \in tests}

ProxiesFetched ==
    /\ OnProxies
    /\ ListReplied
    /\ UNCHANGED proxyVars

(* fetchProviders: on mount and from the retry button of the error alert;  *)
(* a failure empties the provider rows and nothing else.                   *)
ProvidersListed ==
    /\ OnProxies
    /\ \/ /\ provLoading
          /\ provLoading' = FALSE
          /\ \/ providers' \in Inventories /\ provError' = FALSE
             \/ providers' = <<>> /\ provError' = TRUE
          /\ KeepOrDrop(~(loading /\ rows = <<>> /\ providers' = <<>>))
       \/ /\ provError /\ ~provLoading /\ NoDialog
          /\ provLoading' = TRUE
          /\ UNCHANGED <<providers, provError, delays, seen, tests>>
    /\ UNCHANGED <<crudVars, source, testing, trigger>>

SourceFiltered ==
    /\ OnProxies /\ NoDialog
    /\ source' \in {AllSources, StaticSource} \ {source}
    /\ UNCHANGED <<crudVars, providers, provLoading, provError, testVars>>

ProxiesAdd  == OnProxies /\ NoDialog /\ OpenForm(NoId) /\ UNCHANGED proxyVars
ProxiesEdit == OnProxies /\ NoDialog /\ (\E i \in Ids : ProxyShown(i) /\ OpenForm(i)) /\ UNCHANGED proxyVars
ProxiesForm == OnProxies /\ CloseForm /\ UNCHANGED proxyVars

(* A reply that starts a fetch unmounts the list when there is no row.     *)
ProxiesSave ==
    /\ OnProxies
    /\ \/ SaveSent /\ UNCHANGED proxyVars
       \/ /\ SaveReplied(AllRows # <<>>)
          /\ KeepOrDrop(~loading' \/ AllRows # <<>>)
          /\ UNCHANGED <<providers, provLoading, provError, source, testing, trigger>>

ProxiesDeleteClick ==
    /\ OnProxies
    /\ \/ NoDialog /\ \E i \in Ids : ProxyShown(i) /\ RefsSent(i)
       \/ ListMounted /\ RefsReplied
    /\ UNCHANGED proxyVars

ProxiesDelete ==
    /\ OnProxies
    /\ \/ (CancelDelete \/ ConfirmDelete) /\ UNCHANGED proxyVars
       \/ /\ DeleteReplied(AllRows # <<>>)
          /\ KeepOrDrop(~loading' \/ AllRows # <<>>)
          /\ UNCHANGED <<providers, provLoading, provError, source, testing, trigger>>

(* handleCopy: the copy is made by the server, the list fetched again.     *)
ProxiesCopy ==
    /\ OnProxies
    /\ \/ /\ NoDialog
          /\ \E i \in Ids : ProxyShown(i) /\ Send("copy", i, <<>>)
          /\ UNCHANGED loading
       \/ \E c \in Replies("copy", TRUE) :
             /\ AllRows # <<>>
             /\ calls' = OverAndFetch(c) /\ loading' = TRUE
             /\ UNCHANGED sent
       \/ \E c \in Replies("copy", FALSE) : calls' = Over(c) /\ UNCHANGED <<loading, sent>>
    /\ UNCHANGED <<page, db, ord, made, rows, hides, form, confirm, proxyVars>>

(* Every test-all is a promise of its own; the test of one row is in none. *)
Alone == 0
NewBatch(b) == b # Alone /\ \A t \in tests : t.batch # b

(* testOneDelay up to its await. *)
TestSent(keys, batch) ==
    /\ tests' = tests \cup {[key |-> k, batch |-> batch, mine |-> TRUE] : k \in keys}
    /\ delays' = [k \in DOMAIN delays \cup keys |-> IF k \in keys THEN "testing" ELSE delays[k]]

(* The row's button is disabled while the row shows a test. *)
TestOne ==
    /\ OnProxies /\ ListMounted /\ NoDialog
    /\ Cardinality({t \in tests : t.batch = Alone}) < MaxTests
    /\ \E r \in ToSet(ShownRows) : DelayOf(r.key) # "testing" /\ TestSent({r.key}, Alone)
    /\ UNCHANGED <<crudVars, providers, provLoading, provError, source, testing, trigger, seen>>

(* The page's button only sets the flag and the trigger ...                *)
TestAllClicked ==
    /\ OnProxies /\ NoDialog /\ ~testing
    /\ testing' = TRUE
    /\ trigger' = TRUE
    /\ seen' = FALSE
    /\ UNCHANGED <<crudVars, providers, provLoading, provError, source, delays, tests>>

(* ... and an effect of the list tests every row it shows, once per        *)
(* trigger and mounted list; with no row the promise is fulfilled at once. *)
TestAllEffect ==
    /\ OnProxies /\ ListMounted /\ trigger /\ ~seen
    /\ seen' = TRUE
    /\ \E b \in 1..Cardinality(tests) + 1 :
          /\ NewBatch(b) /\ \A a \in 1..b - 1 : ~NewBatch(a)
          /\ TestSent(KeysOf(ShownRows), b)
    /\ testing' = (testing /\ KeysOf(ShownRows) # {})
    /\ UNCHANGED <<crudVars, providers, provLoading, provError, source, trigger>>

(* The last test of its test-all, which then calls back. *)
Completes(t) == t.batch # Alone /\ \A u \in tests \ {t} : u.batch # t.batch

(* As TestReplied without the catch: the row keeps its spinner, the rest   *)
(* of the test-all completes for nobody.                                   *)
TestRepliedUncaught ==
    /\ OnProxies
    /\ \E t \in tests :
          \/ /\ tests' = tests \ {t}
             /\ delays' = IF t.mine THEN SetDelay(delays, t.key, "settled") ELSE delays
             /\ testing' = (testing /\ ~Completes(t))
          \/ /\ tests' = {IF u.batch = t.batch THEN [u EXCEPT !.batch = Alone] ELSE u : u \in tests \ {t}}
             /\ UNCHANGED <<delays, testing>>
    /\ UNCHANGED <<crudVars, providers, provLoading, provError, source, trigger, seen>>

(* testOneDelay after its await: the row shows a delay, "timeout" or, from *)
(* the catch, "error" ("settled").  The last of a test-all tells the page, *)
(* which enables its button although another test-all may be running.      *)
TestReplied ==
    /\ OnProxies
    /\ \E t \in tests :
          /\ tests' = tests \ {t}
          /\ delays' = IF t.mine THEN SetDelay(delays, t.key, "settled") ELSE delays
          /\ testing' = (testing /\ ~Completes(t))
    /\ UNCHANGED <<crudVars, providers, provLoading, provError, source, trigger, seen>>

ProxiesInit ==
    /\ providers = <<>>
    /\ provLoading = TRUE
    /\ provError = FALSE
    /\ source = AllSources
    /\ delays = <<>>
    /\ testing = FALSE
    /\ trigger = FALSE
    /\ seen = FALSE
    /\ tests = {}

ProxiesNext ==
    \/ ProxiesFetched \/ ProvidersListed \/ SourceFiltered
    \/ ProxiesAdd \/ ProxiesEdit \/ ProxiesForm \/ ProxiesSave
    \/ ProxiesDeleteClick \/ ProxiesDelete \/ ProxiesCopy
    \/ TestOne \/ TestAllClicked \/ TestAllEffect \/ TestReplied
=============================================================================
