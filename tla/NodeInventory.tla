--------------------------- MODULE NodeInventory ---------------------------
(***************************************************************************)
(* lib/node-inventory.ts: the one table of the proxies page, merged from   *)
(* the static proxies of the database and the runtime nodes of the native  *)
(* proxy-providers.  A row is a record; its key is a sequence of numbers   *)
(* (1 or 2 for the code's "static:" and "provider:", then the id), so that *)
(* the suffix "#k" that the code adds to a taken key is Append(key, k).    *)
(***************************************************************************)
EXTENDS Integers, FiniteSets, Sequences, SequencesExt

AllSources   == "__all__"
StaticSource == "__static__"

KeysOf(s) == {s[i].key : i \in 1..Len(s)}

(* push(): the first of key, key#2, key#3, ... that no earlier row has.    *)
UniqueKey(key, used) ==
    IF key \notin used THEN key
    ELSE LET Free == {k \in 2..(Cardinality(used) + 2) : Append(key, k) \notin used}
         IN Append(key, CHOOSE k \in Free : \A l \in Free : k <= l)

PushRow(acc, row) == Append(acc, [row EXCEPT !.key = UniqueKey(row.key, KeysOf(acc))])

StaticRow(proxy) == [key |-> <<1, proxy>>, kind |-> "static", name |-> proxy, source |-> "",
                     readOnly |-> FALSE]
ProviderRow(provider, node) ==
    [key |-> <<2>> \o node.id, kind |-> "provider", name |-> node.name, source |-> provider,
     readOnly |-> TRUE]

(* What the runtime API reports: providers with their nodes, in order.     *)
ProviderList(providers) ==
    /\ providers \in Seq(ToSet(providers))
    /\ \A p \in ToSet(providers) : /\ p.nodes \in Seq(ToSet(p.nodes))
                                  /\ \A node \in ToSet(p.nodes) : node.id \in Seq(Nat)

(* buildNodeRows: static rows in list order, then every provider's nodes.  *)
(* A provider is [name, status, nodes], nodes a sequence of [id, name].    *)
BuildNodeRows(proxies, providers) ==
    LET statics == [i \in 1..Len(proxies) |-> StaticRow(proxies[i])]
        nodes   == FlattenSeq([p \in 1..Len(providers) |->
                       [n \in 1..Len(providers[p].nodes) |->
                           ProviderRow(providers[p].name, providers[p].nodes[n])]])
    IN FoldLeft(PushRow, <<>>, statics \o nodes)

(* filterNodeRows: the source filter; search, protocol and country filter  *)
(* rows one by one in the same way.                                        *)
FilterNodeRows(rs, source) ==
    SelectSeq(rs, LAMBDA r : \/ source = AllSources
                             \/ source = StaticSource /\ r.kind = "static"
                             \/ source \notin {AllSources, StaticSource} /\ r.source = source)
=============================================================================
