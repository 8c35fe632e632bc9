------------------------------ MODULE MCEngine ------------------------------
(***************************************************************************)
(* Model values and bounds for the parts of the engine.                    *)
(***************************************************************************)
EXTENDS Engine, TLC

CONSTANTS
    c1, c2, c3,                      \* calls, requests and namespaces, interchangeable
    r1, r2,                          \* start requests
    alice, bob, p, q,                \* names of identities, participants
    d1, d2, m1, m2, a, b, x,         \* documents, models, registries or assets
    v1, v2, bad,                     \* versions of a business network
    all, any, ann, buy, sell, sys

Calls == {c1, c2, c3}
Names == {alice, bob}
Participants == {p, q}
Symmetric == Permutations(Calls)

\* Two start requests, and up to two bootstrap transactions, events, documents.
StartRequests == {r1, r2}
StartDocs == {d1, d2}

\* Two models with one class of assets each and a common class of participants,
\* a registry that clients add, a start and two updates or resets.
Types == {"Asset", "Participant"}
Models == {m1, m2}
Classes == (m1 :> {a, p}) @@ (m2 :> {b, p})
Added == {x}
TypesOf == (a :> "Asset") @@ (b :> "Asset") @@ (x :> "Asset") @@ (p :> "Participant")
HistorianRegistry == <<"Asset", "HistorianRecord">>
Docs == {d1}
Txs == 1 .. 3

\* Two good versions and one that does not compile, caches of one.
Versions == {v1, v2, bad}
BrokenVersions == {bad}

\* Two rules each, over two assets that are related in a chain or in a circle.
Assets == {a, b}
Callers == {ann}
Transactions == {buy, sell}
OnlyRule(noun, verbs, hops, allow) ==
    [noun |-> noun, verbs |-> verbs, hops |-> hops, allow |-> allow,
     participant |-> any, transaction |-> any]
Chain == (a :> b) @@ (b :> None)
Circle == (a :> b) @@ (b :> a)
Following == {OnlyRule(n, {v}, h, w) :
               n \in {a, b, any}, v \in {"READ", "ALL"}, h \in 0..2, w \in BOOLEAN}
Updating == {OnlyRule(any, {"UPDATE"}, h, w) : h \in 1..2, w \in BOOLEAN}
Restricted == {[r EXCEPT !.transaction = buy] : r \in {OnlyRule(any, {"ALL"}, 0, TRUE)}}
Plain == {OnlyRule(n, {"READ"}, 0, w) : n \in {all, a, any}, w \in BOOLEAN}
Straight ==
    [rules : {<<r, s>> : r \in Following \union Restricted \union Plain,
                         s \in Following \union Plain} \union {None, <<>>},
     related : {Chain}]
Circular == [rules : {<<r, s>> : r \in Updating, s \in Plain}, related : {Circle}]
BothNetworks == Straight \union Circular

\* Three namespaces and the system one for files that are added, two for all calls.
Fields == {x}
AddedNamespaces == Calls \union {sys}
ChangedNamespaces == {a, b, sys}

ASSUME Access!ChecksEnd
=============================================================================
