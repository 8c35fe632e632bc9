------------------------------ MODULE MCClients ------------------------------
(***************************************************************************)
(* Model values and bounds for what applications and users work with.      *)
(***************************************************************************)
EXTENDS Clients, TLC

CONSTANTS
    c1, c2, c3, c4,            \* calls, those up to c3 interchangeable
    n1, n2,                    \* names of networks and cards
    r1, r2, r3, i1, p, q, v, w,   \* requests, a resource, attributes and values
    a, b, c, d,                \* certificates
    e1, e2                     \* peers

Requests == {r1, r2, r3}
Ids == {i1}
Attrs == {p, q}
Values == {v, w}
AllOps == {"create", "replace", "patch", "destroy", "retrieve", "all"}
Symmetric == Permutations({c1, c2, c3})

\* An application that makes four calls, on two networks.
ClientCalls == {c1, c2, c3, c4}
Names == {n1, n2}

\* Three calls with cards of two names: one at a time, one at a time without delete,
\* and overlapping in processes that may die.
Calls == {c1, c2, c3}
CardSet == {[cert |-> a, secret |-> None], [cert |-> None, secret |-> b],
            [cert |-> c, secret |-> d]}
Kept == {"import", "export", "connect", "list"}
CardUses == {[kinds |-> Kept \union {"delete"}, serial |-> TRUE, faults |-> FALSE],
             [kinds |-> Kept, serial |-> TRUE, faults |-> FALSE],
             [kinds |-> Kept \union {"delete"}, serial |-> FALSE, faults |-> TRUE]}

\* Three administrators and two peers; a version with a new micro and one with a new
\* minor version come after the first.
Peers == {e1, e2}
AdminCalls == [kind : {"deploy", "start"}, version : {<<1, 0>>}]
              \union [kind : {"install", "deploy", "upgrade"}, version : {<<1, 1>>, <<2, 0>>}]
=============================================================================
