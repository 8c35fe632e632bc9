---------------------------- MODULE MCConnectors ----------------------------
(***************************************************************************)
(* Model values and bounds for the connectors.                             *)
(***************************************************************************)
EXTENDS Connectors

CONSTANTS
    alice, bob, admin, r1, r2, r3, \* users, the administrator, requests
    c1, c2, c3                     \* connections, calls

Users == {alice, bob}
Requests == {r1, r2, r3}
Conns == {c1, c2}
Calls == {c1, c2, c3}
Names == {admin, alice}
=============================================================================
