--------------------------- MODULE MCHLFConnection ---------------------------
(***************************************************************************)
(* Two transactions in flight on a connection with two event hubs.         *)
(***************************************************************************)
EXTENDS HLFConnection

CONSTANTS t1, t2, peer1, peer2

=============================================================================
