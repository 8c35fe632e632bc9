-------------------------- MODULE MCEmbeddedRuntime --------------------------
(***************************************************************************)
(* Small instances of EmbeddedRuntime: two transactions of at most two     *)
(* writes each, over two documents.                                        *)
(***************************************************************************)
EXTENDS EmbeddedRuntime

CONSTANTS t1, t2, car, house, red, blue

=============================================================================
