--------------------------- MODULE MCFabricRuntime ---------------------------
(***************************************************************************)
(* Two transactions, any number of reads and writes each, over two         *)
(* documents and the records of both.                                      *)
(***************************************************************************)
EXTENDS FabricRuntime

CONSTANTS t1, t2, car, house, red

MCTx == {t1, t2}
MCResource == {car, house}
MCValue == {red}

=============================================================================
