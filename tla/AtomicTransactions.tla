------------------------- MODULE AtomicTransactions -------------------------
(***************************************************************************)
(* What a business network promises of its transactions, whatever runs     *)
(* them: "changes made by transactions are atomic, either the transaction  *)
(* is successful and all changes are applied, or the transaction fails and *)
(* no changes are applied" (reference/js_scripts.md), and a transaction    *)
(* that succeeds did so on the world state it has read.                    *)
(*                                                                         *)
(* The two runtimes implement this: FabricRuntime for any number of        *)
(* clients, EmbeddedRuntime for one client that waits for each answer.     *)
(***************************************************************************)
CONSTANTS
    Tx,      \* the transactions that are ever submitted
    Key      \* the documents of the world state

VARIABLES
    world,   \* the value of every document
    outcome  \* what became of every transaction, and what it read and wrote

vars == <<world, outcome>>

Open == [status |-> "open", reads |-> {}, writes |-> <<>>]
Failed == [status |-> "failed", reads |-> {}, writes |-> <<>>]

\* The world after the writes w: a function from some documents to values.
Overlay(w, base) == [k \in Key |-> IF k \in DOMAIN w THEN w[k] ELSE base[k]]

Init == outcome = [t \in Tx |-> Open] /\ world = [k \in Key |-> world[k]]

\* All the changes of t happen at once, to a world in which everything that
\* t has read, a set of <<document, value>>, is still true.
Commit(t) ==
    /\ outcome[t] = Open
    /\ outcome' = [outcome EXCEPT ![t] = outcome'[t]]
    /\ outcome'[t].status = "committed"
    /\ DOMAIN outcome'[t].writes \subseteq Key
    /\ \A r \in outcome'[t].reads : world[r[1]] = r[2]
    /\ world' = Overlay(outcome'[t].writes, world)

\* t fails and nothing has changed.
Fail(t) ==
    /\ outcome[t] = Open
    /\ outcome' = [outcome EXCEPT ![t] = Failed]
    /\ UNCHANGED world

Next == \E t \in Tx : Commit(t) \/ Fail(t)

Spec == Init /\ [][Next]_vars

=============================================================================
