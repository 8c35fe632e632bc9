---------------------------- MODULE FabricRuntime ----------------------------
(***************************************************************************)
(* Business network transactions on Hyperledger Fabric: the engine of      *)
(* composer-runtime (engine.js, engine.transactions.js) on the Go data     *)
(* services of composer-runtime-hlfv1 (datacollection.go), which read and  *)
(* write the world state through the chaincode stub, and the connector     *)
(* that submits what was endorsed (hlfconnection.js).                      *)
(*                                                                         *)
(* A chaincode call only simulates: GetState reads the committed world and *)
(* notes the version read, PutState and DelState collect writes that the   *)
(* same call does not read back.  When the transaction is delivered, the   *)
(* peer checks the versions again and applies all writes or none.  Fabric  *)
(* itself is external and is modelled as the code uses it.                 *)
(***************************************************************************)
EXTENDS Naturals

CONSTANTS
    Tx,        \* the transactions that clients submit
    Resource,  \* the documents that transaction processor functions work on
    Value,     \* what a document can say
    Absent,    \* the value of a document that does not exist
    Genesis,   \* the version of the documents that exist at the start
    Nil        \* the version of a document that does not exist

ASSUME ValueAssumption == Absent \notin Value \union Tx
ASSUME VersionAssumption == Genesis \notin Tx /\ Nil \notin Tx /\ Genesis # Nil

\* The record of t in its transaction registry, and in the historian registry.
TxRecord(t) == <<"Transaction", t>>
HistorianRecord(t) == <<"Historian", t>>

Key == Resource
       \union {TxRecord(t) : t \in Tx}
       \union {HistorianRecord(t) : t \in Tx}

ASSUME KeyAssumption ==
    Resource \intersect ({"Transaction", "Historian"} \X Tx) = {}

Version == Tx \union {Genesis, Nil}

VARIABLES
    state,     \* the committed world state
    version,   \* the version of each document: the transaction that wrote it
    phase,     \* where each transaction is
    readSet,   \* what each transaction has read: <<document, value, version>>
    writeSet   \* what each transaction has written: document -> value

vars == <<state, version, phase, readSet, writeSet>>

NothingWritten == [k \in {} |-> Absent]

Init ==
    /\ \E s \in [Resource -> Value \union {Absent}] :
          state = [k \in Key |-> IF k \in Resource THEN s[k] ELSE Absent]
    /\ version = [k \in Key |-> IF state[k] = Absent THEN Nil ELSE Genesis]
    /\ phase = [t \in Tx |-> "new"]
    /\ readSet = [t \in Tx |-> {}]
    /\ writeSet = [t \in Tx |-> NothingWritten]

-----------------------------------------------------------------------------
\* The chaincode stub.
GetState(k) == state[k]

\* What reading k adds to the read set.
Observe(k) == <<k, state[k], version[k]>>

\* PutState and DelState: a later write of the same document wins.
Written(w, k, v) == [j \in DOMAIN w \union {k} |-> IF j = k THEN v ELSE w[j]]

-----------------------------------------------------------------------------
\* The endorsing peer calls Chaincode.Invoke: Engine.invoke sets up a context
\* of its own and starts the transaction.
Begin(t) ==
    /\ phase[t] = "new"
    /\ phase' = [phase EXCEPT ![t] = "running"]
    /\ UNCHANGED <<state, version, readSet, writeSet>>

\* get, exists, and every add, update or remove that the data collection
\* refuses: the transaction processor function may go on after the error.
Read(t, k) ==
    /\ phase[t] = "running"
    /\ readSet' = [readSet EXCEPT ![t] = @ \union {Observe(k)}]
    /\ UNCHANGED <<state, version, phase, writeSet>>

\* dataCollection.add: the document must not exist, unless forced.
Add(t, k, v) ==
    /\ phase[t] = "running"
    /\ GetState(k) = Absent
    /\ readSet' = [readSet EXCEPT ![t] = @ \union {Observe(k)}]
    /\ writeSet' = [writeSet EXCEPT ![t] = Written(@, k, v)]
    /\ UNCHANGED <<state, version, phase>>

ForceAdd(t, k, v) ==
    /\ phase[t] = "running"
    /\ writeSet' = [writeSet EXCEPT ![t] = Written(@, k, v)]
    /\ UNCHANGED <<state, version, phase, readSet>>

\* dataCollection.update and dataCollection.remove: the document must exist.
Replace(t, k, v) ==
    /\ phase[t] = "running"
    /\ GetState(k) # Absent
    /\ readSet' = [readSet EXCEPT ![t] = @ \union {Observe(k)}]
    /\ writeSet' = [writeSet EXCEPT ![t] = Written(@, k, v)]
    /\ UNCHANGED <<state, version, phase>>

Update(t, k, v) == Replace(t, k, v)
Remove(t, k) == Replace(t, k, Absent)

\* Mutant: the historian is left out.
RecordNoHistorian(t) ==
    /\ phase[t] = "running"
    /\ GetState(TxRecord(t)) = Absent
    /\ readSet' = [readSet EXCEPT ![t] = @ \union {Observe(TxRecord(t))}]
    /\ writeSet' = [writeSet EXCEPT ![t] = Written(@, TxRecord(t), t)]
    /\ phase' = [phase EXCEPT ![t] = "endorsed"]
    /\ UNCHANGED <<state, version>>

\* The processor functions are done: the engine adds the transaction to its
\* registry and its historian record to the historian registry, the services
\* prepare and commit, and the endorsement goes back to the client.
Record(t) ==
    /\ phase[t] = "running"
    /\ GetState(TxRecord(t)) = Absent
    /\ GetState(HistorianRecord(t)) = Absent
    /\ readSet' = [readSet EXCEPT ![t] =
                     @ \union {Observe(TxRecord(t)), Observe(HistorianRecord(t))}]
    /\ writeSet' = [writeSet EXCEPT ![t] =
                      Written(Written(@, TxRecord(t), t), HistorianRecord(t), t)]
    /\ phase' = [phase EXCEPT ![t] = "endorsed"]
    /\ UNCHANGED <<state, version>>

\* A processor function throws, access is denied, no function handles the
\* transaction: the engine rolls back, the chaincode answers with an error
\* and the client does not submit.
Throw(t) ==
    /\ phase[t] = "running"
    /\ phase' = [phase EXCEPT ![t] = "failed"]
    /\ UNCHANGED <<state, version, readSet, writeSet>>

\* Mutant: the connector sends it again when it has not heard of it.
SubmitAgain(t) ==
    /\ phase[t] \in {"endorsed", "valid"}
    /\ phase' = [phase EXCEPT ![t] = "ordered"]
    /\ UNCHANGED <<state, version, readSet, writeSet>>

\* The connector has validated the endorsements and sends the transaction.
Submit(t) ==
    /\ phase[t] = "endorsed"
    /\ phase' = [phase EXCEPT ![t] = "ordered"]
    /\ UNCHANGED <<state, version, readSet, writeSet>>

-----------------------------------------------------------------------------
\* The peer's check: everything that t has read is still at that version.
Unchanged(t) == \A r \in readSet[t] : version[r[1]] = r[3]

Deliver(t) ==
    /\ phase[t] = "ordered"
    /\ Unchanged(t)
    /\ state' = [k \in Key |->
                   IF k \in DOMAIN writeSet[t] THEN writeSet[t][k] ELSE state[k]]
    /\ version' = [k \in Key |->
                     IF k \in DOMAIN writeSet[t]
                     THEN IF writeSet[t][k] = Absent THEN Nil ELSE t
                     ELSE version[k]]
    /\ phase' = [phase EXCEPT ![t] = "valid"]
    /\ UNCHANGED <<readSet, writeSet>>

\* MVCC_READ_CONFLICT: the transaction is in the block, without effect.
Reject(t) ==
    /\ phase[t] = "ordered"
    /\ ~ Unchanged(t)
    /\ phase' = [phase EXCEPT ![t] = "invalid"]
    /\ UNCHANGED <<state, version, readSet, writeSet>>

Script(t) ==
    \E k \in Resource :
        \/ Read(t, k) \/ Remove(t, k)
        \/ \E v \in Value : Add(t, k, v) \/ ForceAdd(t, k, v) \/ Update(t, k, v)

Next ==
    \E t \in Tx :
        \/ Begin(t) \/ Script(t) \/ Record(t) \/ Throw(t)
        \/ Submit(t) \/ Deliver(t) \/ Reject(t)

Spec == Init /\ [][Next]_vars

-----------------------------------------------------------------------------
Phase == {"new", "running", "endorsed", "ordered", "valid", "invalid", "failed"}
Contents == Value \union Tx \union {Absent}

TypeOK ==
    /\ state \in [Key -> Contents]
    /\ version \in [Key -> Version]
    /\ phase \in [Tx -> Phase]
    /\ readSet \in [Tx -> SUBSET (Key \X Contents \X Version)]
    /\ writeSet = [t \in Tx |-> [k \in DOMAIN writeSet[t] |-> writeSet[t][k]]]
    /\ \A t \in Tx : /\ DOMAIN writeSet[t] \subseteq Key
                     /\ \A k \in DOMAIN writeSet[t] : writeSet[t][k] \in Contents

\* The historian "records successful transactions" (business-network/
\* historian.md): those, and only those, whose changes have been applied.
HistorianExact ==
    \A t \in Tx :
        /\ phase[t] = "valid" <=> state[HistorianRecord(t)] # Absent
        /\ phase[t] = "valid" <=> state[TxRecord(t)] # Absent

\* A transaction is only turned down because of another one that wrote what
\* it had read and that did succeed: conflicts cannot use each other up.
RejectedForAnother ==
    \A t \in Tx : phase[t] = "invalid" =>
        \E u \in Tx \ {t}, r \in readSet[t] :
            phase[u] = "valid" /\ r[1] \in DOMAIN writeSet[u]

\* The strengthening: only Record writes records, each transaction its own;
RecordInv ==
    \A t \in Tx :
        /\ DOMAIN writeSet[t] \subseteq
             Resource \union {TxRecord(t), HistorianRecord(t)}
        /\ phase[t] \in {"new", "running"} => DOMAIN writeSet[t] \subseteq Resource
        /\ phase[t] \in {"endorsed", "ordered"} =>
             \A k \in {TxRecord(t), HistorianRecord(t)} :
                 k \in DOMAIN writeSet[t] /\ writeSet[t][k] = t

\* and a version stands for one value, and moves on only when a
\* transaction that succeeds writes the document.
VersionInv ==
    /\ \A k \in Key :
          /\ version[k] = Nil <=> state[k] = Absent
          /\ version[k] \in Tx => phase[version[k]] = "valid"
    /\ \A t \in Tx : \A r \in readSet[t] :
          /\ r[3] = Nil => r[2] = Absent
          /\ r[3] \in Tx => phase[r[3]] = "valid"
          /\ r[3] = version[r[1]] => r[2] = state[r[1]]
          /\ r[3] # version[r[1]] =>
                \E u \in Tx : phase[u] = "valid" /\ r[1] \in DOMAIN writeSet[u]

FabricInv ==
    TypeOK /\ RecordInv /\ VersionInv /\ HistorianExact /\ RejectedForAnother

-----------------------------------------------------------------------------
\* The abstract view: a transaction happens when it is delivered.
outcome ==
    [t \in Tx |->
       IF phase[t] = "valid"
       THEN [status |-> "committed",
             reads  |-> {<<r[1], r[2]>> : r \in readSet[t]},
             writes |-> writeSet[t]]
       ELSE [status |-> IF phase[t] \in {"failed", "invalid"}
                        THEN "failed" ELSE "open",
             reads  |-> {},
             writes |-> <<>>]]

Atomic == INSTANCE AtomicTransactions WITH world <- state

\* Transactions are atomic and serializable, in the order of delivery.
AtomicSpec == Atomic!Spec

=============================================================================
