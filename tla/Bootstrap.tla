------------------------------ MODULE Bootstrap ------------------------------
(***************************************************************************)
(* The start of a business network: Engine.init (engine.js), which stores  *)
(* the business network, executes the bootstrap transactions of the start  *)
(* request one after the other and then the start transaction itself, all  *)
(* in one context and one transaction of the data service.                 *)
(*                                                                         *)
(* Reads go to the committed documents: neither the Go nor the PouchDB     *)
(* data service shows a transaction what it has written itself.  A write   *)
(* and an event are kept in buffers, which the commit works off and an     *)
(* error drops.                                                            *)
(***************************************************************************)
EXTENDS Naturals, Sequences, FiniteSets

CONSTANTS
    Request,    \* the start requests that are made, one after the other
    Doc,        \* the documents that bootstrap transactions add
    MaxTx,      \* bound: bootstrap transactions of one request
    MaxEvents,  \* bound: events of one request
    MaxWrites,  \* bound: buffered writes up to which documents are added
    None        \* the value of a document that does not exist

NoneAssumption ==
    /\ MaxTx \in Nat
    /\ None \notin Request \union Nat
    /\ None \notin [timestamp : Nat, eventsEmitted : SUBSET (Nat \X Nat)]

\* The transactions of a request: transactionId#0, transactionId#1 ... and, as
\* number n, the start transaction with the plain transactionId.
TxId == 0 .. MaxTx

Key == {<<"businessnetwork">>, <<"metanetwork">>}
       \union {<<"doc", d>> : d \in Doc}
       \union {<<"tx", r, i>> : r \in Request, i \in TxId}
       \union {<<"historian", r, i>> : r \in Request, i \in TxId}

VARIABLES
    db,         \* the committed documents
    phase,      \* where each request is
    current,    \* the request that is being executed, or None
    count,      \* the number of bootstrap transactions of the current request
    index,      \* the number of the transaction that is being executed
    buffer,     \* the writes of the current request: <<key, value>>
    eventBuffer,  \* eventService.eventBuffer: <<transaction, event number>>
    eventNumber,  \* context.eventNumber
    published   \* the events that a commit has published, per request

vars == <<db, phase, current, count, index, buffer, eventBuffer, eventNumber,
          published>>

Init ==
    /\ db = [k \in Key |-> None]
    /\ phase = [r \in Request |-> "new"]
    /\ current = None
    /\ count = 0
    /\ index = 0
    /\ buffer = <<>>
    /\ eventBuffer = <<>>
    /\ eventNumber = 0
    /\ published = [r \in Request |-> <<>>]

\* The writes of a transaction, each of them a <<key, value>>.
Buffered(s) == buffer' = buffer \o s

\* transactionStart and the first writes of a request.
Open(r, n) ==
    /\ current = None
    /\ phase[r] = "new"
    /\ phase' = [phase EXCEPT ![r] = "running"]
    /\ current' = r
    /\ count' = n
    /\ index' = 0
    /\ buffer' = <<<<<<"businessnetwork">>, r>>, <<<<"metanetwork">>, r>>>>
    /\ eventBuffer' = <<>>
    /\ eventNumber' = 0
    /\ UNCHANGED <<db, published>>

\* transactionStart, the business network is added to $sysdata, the context is
\* initialized and the default registries are created.
Begin(r, n) ==
    /\ db[<<"businessnetwork">>] = None
    /\ db[<<"metanetwork">>] = None
    /\ Open(r, n)

\* sysdata.add: the business network has been started before.
Refuse(r) ==
    /\ current = None
    /\ phase[r] = "new"
    /\ db[<<"businessnetwork">>] # None \/ db[<<"metanetwork">>] # None
    /\ phase' = [phase EXCEPT ![r] = "failed"]
    /\ UNCHANGED <<db, current, count, index, buffer, eventBuffer, eventNumber,
                   published>>

-----------------------------------------------------------------------------
\* A processor function of the transaction adds a document; one that an earlier
\* transaction of the request has added is not seen, and is overwritten.
Add(d) ==
    /\ current # None
    /\ index <= count
    /\ Len(buffer) < MaxWrites
    /\ db[<<"doc", d>>] = None
    /\ Buffered(<<<<<<"doc", d>>, index>>>>)
    /\ UNCHANGED <<db, phase, current, count, index, eventBuffer, eventNumber,
                   published>>

\* A processor function emits an event; its identifier is the transaction's
\* with the number of the event in the context.
Emit ==
    /\ current # None
    /\ index <= count
    /\ Len(eventBuffer) < MaxEvents
    /\ eventBuffer' = Append(eventBuffer, <<index, eventNumber>>)
    /\ eventNumber' = eventNumber + 1
    /\ UNCHANGED <<db, phase, current, count, index, buffer, published>>

\* Engine.init adds a millisecond to the timestamp for every transaction.
Timestamp(i) == i + 1

HistorianRecord(i) ==
    [timestamp |-> Timestamp(i),
     eventsEmitted |-> {eventBuffer[j] : j \in 1 .. Len(eventBuffer)}]

\* submitTransaction is done with the processor functions: the transaction
\* goes to its registry and the historian record to the historian registry.
Record ==
    /\ current # None
    /\ index <= count
    /\ db[<<"tx", current, index>>] = None
    /\ db[<<"historian", current, index>>] = None
    /\ Buffered(<<<<<<"tx", current, index>>, index>>,
                  <<<<"historian", current, index>>, HistorianRecord(index)>>>>)
    /\ index' = index + 1
    /\ UNCHANGED <<db, phase, current, count, eventBuffer, eventNumber,
                   published>>

Leave(result) ==
    /\ phase' = [phase EXCEPT ![current] = result]
    /\ current' = None
    /\ count' = 0
    /\ index' = 0
    /\ buffer' = <<>>
    /\ eventBuffer' = <<>>
    /\ eventNumber' = 0

\* Mutant: an error of a bootstrap transaction skips the rest of them.
ThrowSkips ==
    /\ current # None
    /\ index < count
    /\ index' = count
    /\ UNCHANGED <<db, phase, current, count, buffer, eventBuffer, eventNumber,
                   published>>

\* An error of any transaction is an error of the request: transactionRollback.
Throw ==
    /\ current # None
    /\ index <= count
    /\ Leave("failed")
    /\ UNCHANGED <<db, published>>

Written(k) == \E j \in 1 .. Len(buffer) : buffer[j][1] = k
LastWrite(k) ==
    buffer[CHOOSE j \in 1 .. Len(buffer) :
              /\ buffer[j][1] = k
              /\ \A i \in j + 1 .. Len(buffer) : buffer[i][1] # k][2]

\* transactionPrepare, transactionCommit: the writes reach the documents and
\* the events are published.
Commit ==
    /\ current # None
    /\ index = count + 1
    /\ db' = [k \in Key |-> IF Written(k) THEN LastWrite(k) ELSE db[k]]
    /\ published' = [published EXCEPT ![current] = eventBuffer]
    /\ Leave("started")

Next ==
    \/ \E r \in Request, n \in 0 .. MaxTx : Begin(r, n)
    \/ \E r \in Request : Refuse(r)
    \/ \E d \in Doc : Add(d)
    \/ Emit
    \/ Record
    \/ Throw
    \/ Commit

Spec == Init /\ [][Next]_vars

-----------------------------------------------------------------------------
Recorded(r, i) == db[<<"historian", r, i>>] # None

\* The types of the variables.
TypeOK ==
    /\ phase \in [Request -> {"new", "running", "started", "failed"}]
    /\ current \in Request \union {None}
    /\ count \in 0 .. MaxTx
    /\ index \in 0 .. MaxTx + 1
    /\ \A j \in 1 .. Len(buffer) : buffer[j][1] \in Key
    /\ \A j \in 1 .. Len(eventBuffer) : eventBuffer[j] \in TxId \X Nat
    /\ eventNumber \in Nat

\* A business network is there with all transactions of the request that has
\* started it, the bootstrap ones and the start transaction, each with its
\* historian record, and with the documents of these and no others.
WhollyStarted ==
    LET r == db[<<"businessnetwork">>] IN
    IF r = None THEN \A k \in Key : db[k] = None
    ELSE /\ phase[r] = "started"
         /\ db[<<"metanetwork">>] = r
         /\ \E n \in TxId :
               /\ \A q \in Request, i \in TxId :
                     /\ Recorded(q, i) <=> (q = r /\ i <= n)
                     /\ Recorded(q, i) <=> db[<<"tx", q, i>>] # None
               /\ \A d \in Doc : db[<<"doc", d>>] \in 0 .. n \union {None}

\* The historian orders the transactions of a start as they were executed: by
\* timestamps that grow strictly (engine.js, "We want the historian entries to
\* be ordered").
HistorianOrdered ==
    \A r \in Request, i, j \in TxId :
       i < j /\ Recorded(r, i) /\ Recorded(r, j)
         => db[<<"historian", r, i>>].timestamp < db[<<"historian", r, j>>].timestamp

\* Clients tell the events of a start apart by their identifiers, and the
\* historian has recorded each one that is published to them.
EventsDistinct ==
    \A r \in Request :
       /\ \A i, j \in DOMAIN published[r] : i # j => published[r][i] # published[r][j]
       /\ \A e \in {published[r][i] : i \in DOMAIN published[r]} :
             /\ Recorded(r, e[1])
             /\ e \in db[<<"historian", r, e[1]>>].eventsEmitted

\* Once a business network is started no start request changes it: it does not
\* lose what the first one has stored, and gains nothing of another.
StartedOnce ==
    [][db[<<"businessnetwork">>] # None => db' = db /\ published' = published]_vars

\* The claim of the system model, that a historian record holds "The events
\* that where emitted by this transactionId".
EventsOwn ==
    \A r \in Request, i \in TxId :
       Recorded(r, i) =>
         \A e \in db[<<"historian", r, i>>].eventsEmitted : e[1] = i

\* A business network is there with all transactions of the request that has
\* started it, or with nothing; the historian has them in order, and clients can
\* tell their events apart.
StartedWhole == TypeOK /\ WhollyStarted /\ HistorianOrdered /\ EventsDistinct
=============================================================================
