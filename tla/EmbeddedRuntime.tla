--------------------------- MODULE EmbeddedRuntime ---------------------------
(***************************************************************************)
(* Business network transactions in one JavaScript process: the engine of  *)
(* composer-runtime (engine.js, engine.transactions.js, context.js) on the *)
(* data service of composer-runtime-pouchdb, as the embedded and the web   *)
(* connector run it.                                                       *)
(*                                                                         *)
(* Every invocation has a context, and so a data service, of its own, over *)
(* one database that all share.  A call of a data collection looks at the  *)
(* database at once but queues its write in pendingActions; the queue is   *)
(* worked off by transactionPrepare, one action after the other, and       *)
(* nothing takes an action back.  Invocations interleave at every await.   *)
(***************************************************************************)
EXTENDS Naturals, Sequences, FiniteSets

CONSTANTS
    Tx,         \* the transactions that clients submit, one invocation each
    Resource,   \* the documents that transaction processor functions work on
    Value,      \* what a document can say
    Absent,     \* the value of a document that does not exist
    Nobody,     \* the writer of the documents that exist at the start
    MaxWrites,  \* bound: writes of one transaction processor function
    MaxClients  \* bound: clients

ASSUME ValueAssumption == Absent \notin Value \union Tx
ASSUME NobodyAssumption == Nobody \notin Tx
ASSUME MaxWritesAssumption == MaxWrites \in Nat

\* Processor functions do not write into the registries of records.
ASSUME KeyAssumption == Resource \intersect ({"Transaction", "Historian"} \X Tx) = {}

TxRecord(t) == <<"Transaction", t>>
HistorianRecord(t) == <<"Historian", t>>

Key == Resource
       \union {TxRecord(t) : t \in Tx}
       \union {HistorianRecord(t) : t \in Tx}

VARIABLES
    db,        \* the shared database: the value of each document
    rev,       \* its revision: <<invocation, number of its pending action>>
    phase,     \* where each invocation is
    pending,   \* its pendingActions: <<document, value>>, Absent to remove it
    done,      \* how many of them transactionPrepare has worked off
    seen,      \* the revision that the action in progress has got
    reads,     \* what the invocation has read, <<document, value>> (history)
    events,    \* the invocations whose events the clients have received
    clients    \* how many clients there are, who wait for each answer; it never changes

vars == <<db, rev, phase, pending, done, seen, reads, events, clients>>

NoRev == <<>>

Init ==
    /\ \E s \in [Resource -> Value \union {Absent}] :
          db = [k \in Key |-> IF k \in Resource THEN s[k] ELSE Absent]
    /\ rev = [k \in Key |-> <<Nobody, 0>>]
    /\ phase = [t \in Tx |-> "new"]
    /\ pending = [t \in Tx |-> <<>>]
    /\ done = [t \in Tx |-> 0]
    /\ seen = [t \in Tx |-> NoRev]
    /\ reads = [t \in Tx |-> {}]
    /\ events = {}
    /\ clients \in 1 .. MaxClients

Active == {t \in Tx : phase[t] \in {"running", "preparing", "putting"}}

\* What db.get says of the revision: none for a document that does not exist.
CurrentRev(k) == IF db[k] = Absent THEN NoRev ELSE rev[k]

Observed(t, K) == reads' = [reads EXCEPT ![t] = @ \union {<<k, db[k]>> : k \in K}]

-----------------------------------------------------------------------------
\* Engine.invoke: the context is initialized, transactionStart empties the
\* queue of pending actions and the buffer of events.
Start(t) ==
    /\ phase[t] = "new"
    /\ Cardinality(Active) < clients
    /\ phase' = [phase EXCEPT ![t] = "running"]
    /\ pending' = [pending EXCEPT ![t] = <<>>]
    /\ UNCHANGED <<db, rev, done, seen, reads, events, clients>>

\* get and exists, and an add, update or remove that is refused: the
\* transaction processor function may handle the error and go on.
Read(t, k) ==
    /\ phase[t] = "running"
    /\ Observed(t, {k})
    /\ UNCHANGED <<db, rev, phase, pending, done, seen, events, clients>>

\* Mutant: the write is done at once.
DeferNot(t, k, v) ==
    /\ phase[t] = "running"
    /\ Len(pending[t]) < MaxWrites
    /\ Observed(t, {k})
    /\ db' = [db EXCEPT ![k] = v]
    /\ rev' = [rev EXCEPT ![k] = <<t, Len(pending[t]) + 1>>]
    /\ UNCHANGED <<phase, pending, done, seen, events, clients>>

\* add, update and remove look at the document now and act on it later.
Defer(t, k, v) ==
    /\ phase[t] = "running"
    /\ Len(pending[t]) < MaxWrites
    /\ Observed(t, {k})
    /\ pending' = [pending EXCEPT ![t] = Append(@, <<k, v>>)]
    /\ UNCHANGED <<db, rev, phase, done, seen, events, clients>>

Add(t, k, v) == db[k] = Absent /\ Defer(t, k, v)
Update(t, k, v) == db[k] # Absent /\ Defer(t, k, v)
Remove(t, k) == db[k] # Absent /\ Defer(t, k, Absent)

\* Mutant: the records go ahead of the changes.
RecordFirst(t) ==
    /\ phase[t] = "running"
    /\ db[TxRecord(t)] = Absent
    /\ db[HistorianRecord(t)] = Absent
    /\ Observed(t, {TxRecord(t), HistorianRecord(t)})
    /\ pending' = [pending EXCEPT ![t] =
                     <<<<TxRecord(t), t>>, <<HistorianRecord(t), t>>>> \o @]
    /\ phase' = [phase EXCEPT ![t] = "preparing"]
    /\ UNCHANGED <<db, rev, done, seen, events, clients>>

\* The processor functions are done: the transaction goes to its registry and
\* the historian record to the historian registry, last of all.
Record(t) ==
    /\ phase[t] = "running"
    /\ db[TxRecord(t)] = Absent
    /\ db[HistorianRecord(t)] = Absent
    /\ Observed(t, {TxRecord(t), HistorianRecord(t)})
    /\ pending' = [pending EXCEPT ![t] =
                     @ \o <<<<TxRecord(t), t>>, <<HistorianRecord(t), t>>>>]
    /\ phase' = [phase EXCEPT ![t] = "preparing"]
    /\ UNCHANGED <<db, rev, done, seen, events, clients>>

\* An error before transactionPrepare: transactionRollback has nothing to do,
\* the queue is dropped with its context.
Throw(t) ==
    /\ phase[t] = "running"
    /\ phase' = [phase EXCEPT ![t] = "failed"]
    /\ UNCHANGED <<db, rev, pending, done, seen, reads, events, clients>>

-----------------------------------------------------------------------------
Current(t) == pending[t][done[t] + 1]
Doc(t) == Current(t)[1]

\* transactionPrepare takes the next action: putDocument and removeDocument
\* begin with db.get, to learn the revision.
PrepareGet(t) ==
    /\ phase[t] = "preparing"
    /\ done[t] < Len(pending[t])
    /\ seen' = [seen EXCEPT ![t] = CurrentRev(Doc(t))]
    /\ phase' = [phase EXCEPT ![t] = "putting"]
    /\ UNCHANGED <<db, rev, pending, done, reads, events, clients>>

\* removeDocument has found nothing to remove.
NothingToRemove(t) == Current(t)[2] = Absent /\ seen[t] = NoRev

\* db.put and db.remove succeed on the revision that was read.
PreparePut(t) ==
    /\ phase[t] = "putting"
    /\ CurrentRev(Doc(t)) = seen[t] \/ NothingToRemove(t)
    /\ IF NothingToRemove(t)
       THEN UNCHANGED <<db, rev>>
       ELSE /\ db' = [db EXCEPT ![Doc(t)] = Current(t)[2]]
            /\ rev' = [rev EXCEPT ![Doc(t)] = <<t, done[t] + 1>>]
    /\ done' = [done EXCEPT ![t] = @ + 1]
    /\ phase' = [phase EXCEPT ![t] = "preparing"]
    /\ UNCHANGED <<pending, seen, reads, events, clients>>

\* Mutant: nobody hears of the failure.
PrepareConflictLost(t) ==
    /\ phase[t] = "putting"
    /\ CurrentRev(Doc(t)) # seen[t]
    /\ ~ NothingToRemove(t)
    /\ UNCHANGED vars

\* They fail on any other one: the invocation fails, and the rollback does
\* not touch the actions that were worked off before.
PrepareConflict(t) ==
    /\ phase[t] = "putting"
    /\ CurrentRev(Doc(t)) # seen[t]
    /\ ~ NothingToRemove(t)
    /\ phase' = [phase EXCEPT ![t] = "failed"]
    /\ UNCHANGED <<db, rev, pending, done, seen, reads, events, clients>>

\* Mutant: the events are emitted while the prepare is still under way.
CommitEarly(t) ==
    /\ phase[t] = "preparing"
    /\ events' = events \union {t}
    /\ phase' = [phase EXCEPT ![t] = "succeeded"]
    /\ UNCHANGED <<db, rev, pending, done, seen, reads, clients>>

\* transactionPrepare is through, transactionCommit emits the events.
Commit(t) ==
    /\ phase[t] = "preparing"
    /\ done[t] = Len(pending[t])
    /\ events' = events \union {t}
    /\ phase' = [phase EXCEPT ![t] = "succeeded"]
    /\ UNCHANGED <<db, rev, pending, done, seen, reads, clients>>

Script(t) ==
    \E k \in Resource :
        \/ Read(t, k) \/ Remove(t, k)
        \/ \E v \in Value : Add(t, k, v) \/ Update(t, k, v)

Prepare(t) == PrepareGet(t) \/ PreparePut(t) \/ PrepareConflict(t)

Next ==
    \E t \in Tx :
        Start(t) \/ Script(t) \/ Record(t) \/ Throw(t) \/ Prepare(t) \/ Commit(t)

Spec == Init /\ [][Next]_vars

\* The event loop runs every promise that can be resolved, and a processor
\* function ends.
FairSpec ==
    Spec /\ \A t \in Tx : /\ WF_vars(Record(t) \/ Throw(t))
                          /\ WF_vars(Prepare(t) \/ Commit(t))

-----------------------------------------------------------------------------
TypeOK ==
    /\ db \in [Key -> Value \union Tx \union {Absent}]
    /\ \A k \in Key : rev[k] \in (Tx \union {Nobody}) \X (0 .. MaxWrites + 2)
    /\ phase \in [Tx -> {"new", "running", "preparing", "putting",
                         "succeeded", "failed"}]
    /\ \A t \in Tx : /\ Len(pending[t]) <= MaxWrites + 2
                     /\ done[t] \in 0 .. Len(pending[t])
                     /\ seen[t] = NoRev \/ seen[t] \in (Tx \union {Nobody}) \X Nat
                     /\ reads[t] \subseteq Key \X (Value \union Tx \union {Absent})
    /\ events \subseteq Tx

WrittenBy(t) == {k \in Key : rev[k][1] = t}

\* A historian record is the last word of its transaction: whoever reads it
\* finds everything that the transaction changed already in place.
HistorianComplete ==
    \A t \in Tx : db[HistorianRecord(t)] # Absent =>
        /\ done[t] = Len(pending[t])
        /\ db[TxRecord(t)] # Absent

\* Clients only hear of transactions that are in the historian, although they
\* are told outside the database.
EventsRecorded == \A t \in events : db[HistorianRecord(t)] # Absent

\* An error of the processor function leaves nothing behind.
ThrowLeavesNothing ==
    \A t \in Tx : phase[t] = "failed" /\ done[t] = 0 => WrittenBy(t) = {}

\* "either the transaction is successful and all changes are applied, or the
\* transaction fails and no changes are applied" (reference/js_scripts.md).
FailedChangesNothing ==
    \A t \in Tx : phase[t] = "failed" => WrittenBy(t) = {}

\* What t must take for the value of k, after its own pending actions.
OwnView(t, k) ==
    LET mine == {i \in DOMAIN pending[t] : pending[t][i][1] = k} IN
    IF mine = {} THEN db[k]
    ELSE pending[t][CHOOSE i \in mine : \A j \in mine : j <= i][2]

\* "if the asset already exists in the asset registry, then the promise will
\* be rejected" (composer-runtime/lib/api/assetregistry.js), also when it was
\* added earlier in the same transaction.
AddRefusesExisting ==
    [][\A t \in Tx, k \in Resource, v \in Value :
          Add(t, k, v) => OwnView(t, k) = Absent]_vars

\* Every invocation is answered: no conflict makes two of them wait.
Answered == \A t \in Tx : phase[t] = "running" ~> phase[t] \in {"succeeded", "failed"}

-----------------------------------------------------------------------------
\* The abstract view.  With one client at a time no action can conflict, so
\* the transaction is decided when the prepare begins: what is still pending
\* counts as done.
Preparing == {t \in Tx : phase[t] \in {"preparing", "putting"}}

\* The effect of a sequence of actions: the last one on each document.
Effect(s) ==
    [k \in {s[i][1] : i \in DOMAIN s} |->
       LET last == CHOOSE i \in DOMAIN s :
                      s[i][1] = k /\ \A j \in DOMAIN s : s[j][1] = k => j <= i
       IN s[last][2]]

Rest == IF Preparing = {} THEN <<>>
        ELSE LET t == CHOOSE u \in Preparing : TRUE
             IN Effect(SubSeq(pending[t], done[t] + 1, Len(pending[t])))

world == [k \in Key |-> IF k \in DOMAIN Rest THEN Rest[k] ELSE db[k]]

outcome ==
    [t \in Tx |->
       IF phase[t] \in {"preparing", "putting", "succeeded"}
       THEN [status |-> "committed", reads |-> reads[t],
             writes |-> Effect(pending[t])]
       ELSE [status |-> IF phase[t] = "failed" THEN "failed" ELSE "open",
             reads |-> {}, writes |-> <<>>]]

Atomic == INSTANCE AtomicTransactions

\* Transactions in one process are atomic and serializable, for one client at a time:
\* every step is one of AtomicTransactions.
SerialAtomic ==
    /\ []TypeOK
    /\ clients = 1 => Atomic!Init
    /\ [][clients = 1 => Atomic!Next]_(Atomic!vars)

=============================================================================
