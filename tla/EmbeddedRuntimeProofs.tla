------------------------ MODULE EmbeddedRuntimeProofs ------------------------
(***************************************************************************)
(* Proofs about the runtime in one JavaScript process.                     *)
(*                                                                         *)
(* Transactions on a PouchDB data service (EmbeddedRuntime), for every set *)
(* of transactions, documents and values and any number of writes: with    *)
(* any number of clients, a historian record is the last word of its       *)
(* transaction, events are of recorded transactions, and an error of a     *)
(* processor function leaves nothing; with one client at a time,           *)
(* transactions are atomic and serializable.                               *)
(***************************************************************************)
EXTENDS EmbeddedRuntime, FiniteSetTheorems, SequenceTheorems, WellFoundedInduction, TLAPS

DbValue == Value \union Tx \union {Absent}
Action == Key \X DbValue
Revision == (Tx \union {Nobody}) \X Nat

Types ==
    /\ db \in [Key -> DbValue]
    /\ rev \in [Key -> Revision]
    /\ phase \in [Tx -> {"new", "running", "preparing", "putting", "succeeded", "failed"}]
    /\ pending \in [Tx -> Seq(Action)]
    /\ done \in [Tx -> Nat]
    /\ seen \in [Tx -> Revision \union {NoRev}]
    /\ reads \in [Tx -> SUBSET Action]
    /\ events \subseteq Tx

\* Record has put the records of t behind the changes of its processor functions.
Recorded(t) ==
    /\ Len(pending[t]) >= 2
    /\ \A i \in 1 .. Len(pending[t]) - 2 : pending[t][i][1] \in Resource
    /\ pending[t][Len(pending[t]) - 1] = <<TxRecord(t), t>>
    /\ pending[t][Len(pending[t])] = <<HistorianRecord(t), t>>

Prepared(t) == phase[t] \in {"preparing", "putting", "succeeded"} \/ done[t] > 0

\* Where an invocation is in its queue ...
QueueOf(t) ==
    /\ done[t] <= Len(pending[t])
    /\ phase[t] = "putting" => done[t] < Len(pending[t])
    /\ phase[t] = "succeeded" => done[t] = Len(pending[t])
    /\ phase[t] \in {"new", "running"} =>
          done[t] = 0 /\ \A i \in DOMAIN pending[t] : pending[t][i][1] \in Resource
    /\ Prepared(t) => Recorded(t)

\* ... and its records: they are in the database when the queue is worked off as far
\* as them.
RecordsOf(t) ==
    /\ db[TxRecord(t)] # Absent <=> Prepared(t) /\ done[t] + 1 >= Len(pending[t])
    /\ db[HistorianRecord(t)] # Absent <=> Prepared(t) /\ done[t] = Len(pending[t])

QueueInv == \A t \in Tx : QueueOf(t) /\ RecordsOf(t)

\* Who has written has worked off an action; who has emitted events has succeeded.
WriterInv ==
    /\ \A k \in Key, t \in Tx : rev[k][1] = t => done[t] > 0
    /\ \A t \in events : phase[t] = "succeeded"

EmbeddedInv == Types /\ QueueInv /\ WriterInv

LEMMA RecordsApart ==
    ASSUME NEW t \in Tx, NEW u \in Tx
    PROVE  /\ TxRecord(t) \in Key /\ HistorianRecord(t) \in Key
           /\ TxRecord(t) # HistorianRecord(u)
           /\ TxRecord(t) = TxRecord(u) => t = u
           /\ HistorianRecord(t) = HistorianRecord(u) => t = u
           /\ TxRecord(t) \notin Resource /\ HistorianRecord(t) \notin Resource
           /\ Resource \subseteq Key
BY KeyAssumption DEF TxRecord, HistorianRecord, Key

LEMMA EmbeddedInit == Init => EmbeddedInv
<1> SUFFICES ASSUME Init PROVE EmbeddedInv
  OBVIOUS
<1>1. Types
  <2>1. db \in [Key -> DbValue]
    BY DEF Init, DbValue
  <2>2. rev \in [Key -> Revision] /\ Absent \in DbValue
    BY DEF Init, Revision, DbValue
  <2> QED BY <2>1, <2>2 DEF Init, Types
<1>2. QueueInv
  BY RecordsApart DEF Init, QueueInv, QueueOf, RecordsOf, Prepared
<1>3. WriterInv
  BY NobodyAssumption DEF Init, WriterInv
<1> QED BY <1>1, <1>2, <1>3 DEF EmbeddedInv

\* An invocation that does not move has its queue and its records as they were.
LEMMA OthersKept ==
    ASSUME QueueInv, NEW u \in Tx,
           phase'[u] = phase[u], pending'[u] = pending[u], done'[u] = done[u],
           db'[TxRecord(u)] = db[TxRecord(u)],
           db'[HistorianRecord(u)] = db[HistorianRecord(u)]
    PROVE  QueueOf(u)' /\ RecordsOf(u)'
BY DEF QueueInv, QueueOf, RecordsOf, Prepared, Recorded

\* Before its transaction is prepared, an invocation has no record.
LEMMA Unprepared ==
    ASSUME QueueInv, NEW t \in Tx, phase[t] \in {"new", "running"}
    PROVE  ~ Prepared(t) /\ done[t] = 0
           /\ db[TxRecord(t)] = Absent /\ db[HistorianRecord(t)] = Absent
BY DEF QueueInv, QueueOf, RecordsOf, Prepared

LEMMA StartInv ==
    ASSUME EmbeddedInv, NEW t \in Tx, Start(t)
    PROVE  EmbeddedInv'
<1>1. Types'
  BY DEF Start, EmbeddedInv, Types
<1>2. ~ Prepared(t) /\ done[t] = 0 /\ db[TxRecord(t)] = Absent /\ db[HistorianRecord(t)] = Absent
  BY Unprepared DEF Start, EmbeddedInv
<1>3. phase'[t] = "running" /\ pending'[t] = <<>> /\ UNCHANGED <<db, rev, done, events>>
  BY DEF Start, EmbeddedInv, Types
<1>4. QueueOf(t)' /\ RecordsOf(t)'
  BY <1>2, <1>3 DEF QueueOf, RecordsOf, Prepared
<1>5. \A u \in Tx \ {t} : phase'[u] = phase[u] /\ pending'[u] = pending[u]
  BY DEF Start, EmbeddedInv, Types
<1>6. QueueInv'
  BY <1>3, <1>4, <1>5, OthersKept DEF QueueInv, EmbeddedInv
<1>7. WriterInv'
  BY <1>3, <1>5 DEF Start, EmbeddedInv, WriterInv
<1> QED BY <1>1, <1>6, <1>7 DEF EmbeddedInv

LEMMA ScriptInv ==
    ASSUME EmbeddedInv, NEW t \in Tx, Script(t)
    PROVE  EmbeddedInv'
<1>1. PICK k \in Resource : \/ Read(t, k)
                           \/ \E v \in Value \union {Absent} : Defer(t, k, v)
  BY DEF Script, Add, Update, Remove
<1>2. \A c \in {k} : <<c, db[c]>> \in Action
  BY RecordsApart DEF Action, EmbeddedInv, Types
<1>3. /\ phase[t] = "running" /\ UNCHANGED <<db, rev, phase, done, seen, events>>
      /\ reads' = [reads EXCEPT ![t] = @ \union {<<c, db[c]>> : c \in {k}}]
      /\ \/ pending' = pending
         \/ \E v \in Value \union {Absent} :
               pending' = [pending EXCEPT ![t] = Append(@, <<k, v>>)]
  BY <1>1 DEF Read, Defer, Observed
<1>4. /\ pending' \in [Tx -> Seq(Action)]
      /\ \A u \in Tx \ {t} : pending'[u] = pending[u]
      /\ \A i \in DOMAIN pending'[t] : pending'[t][i][1] \in Resource
  <2>1. \A i \in DOMAIN pending[t] : pending[t][i][1] \in Resource
    BY <1>3 DEF EmbeddedInv, QueueInv, QueueOf
  <2>2. CASE pending' = pending
    BY <2>1, <2>2 DEF EmbeddedInv, Types
  <2>3. ASSUME NEW v \in Value \union {Absent},
               pending' = [pending EXCEPT ![t] = Append(@, <<k, v>>)]
        PROVE  <1>4
    <3>1. <<k, v>> \in Action /\ pending[t] \in Seq(Action)
      BY RecordsApart DEF Action, DbValue, EmbeddedInv, Types
    <3>2. pending'[t] = Append(pending[t], <<k, v>>)
      BY <2>3 DEF EmbeddedInv, Types
    <3>3. \A i \in DOMAIN pending'[t] : pending'[t][i][1] \in Resource
      BY <2>1, <3>1, <3>2
    <3>4. pending' \in [Tx -> Seq(Action)] /\ \A u \in Tx \ {t} : pending'[u] = pending[u]
      BY <2>3, <3>1, <3>2 DEF EmbeddedInv, Types
    <3> QED BY <3>3, <3>4
  <2> QED BY <1>3, <2>2, <2>3
<1>5. Types'
  <2>1. reads[t] \union {<<c, db[c]>> : c \in {k}} \in SUBSET Action
    BY <1>2 DEF EmbeddedInv, Types
  <2>2. reads' \in [Tx -> SUBSET Action]
    BY <1>3, <2>1 DEF EmbeddedInv, Types
  <2> QED BY <1>3, <1>4, <2>2 DEF EmbeddedInv, Types
<1>6. QueueOf(t)' /\ RecordsOf(t)'
  <2>1. ~ Prepared(t) /\ done[t] = 0 /\ db[TxRecord(t)] = Absent /\ db[HistorianRecord(t)] = Absent
    BY <1>3, Unprepared DEF EmbeddedInv
  <2>2. Len(pending'[t]) \in Nat /\ done'[t] = 0 /\ phase'[t] = "running"
    BY <1>3, <1>4, <2>1
  <2>3. ~ Prepared(t)'
    BY <2>2 DEF Prepared
  <2>4. RecordsOf(t)'
    BY <1>3, <2>1, <2>3 DEF RecordsOf, TxRecord, HistorianRecord
  <2>5. /\ done'[t] <= Len(pending'[t])
        /\ phase'[t] # "putting" /\ phase'[t] # "succeeded"
    BY <2>2
  <2>6. QueueOf(t)'
    BY <1>4, <2>2, <2>3, <2>5 DEF QueueOf
  <2> QED BY <2>4, <2>6
<1>7. QueueInv'
  BY <1>3, <1>4, <1>6, OthersKept DEF QueueInv, EmbeddedInv
<1>8. WriterInv'
  BY <1>3 DEF EmbeddedInv, WriterInv
<1> QED BY <1>5, <1>7, <1>8 DEF EmbeddedInv

\* A sequence with two elements behind it.
LEMMA TwoBehind ==
    ASSUME NEW S, NEW p \in Seq(S), NEW a \in S, NEW b \in S
    PROVE  /\ p \o <<a, b>> \in Seq(S) /\ Len(p \o <<a, b>>) = Len(p) + 2
           /\ \A i \in 1 .. Len(p) : (p \o <<a, b>>)[i] = p[i]
           /\ (p \o <<a, b>>)[Len(p) + 1] = a /\ (p \o <<a, b>>)[Len(p) + 2] = b
           /\ Len(p) \in Nat
<1>1. <<a, b>> \in Seq(S) /\ Len(<<a, b>>) = 2 /\ <<a, b>>[1] = a /\ <<a, b>>[2] = b
  OBVIOUS
<1> QED BY <1>1, ConcatProperties

LEMMA RecordStepInv ==
    ASSUME EmbeddedInv, NEW t \in Tx, Record(t)
    PROVE  EmbeddedInv'
<1> DEFINE p == pending[t]
           q == p \o <<<<TxRecord(t), t>>, <<HistorianRecord(t), t>>>>
<1>1. <<TxRecord(t), t>> \in Action /\ <<HistorianRecord(t), t>> \in Action
      /\ \A c \in {TxRecord(t), HistorianRecord(t)} : <<c, db[c]>> \in Action
  BY RecordsApart DEF Action, DbValue, EmbeddedInv, Types
<1>2. p \in Seq(Action)
  BY DEF EmbeddedInv, Types
<1>3. /\ phase[t] = "running" /\ phase' = [phase EXCEPT ![t] = "preparing"]
      /\ pending' = [pending EXCEPT ![t] = q]
      /\ reads' = [reads EXCEPT ![t] = @ \union {<<c, db[c]>> : c \in {TxRecord(t), HistorianRecord(t)}}]
      /\ UNCHANGED <<db, rev, done, seen, events>>
  BY DEF Record, Observed
<1>4. /\ q \in Seq(Action) /\ Len(q) = Len(p) + 2 /\ Len(p) \in Nat
      /\ \A i \in 1 .. Len(p) : q[i] = p[i]
      /\ q[Len(p) + 1] = <<TxRecord(t), t>> /\ q[Len(p) + 2] = <<HistorianRecord(t), t>>
  BY <1>1, <1>2, TwoBehind
<1> HIDE DEF p, q
<1>5. Types'
  BY <1>1, <1>3, <1>4 DEF EmbeddedInv, Types
<1>6. /\ phase'[t] = "preparing" /\ pending'[t] = q
      /\ \A u \in Tx \ {t} : phase'[u] = phase[u] /\ pending'[u] = pending[u]
  BY <1>3 DEF EmbeddedInv, Types
<1>7. ~ Prepared(t) /\ done[t] = 0 /\ db[TxRecord(t)] = Absent /\ db[HistorianRecord(t)] = Absent
      /\ \A i \in 1 .. Len(p) : p[i][1] \in Resource
  BY <1>2, <1>3, Unprepared DEF EmbeddedInv, QueueInv, QueueOf, p
<1>9. Recorded(t)'
  <2>1. Len(q) >= 2 /\ Len(q) - 2 = Len(p) /\ Len(q) - 1 = Len(p) + 1
    BY <1>4
  <2>2. \A i \in 1 .. Len(q) - 2 : q[i][1] \in Resource
    BY <1>4, <1>7, <2>1
  <2>3. q[Len(q) - 1] = <<TxRecord(t), t>> /\ q[Len(q)] = <<HistorianRecord(t), t>>
    BY <1>4, <2>1
  <2>4. pending'[t] = q
    BY <1>6
  <2> QED BY <2>1, <2>2, <2>3, <2>4 DEF Recorded, TxRecord, HistorianRecord
<1>10. QueueOf(t)' /\ RecordsOf(t)'
  BY <1>3, <1>4, <1>6, <1>7, <1>9 DEF QueueOf, RecordsOf, TxRecord, HistorianRecord
<1>11. QueueInv'
  BY <1>3, <1>6, <1>10, OthersKept DEF QueueInv, EmbeddedInv
<1>12. WriterInv'
  BY <1>3, <1>6 DEF EmbeddedInv, WriterInv
<1> QED BY <1>5, <1>11, <1>12 DEF EmbeddedInv

\* A phase that leaves the preparation, or what it is at, as it is.
LEMMA PhaseInv ==
    ASSUME EmbeddedInv, NEW t \in Tx,
           Throw(t) \/ PrepareGet(t) \/ PrepareConflict(t) \/ Commit(t)
    PROVE  EmbeddedInv'
<1>1. /\ UNCHANGED <<db, rev, pending, done>>
      /\ \A u \in Tx \ {t} : phase'[u] = phase[u]
      /\ phase' \in [Tx -> {"new", "running", "preparing", "putting", "succeeded", "failed"}]
  BY DEF Throw, PrepareGet, PrepareConflict, Commit, EmbeddedInv, Types
<1>2. QueueOf(t) /\ RecordsOf(t) /\ done[t] \in Nat /\ Len(pending[t]) \in Nat
  BY DEF EmbeddedInv, QueueInv, Types
<1>3. CASE Throw(t)
  <2>1. phase[t] = "running" /\ phase'[t] = "failed" /\ UNCHANGED <<seen, reads, events>>
    BY <1>3 DEF Throw, EmbeddedInv, Types
  <2>2. ~ Prepared(t) /\ done[t] = 0
    BY <2>1, Unprepared DEF EmbeddedInv
  <2>3. ~ Prepared(t)'
    BY <1>1, <2>1, <2>2 DEF Prepared
  <2>4. QueueOf(t)' /\ RecordsOf(t)'
    BY <1>1, <1>2, <2>1, <2>2, <2>3 DEF QueueOf, RecordsOf, TxRecord, HistorianRecord
  <2> QED BY <1>1, <2>1, <2>4, OthersKept DEF EmbeddedInv, Types, QueueInv, WriterInv
<1>4. CASE PrepareGet(t)
  <2>1. /\ phase[t] = "preparing" /\ phase'[t] = "putting" /\ done[t] < Len(pending[t])
        /\ UNCHANGED <<reads, events>>
        /\ seen' = [seen EXCEPT ![t] = CurrentRev(Doc(t))]
    BY <1>4 DEF PrepareGet, EmbeddedInv, Types
  <2>2. CurrentRev(Doc(t)) \in Revision \union {NoRev}
    <3>1. Current(t) \in Action
      BY <1>2, <2>1 DEF Current, EmbeddedInv, Types
    <3> QED BY <3>1 DEF CurrentRev, Doc, Action, EmbeddedInv, Types
  <2>3. Prepared(t) /\ Prepared(t)' /\ Recorded(t)' = Recorded(t)
    BY <1>1, <2>1 DEF Prepared, Recorded, TxRecord, HistorianRecord
  <2>4. QueueOf(t)' /\ RecordsOf(t)'
    BY <1>1, <1>2, <2>1, <2>3 DEF QueueOf, RecordsOf, TxRecord, HistorianRecord
  <2>5. Types'
    BY <1>1, <2>1, <2>2 DEF EmbeddedInv, Types
  <2>6. QueueInv'
    BY <1>1, <2>4, OthersKept DEF EmbeddedInv, QueueInv
  <2>7. WriterInv'
    BY <1>1, <2>1 DEF EmbeddedInv, Types, WriterInv
  <2> QED BY <2>5, <2>6, <2>7 DEF EmbeddedInv
<1>5. CASE PrepareConflict(t)
  <2>1. phase[t] = "putting" /\ phase'[t] = "failed" /\ UNCHANGED <<seen, reads, events>>
    BY <1>5 DEF PrepareConflict, EmbeddedInv, Types
  <2>2. Prepared(t) /\ Recorded(t) /\ done[t] < Len(pending[t]) /\ Len(pending[t]) >= 2
    BY <1>2, <2>1 DEF Prepared, QueueOf, Recorded
  <2>3. Prepared(t)' => done[t] > 0
    BY <1>1, <2>1 DEF Prepared
  <2>4. done[t] > 0 => Prepared(t)'
    BY <1>1 DEF Prepared
  <2>5. Recorded(t)'
    BY <1>1, <2>2 DEF Recorded, TxRecord, HistorianRecord
  <2>6. QueueOf(t)'
    BY <1>1, <1>2, <2>1, <2>5 DEF QueueOf
  <2>7. RecordsOf(t)'
    BY <1>1, <1>2, <2>2, <2>3, <2>4 DEF RecordsOf, TxRecord, HistorianRecord
  <2> QED BY <1>1, <2>1, <2>6, <2>7, OthersKept
             DEF EmbeddedInv, Types, QueueInv, WriterInv
<1>6. CASE Commit(t)
  <2>1. /\ phase[t] = "preparing" /\ phase'[t] = "succeeded" /\ done[t] = Len(pending[t])
        /\ events' = events \union {t} /\ UNCHANGED <<seen, reads>>
    BY <1>6 DEF Commit, EmbeddedInv, Types
  <2>2. Prepared(t) /\ Prepared(t)' /\ Recorded(t)' = Recorded(t)
    BY <1>1, <2>1 DEF Prepared, Recorded, TxRecord, HistorianRecord
  <2>3. QueueOf(t)' /\ RecordsOf(t)'
    BY <1>1, <1>2, <2>1, <2>2 DEF QueueOf, RecordsOf, TxRecord, HistorianRecord
  <2> QED BY <1>1, <2>1, <2>3, OthersKept DEF EmbeddedInv, Types, QueueInv, WriterInv
<1> QED BY <1>3, <1>4, <1>5, <1>6

\* Where the next action of a queue is: among the changes of the processor functions, or
\* one of the two records.
LEMMA NextAction ==
    ASSUME EmbeddedInv, NEW t \in Tx, phase[t] = "putting"
    PROVE  /\ Current(t) \in Action /\ Doc(t) \in Key
           /\ done[t] \in Nat /\ Len(pending[t]) \in Nat /\ done[t] < Len(pending[t])
           /\ Recorded(t) /\ Len(pending[t]) >= 2
           /\ done[t] + 2 < Len(pending[t]) => Doc(t) \in Resource
           /\ done[t] + 2 = Len(pending[t]) => Current(t) = <<TxRecord(t), t>>
           /\ done[t] + 1 = Len(pending[t]) => Current(t) = <<HistorianRecord(t), t>>
<1>1. QueueOf(t) /\ Prepared(t) /\ done[t] \in Nat /\ pending[t] \in Seq(Action)
  BY DEF EmbeddedInv, QueueInv, Types, Prepared
<1>2. Recorded(t) /\ done[t] < Len(pending[t]) /\ Len(pending[t]) >= 2
  BY <1>1 DEF QueueOf, Recorded
<1>3. Current(t) \in Action /\ Doc(t) \in Key
  BY <1>1, <1>2 DEF Current, Doc, Action
<1>4. done[t] + 2 < Len(pending[t]) => done[t] + 1 \in 1 .. Len(pending[t]) - 2
  BY <1>1, <1>2
<1>5. /\ done[t] + 2 = Len(pending[t]) => done[t] + 1 = Len(pending[t]) - 1
      /\ Len(pending[t]) \in Nat
  BY <1>1, <1>2
<1> QED BY <1>1, <1>2, <1>3, <1>4, <1>5 DEF Recorded, Current, Doc

\* One action is worked off.
LEMMA PutInv ==
    ASSUME EmbeddedInv, NEW t \in Tx, PreparePut(t)
    PROVE  EmbeddedInv'
<1>1. /\ phase[t] = "putting" /\ phase' = [phase EXCEPT ![t] = "preparing"]
      /\ done' = [done EXCEPT ![t] = @ + 1]
      /\ UNCHANGED <<pending, seen, reads, events>>
      /\ \/ /\ db' = [db EXCEPT ![Doc(t)] = Current(t)[2]]
            /\ rev' = [rev EXCEPT ![Doc(t)] = <<t, done[t] + 1>>]
         \/ Current(t)[2] = Absent /\ UNCHANGED <<db, rev>>
  BY DEF PreparePut, NothingToRemove
<1>2. /\ Current(t) \in Action /\ Doc(t) \in Key
      /\ done[t] \in Nat /\ Len(pending[t]) \in Nat /\ done[t] < Len(pending[t])
      /\ Recorded(t) /\ Len(pending[t]) >= 2
      /\ done[t] + 2 < Len(pending[t]) => Doc(t) \in Resource
      /\ done[t] + 2 = Len(pending[t]) => Current(t) = <<TxRecord(t), t>>
      /\ done[t] + 1 = Len(pending[t]) => Current(t) = <<HistorianRecord(t), t>>
  BY <1>1, NextAction
<1>3. phase'[t] = "preparing" /\ done'[t] = done[t] + 1
      /\ \A u \in Tx \ {t} : phase'[u] = phase[u] /\ done'[u] = done[u]
  BY <1>1 DEF EmbeddedInv, Types
<1>4. Types'
  <2>1. Current(t)[2] \in DbValue /\ <<t, done[t] + 1>> \in Revision
    BY <1>2 DEF Action, Revision
  <2>2. db' \in [Key -> DbValue] /\ rev' \in [Key -> Revision]
    BY <1>1, <1>2, <2>1 DEF EmbeddedInv, Types
  <2>3. done' \in [Tx -> Nat]
    BY <1>1, <1>2 DEF EmbeddedInv, Types
  <2> QED BY <1>1, <2>2, <2>3 DEF EmbeddedInv, Types
<1>5. t # Absent /\ DOMAIN db = Key
  BY ValueAssumption DEF EmbeddedInv, Types
<1>6. QueueOf(t) /\ RecordsOf(t) /\ Prepared(t)
  BY <1>1 DEF EmbeddedInv, QueueInv, Prepared
<1>7. \A u \in Tx \ {t} : /\ db'[TxRecord(u)] = db[TxRecord(u)]
                          /\ db'[HistorianRecord(u)] = db[HistorianRecord(u)]
  <2> TAKE u \in Tx \ {t}
  <2>1. Doc(t) # TxRecord(u) /\ Doc(t) # HistorianRecord(u)
    <3>1. CASE done[t] + 2 < Len(pending[t])
      BY <1>2, <3>1, RecordsApart
    <3>2. CASE done[t] + 2 = Len(pending[t])
      BY <1>2, <3>2, RecordsApart DEF Doc
    <3>3. CASE done[t] + 1 = Len(pending[t])
      BY <1>2, <3>3, RecordsApart DEF Doc
    <3> QED BY <1>2, <3>1, <3>2, <3>3
  <2> QED BY <1>1, <1>5, <2>1, RecordsApart
<1>8. Prepared(t)' /\ Recorded(t)'
  BY <1>1, <1>2, <1>3 DEF Prepared, Recorded, TxRecord, HistorianRecord
<1>9. QueueOf(t)'
  BY <1>1, <1>2, <1>3, <1>8 DEF QueueOf
<1>10. /\ db'[TxRecord(t)] # Absent <=> done[t] + 2 >= Len(pending[t])
       /\ db'[HistorianRecord(t)] # Absent <=> done[t] + 1 = Len(pending[t])
  <2>1. CASE done[t] + 2 < Len(pending[t])
    <3>1. db'[TxRecord(t)] = db[TxRecord(t)] /\ db'[HistorianRecord(t)] = db[HistorianRecord(t)]
      BY <1>1, <1>2, <1>5, <2>1, RecordsApart
    <3> QED BY <1>2, <1>6, <2>1, <3>1 DEF RecordsOf
  <2>2. CASE done[t] + 2 = Len(pending[t])
    <3>1. Doc(t) = TxRecord(t) /\ Current(t)[2] = t
      BY <1>2, <2>2 DEF Doc
    <3>2. db'[TxRecord(t)] = t /\ db'[HistorianRecord(t)] = db[HistorianRecord(t)]
      BY <1>1, <1>5, <3>1, RecordsApart
    <3> QED BY <1>2, <1>5, <1>6, <2>2, <3>2 DEF RecordsOf
  <2>3. CASE done[t] + 1 = Len(pending[t])
    <3>1. Doc(t) = HistorianRecord(t) /\ Current(t)[2] = t
      BY <1>2, <2>3 DEF Doc
    <3>2. db'[HistorianRecord(t)] = t /\ db'[TxRecord(t)] = db[TxRecord(t)]
      BY <1>1, <1>5, <3>1, RecordsApart
    <3> QED BY <1>2, <1>5, <1>6, <2>3, <3>2 DEF RecordsOf
  <2> QED BY <1>2, <2>1, <2>2, <2>3
<1>11. RecordsOf(t)'
  <2>1. /\ done[t] + 2 >= Len(pending[t]) <=> done'[t] + 1 >= Len(pending'[t])
        /\ done[t] + 1 = Len(pending[t]) <=> done'[t] = Len(pending'[t])
    BY <1>1, <1>2, <1>3
  <2> QED BY <1>8, <1>10, <2>1 DEF RecordsOf, TxRecord, HistorianRecord
<1>12. QueueInv'
  BY <1>1, <1>3, <1>7, <1>9, <1>11, OthersKept DEF EmbeddedInv, QueueInv
<1>13. WriterInv'
  <2>1. \A k \in Key : rev'[k] = rev[k] \/ rev'[k] = <<t, done[t] + 1>>
    BY <1>1, <1>2 DEF EmbeddedInv, Types
  <2>2. done'[t] > 0 /\ \A u \in Tx : done[u] > 0 => done'[u] > 0
    BY <1>2, <1>3
  <2>3. \A u \in events : phase'[u] = phase[u]
    BY <1>1, <1>3 DEF EmbeddedInv, WriterInv, Types
  <2>4. \A k \in Key, u \in Tx : rev'[k][1] = u => done'[u] > 0
    BY <2>1, <2>2 DEF EmbeddedInv, WriterInv
  <2> QED BY <1>1, <2>3, <2>4 DEF EmbeddedInv, WriterInv
<1> QED BY <1>4, <1>12, <1>13 DEF EmbeddedInv

LEMMA EmbeddedNext == EmbeddedInv /\ [Next]_vars => EmbeddedInv'
<1> SUFFICES ASSUME EmbeddedInv, [Next]_vars PROVE EmbeddedInv'
  OBVIOUS
<1>1. CASE UNCHANGED vars
  <2>1. UNCHANGED <<db, rev, phase, pending, done, seen, reads, events>>
    BY <1>1 DEF vars
  <2>2. QueueInv'
    BY <2>1, OthersKept DEF EmbeddedInv, QueueInv
  <2> QED BY <2>1, <2>2 DEF EmbeddedInv, Types, WriterInv
<1> QED BY <1>1, StartInv, ScriptInv, RecordStepInv, PhaseInv, PutInv DEF Next, Prepare

\* For every invocation: where it is in its queue, and what of its records is there.
THEOREM EmbeddedInvariant == Spec => []EmbeddedInv
BY EmbeddedInit, EmbeddedNext, PTL DEF Spec

-----------------------------------------------------------------------------
\* A historian record is the last word of its transaction, whoever else writes.
THEOREM EmbeddedHistorianComplete == Spec => []HistorianComplete
<1>1. EmbeddedInv => HistorianComplete
  <2> SUFFICES ASSUME EmbeddedInv, NEW t \in Tx, db[HistorianRecord(t)] # Absent
               PROVE  done[t] = Len(pending[t]) /\ db[TxRecord(t)] # Absent
    BY DEF HistorianComplete
  <2>1. RecordsOf(t) /\ done[t] \in Nat
    BY DEF EmbeddedInv, QueueInv, Types
  <2> QED BY <2>1 DEF RecordsOf
<1> QED BY <1>1, EmbeddedInvariant, PTL

\* Clients hear of no transaction that is not in the historian.
THEOREM EmbeddedEventsRecorded == Spec => []EventsRecorded
<1>1. EmbeddedInv => EventsRecorded
  BY
     DEF EmbeddedInv, Types, QueueInv, QueueOf, RecordsOf, WriterInv, EventsRecorded,
         Prepared
<1> QED BY <1>1, EmbeddedInvariant, PTL

\* An error of a processor function leaves no document that it has written.
THEOREM EmbeddedThrowLeavesNothing == Spec => []ThrowLeavesNothing
<1>1. EmbeddedInv => ThrowLeavesNothing
  BY DEF EmbeddedInv, WriterInv, ThrowLeavesNothing, WrittenBy
<1> QED BY <1>1, EmbeddedInvariant, PTL

-----------------------------------------------------------------------------
\* A set of numbers that is bounded has a largest element: the smallest distance to
\* the bound is the one of it.
LEMMA Largest ==
    ASSUME NEW n \in Nat, NEW I, I \subseteq 0 .. n, I # {}
    PROVE  \E i \in I : \A j \in I : j <= i
<1> DEFINE R == OpToRel(<, Nat)
           T == {n - i : i \in I}
<1>1. IsWellFoundedOn(R, Nat)
  BY NatLessThanWellFounded
<1>2. \A x, y \in Nat : x < y => <<x, y>> \in R
  BY DEF OpToRel
<1>3. T \subseteq Nat /\ T # {}
  <2>1. \A i \in I : n - i \in Nat
    OBVIOUS
  <2> QED BY <2>1
<1> HIDE DEF R
<1>4. PICK x \in T : \A y \in T : ~ (<<y, x>> \in R)
  BY <1>1, <1>3, WFMin
<1>5. \A y \in T : ~ (y < x)
  BY <1>2, <1>3, <1>4
<1>6. PICK i \in I : x = n - i
  OBVIOUS
<1>7. \A j \in I : ~ (n - j < n - i)
  BY <1>5, <1>6
<1> QED BY <1>7

\* The effect of a sequence on a document is that of the last action on it, ...
Last(s, k, i) ==
    i \in DOMAIN s /\ s[i][1] = k /\ \A j \in DOMAIN s : s[j][1] = k => j <= i

LEMMA EffectLast ==
    ASSUME NEW S, NEW s \in Seq(S), NEW k, NEW i, Last(s, k, i)
    PROVE  k \in DOMAIN Effect(s) /\ Effect(s)[k] = s[i][2]
<1> DEFINE last == CHOOSE h \in DOMAIN s : s[h][1] = k /\ \A j \in DOMAIN s : s[j][1] = k => j <= h
<1>1. i \in DOMAIN s /\ s[i][1] = k /\ \A j \in DOMAIN s : s[j][1] = k => j <= i
  BY DEF Last
<1>2. last \in DOMAIN s /\ s[last][1] = k /\ \A j \in DOMAIN s : s[j][1] = k => j <= last
  BY <1>1
<1>3. DOMAIN s \subseteq Nat
  OBVIOUS
<1>4. last = i
  BY <1>1, <1>2, <1>3
<1>5. k \in {s[h][1] : h \in DOMAIN s}
  BY <1>1
<1>6. DOMAIN Effect(s) = {s[h][1] : h \in DOMAIN s} /\ Effect(s)[k] = s[last][2]
  BY <1>5 DEF Effect
<1> QED BY <1>4, <1>5, <1>6

\* ... which there is.
LEMMA LastExists ==
    ASSUME NEW S, NEW s \in Seq(S), NEW k \in DOMAIN Effect(s)
    PROVE  \E i : Last(s, k, i)
<1> DEFINE I == {i \in DOMAIN s : s[i][1] = k}
<1>1. DOMAIN Effect(s) = {s[h][1] : h \in DOMAIN s}
  BY DEF Effect
<1>2. I # {} /\ I \subseteq 0 .. Len(s) /\ Len(s) \in Nat
  BY <1>1
<1>3. \E i \in I : \A j \in I : j <= i
  BY <1>2, Largest
<1> QED BY <1>3 DEF Last

\* The world with the effect of the actions of p from the d-th on: to work off one more
\* does not change it.
Ahead(p, d, base) == Atomic!Overlay(Effect(SubSeq(p, d + 1, Len(p))), base)

LEMMA AheadStep ==
    ASSUME NEW p \in Seq(Action), NEW d \in Nat, d < Len(p), NEW base \in [Key -> DbValue]
    PROVE  Ahead(p, d, base) = Ahead(p, d + 1, [base EXCEPT ![p[d + 1][1]] = p[d + 1][2]])
<1> DEFINE a == p[d + 1]
           s == SubSeq(p, d + 1, Len(p))
           r == SubSeq(p, d + 1 + 1, Len(p))
           next == [base EXCEPT ![a[1]] = a[2]]
<1>1. d + 1 \in 1 .. Len(p) /\ Len(p) \in Nat /\ a \in Action
  OBVIOUS
<1>2. \A i \in d + 1 .. Len(p) : p[i] \in Action
  OBVIOUS
<1>3. /\ s \in Seq(Action) /\ Len(s) = Len(p) - d
      /\ \A i \in 1 .. Len(p) - d : s[i] = p[d + i]
  <2>1. /\ s \in Seq(Action)
        /\ Len(s) = IF d + 1 <= Len(p) THEN Len(p) - (d + 1) + 1 ELSE 0
        /\ \A i \in 1 .. Len(p) - (d + 1) + 1 : s[i] = p[d + 1 + i - 1]
    <3>1. d + 1 \in Int /\ Len(p) \in Int
      BY <1>1
    <3> QED BY <1>2, <3>1, SubSeqProperties
  <2>2. \A i \in 1 .. Len(p) - d : d + 1 + i - 1 = d + i
    BY <1>1
  <2> QED BY <1>1, <2>1, <2>2
<1>4. /\ r \in Seq(Action) /\ Len(r) = Len(p) - d - 1
      /\ \A i \in 1 .. Len(p) - d - 1 : r[i] = p[d + 1 + i]
  <2>1. /\ r \in Seq(Action)
        /\ Len(r) = IF d + 1 + 1 <= Len(p) THEN Len(p) - (d + 1 + 1) + 1 ELSE 0
        /\ \A i \in 1 .. Len(p) - (d + 1 + 1) + 1 : r[i] = p[d + 1 + 1 + i - 1]
    <3>1. d + 1 + 1 \in Int /\ Len(p) \in Int /\ \A i \in d + 1 + 1 .. Len(p) : p[i] \in Action
      BY <1>1
    <3> QED BY <3>1, SubSeqProperties
  <2>2. \A i \in 1 .. Len(p) - d - 1 : d + 1 + 1 + i - 1 = d + 1 + i
    BY <1>1
  <2> QED BY <1>1, <2>1, <2>2
<1> HIDE DEF s, r
<1>5. /\ DOMAIN s = 1 .. Len(s) /\ DOMAIN r = 1 .. Len(r) /\ Len(r) \in Nat /\ Len(s) = Len(r) + 1
      /\ s[1] = a
      /\ \A i \in DOMAIN r : i + 1 \in DOMAIN s /\ s[i + 1] = r[i]
      /\ \A j \in DOMAIN s : j = 1 \/ (j - 1 \in DOMAIN r /\ s[j] = r[j - 1])
  <2>1. /\ DOMAIN s = 1 .. Len(s) /\ DOMAIN r = 1 .. Len(r)
        /\ Len(r) \in Nat /\ Len(s) = Len(r) + 1
    BY <1>1, <1>3, <1>4
  <2>2. s[1] = a
    BY <1>1, <1>3
  <2>3. ASSUME NEW i \in DOMAIN r PROVE i + 1 \in DOMAIN s /\ s[i + 1] = r[i]
    <3>1. i \in 1 .. Len(p) - d - 1 /\ i + 1 \in 1 .. Len(p) - d /\ d + (i + 1) = d + 1 + i
      BY <1>1, <1>4, <2>1
    <3> QED BY <1>3, <1>4, <2>1, <3>1
  <2>4. ASSUME NEW j \in DOMAIN s, j # 1 PROVE j - 1 \in DOMAIN r /\ s[j] = r[j - 1]
    <3>1. j - 1 \in 1 .. Len(r) /\ (j - 1) + 1 = j
      BY <2>1, <2>4
    <3> QED BY <2>1, <2>3, <3>1
  <2> QED BY <2>1, <2>2, <2>3, <2>4
<1>6. a[1] \in Key /\ next \in [Key -> DbValue]
  BY <1>1 DEF Action
<1>7. ASSUME NEW k \in Key
      PROVE  (IF k \in DOMAIN Effect(s) THEN Effect(s)[k] ELSE base[k])
             = (IF k \in DOMAIN Effect(r) THEN Effect(r)[k] ELSE next[k])
  <2>1. CASE k \in DOMAIN Effect(r)
    <3>1. PICK i : Last(r, k, i)
      BY <1>4, <2>1, LastExists
    <3>2. Last(s, k, i + 1)
      <4>1. i \in DOMAIN r /\ r[i][1] = k /\ \A j \in DOMAIN r : r[j][1] = k => j <= i
        BY <3>1 DEF Last
      <4>2. i + 1 \in DOMAIN s /\ s[i + 1][1] = k
        BY <1>5, <4>1
      <4>3. ASSUME NEW j \in DOMAIN s, s[j][1] = k PROVE j <= i + 1
        BY <1>5, <4>1, <4>3
      <4> QED BY <4>2, <4>3 DEF Last
    <3>3. Effect(r)[k] = r[i][2] /\ k \in DOMAIN Effect(s) /\ Effect(s)[k] = s[i + 1][2]
      BY <1>3, <1>4, <3>1, <3>2, EffectLast
    <3>4. s[i + 1] = r[i]
      BY <1>5, <3>1 DEF Last
    <3> QED BY <2>1, <3>3, <3>4
  <2>2. CASE k \notin DOMAIN Effect(r) /\ k = a[1]
    <3>1. \A i \in DOMAIN r : r[i][1] # k
      BY <2>2 DEF Effect
    <3>2. Last(s, k, 1)
      BY <1>5, <2>2, <3>1 DEF Last
    <3>3. k \in DOMAIN Effect(s) /\ Effect(s)[k] = a[2]
      BY <1>3, <1>5, <3>2, EffectLast
    <3> QED BY <1>6, <2>2, <3>3
  <2>3. CASE k \notin DOMAIN Effect(r) /\ k # a[1]
    <3>1. \A i \in DOMAIN r : r[i][1] # k
      BY <2>3 DEF Effect
    <3>2. \A j \in DOMAIN s : s[j][1] # k
      BY <1>5, <2>3, <3>1
    <3>3. k \notin DOMAIN Effect(s)
      BY <3>2 DEF Effect
    <3> QED BY <1>6, <2>3, <3>3
  <2> QED BY <2>1, <2>2, <2>3
<1> QED BY <1>7 DEF Ahead, Atomic!Overlay, s, r

-----------------------------------------------------------------------------
\* With one client at a time an invocation works on a database that nobody else
\* changes: what it has read stays true, and so does the revision it has got.
SerialInv ==
    /\ \A t, u \in Active : t = u
    /\ \A t \in Tx : phase[t] = "running" => \A r \in reads[t] : db[r[1]] = r[2]
    /\ \A t \in Tx : phase[t] = "new" => reads[t] = {}
    /\ \A t \in Tx : phase[t] = "putting" => seen[t] = CurrentRev(Doc(t))

LEMMA NobodyActive ==
    ASSUME clients = 1, SerialInv, NEW t \in Tx, Start(t)
    PROVE  Active = {}
<1> SUFFICES ASSUME NEW u \in Active PROVE FALSE
  OBVIOUS
<1>1. Active = {u}
  BY DEF SerialInv
<1>2. Cardinality(Active) = 1
  BY <1>1, FS_Singleton
<1> QED BY <1>2 DEF Start

\* A step of one invocation, while no other is at work.
LEMMA SerialStep ==
    ASSUME clients = 1, EmbeddedInv, SerialInv, NEW t \in Tx,
           Start(t) \/ Script(t) \/ Record(t) \/ Throw(t) \/ Prepare(t) \/ Commit(t)
    PROVE  /\ \A u \in Tx \ {t} : /\ u \notin Active
                                   /\ phase'[u] = phase[u]
                                   /\ reads'[u] = reads[u] /\ pending'[u] = pending[u]
           /\ SerialInv'
<1>1. \A u \in Tx \ {t} : u \notin Active
  <2>1. CASE Start(t)
    BY <2>1, NobodyActive
  <2>2. CASE t \in Active
    BY <2>2 DEF SerialInv, Active
  <2> QED BY <2>1, <2>2
          DEF Script, Add, Update, Remove, Read, Defer, Record, Throw, Prepare,
              PrepareGet,
              PreparePut, PrepareConflict, Commit, Active
<1>2. \A u \in Tx \ {t} : /\ phase'[u] = phase[u]
                          /\ reads'[u] = reads[u] /\ pending'[u] = pending[u]
  BY
     DEF Start, Script, Add, Update, Remove, Read, Defer, Observed, Record, Throw,
         Prepare,
         PrepareGet, PreparePut, PrepareConflict, Commit, EmbeddedInv, Types
<1>3. \A u, v \in Active' : u = v
  <2>1. Active' \subseteq {t}
    BY <1>1, <1>2 DEF Active
  <2> QED BY <2>1
<1>4. \A u \in Tx \ {t} : phase'[u] \notin {"running", "putting"}
  BY <1>1, <1>2 DEF Active
<1>5. /\ phase'[t] = "running" => \A r \in reads'[t] : db'[r[1]] = r[2]
      /\ phase'[t] = "putting" => seen'[t] = CurrentRev(Doc(t))'
      /\ phase'[t] # "new"
  <2>1. CASE Start(t)
    <3>1. phase[t] = "new" /\ phase'[t] = "running" /\ reads' = reads
      BY <2>1 DEF Start, EmbeddedInv, Types
    <3> QED BY <3>1 DEF SerialInv
  <2>2. CASE Script(t)
    <3>1. \E k \in Resource :
             /\ phase[t] = "running" /\ UNCHANGED <<db, phase>>
             /\ reads' = [reads EXCEPT ![t] = @ \union {<<c, db[c]>> : c \in {k}}]
      BY <2>2 DEF Script, Add, Update, Remove, Read, Defer, Observed
    <3> QED BY <3>1 DEF SerialInv, EmbeddedInv, Types
  <2>3. CASE PrepareGet(t)
    <3>1. /\ phase'[t] = "putting" /\ seen'[t] = CurrentRev(Doc(t))
          /\ UNCHANGED <<db, rev, pending, done>>
      BY <2>3 DEF PrepareGet, EmbeddedInv, Types
    <3> QED BY <3>1 DEF CurrentRev, Doc, Current
  <2>4. CASE Record(t) \/ Throw(t) \/ PreparePut(t) \/ PrepareConflict(t) \/ Commit(t)
    <3>1. phase'[t] \in {"preparing", "failed", "succeeded"}
      BY <2>4 DEF Record, Throw, PreparePut, PrepareConflict, Commit, EmbeddedInv, Types
    <3> QED BY <3>1
  <2> QED BY <2>1, <2>2, <2>3, <2>4 DEF Prepare
<1>6. \A u \in Tx : phase'[u] = "new" => reads'[u] = {}
  BY <1>2, <1>5 DEF SerialInv
<1> QED BY <1>1, <1>2, <1>3, <1>4, <1>5, <1>6 DEF SerialInv

OneClient == clients = 1
WhileOne == OneClient => SerialInv

LEMMA OneClientKept ==
    ASSUME [Next]_vars
    PROVE  OneClient' <=> OneClient
BY DEF OneClient, Next, vars, Start, Script, Add, Update, Remove, Read, Defer, Record, Throw,
       Prepare, PrepareGet, PreparePut, PrepareConflict, Commit

LEMMA SerialInvariant == Spec => [](EmbeddedInv /\ WhileOne)
<1>1. Init => WhileOne
  BY DEF Init, WhileOne, SerialInv, Active
<1>2. EmbeddedInv /\ WhileOne /\ [Next]_vars => WhileOne'
  <2> SUFFICES ASSUME EmbeddedInv, SerialInv, OneClient, [Next]_vars PROVE SerialInv'
    BY OneClientKept DEF WhileOne
  <2>1. ASSUME UNCHANGED vars PROVE SerialInv'
    BY <2>1 DEF vars, SerialInv, Active, CurrentRev, Doc, Current
  <2> QED BY <2>1, SerialStep DEF Next, OneClient
<1> QED BY <1>1, <1>2, EmbeddedInvariant, PTL DEF Spec

\* The abstract world is the database, or what it will be when the prepare is through.
LEMMA WorldIs ==
    ASSUME Types
    PROVE  /\ Preparing = {} => world = db
           /\ \A t \in Tx : Preparing = {t} => world = Ahead(pending[t], done[t], db)
<1>1. DOMAIN <<>> = {}
  OBVIOUS
<1>2. Preparing = {} => world = db
  BY <1>1 DEF Types, world, Rest
<1>3. ASSUME NEW t \in Tx, Preparing = {t} PROVE world = Ahead(pending[t], done[t], db)
  <2>1. (CHOOSE u \in Preparing : TRUE) = t
    BY <1>3
  <2>2. Rest = Effect(SubSeq(pending[t], done[t] + 1, Len(pending[t])))
    BY <1>3, <2>1 DEF Rest
  <2> QED BY <2>2 DEF world, Ahead, Atomic!Overlay
<1> QED BY <1>2, <1>3

LEMMA WorldIsNext ==
    ASSUME Types'
    PROVE  /\ Preparing' = {} => world' = db'
           /\ \A t \in Tx : Preparing' = {t} => world' = Ahead(pending'[t], done'[t], db')
<1>1. DOMAIN <<>> = {}
  OBVIOUS
<1>2. Preparing' = {} => world' = db'
  BY <1>1 DEF Types, world, Rest
<1>3. ASSUME NEW t \in Tx, Preparing' = {t} PROVE world' = Ahead(pending'[t], done'[t], db')
  <2>1. (CHOOSE u \in Preparing' : TRUE) = t
    BY <1>3
  <2>2. Rest' = Effect(SubSeq(pending'[t], done'[t] + 1, Len(pending'[t])))
    BY <1>3, <2>1 DEF Rest
  <2> QED BY <2>2 DEF world, Ahead, Atomic!Overlay
<1> QED BY <1>2, <1>3

LEMMA AheadAll ==
    ASSUME NEW p \in Seq(Action), NEW base \in [Key -> DbValue]
    PROVE  /\ Ahead(p, 0, base) = Atomic!Overlay(Effect(p), base)
           /\ Ahead(p, Len(p), base) = base
           /\ DOMAIN Effect(p) \subseteq Key
<1>1. SubSeq(p, 0 + 1, Len(p)) = p
  BY SubSeqFull
<1>2. SubSeq(p, Len(p) + 1, Len(p)) = <<>>
  <2>1. Len(p) \in Int /\ Len(p) + 1 \in Int /\ Len(p) < Len(p) + 1
    OBVIOUS
  <2> QED BY <2>1, SubSeqEmpty
<1>3. DOMAIN Effect(<<>>) = {}
  BY DEF Effect
<1>4. \A i \in DOMAIN p : p[i][1] \in Key
  BY DEF Action
<1>5. DOMAIN Effect(p) \subseteq Key
  BY <1>4 DEF Effect
<1>6. Ahead(p, Len(p), base) = base
  BY <1>2, <1>3 DEF Ahead, Atomic!Overlay
<1> QED BY <1>1, <1>5, <1>6 DEF Ahead

\* The initial states of the runtime are initial states of the abstraction.
LEMMA SerialInitAtomic == Init => Atomic!Init
<1> SUFFICES ASSUME Init PROVE Atomic!Init
  OBVIOUS
<1>1. outcome = [t \in Tx |-> Atomic!Open]
  BY DEF Init, outcome, Atomic!Open
<1>2. world = [k \in Key |-> world[k]]
  BY DEF world
<1> QED BY <1>1, <1>2 DEF Atomic!Init

\* A step of t changes the outcome of t at most.
LEMMA SerialOutcome ==
    ASSUME NEW t \in Tx,
           \A u \in Tx \ {t} : /\ phase'[u] = phase[u]
                               /\ reads'[u] = reads[u] /\ pending'[u] = pending[u]
    PROVE  /\ outcome' = [outcome EXCEPT ![t] = outcome'[t]]
           /\ outcome'[t] = outcome[t] => outcome' = outcome
<1>1. \A u \in Tx \ {t} : outcome'[u] = outcome[u]
  BY DEF outcome
<1>2. DOMAIN outcome = Tx /\ DOMAIN outcome' = Tx
      /\ outcome = [u \in Tx |-> outcome[u]] /\ outcome' = [u \in Tx |-> outcome'[u]]
  BY DEF outcome
<1> QED BY <1>1, <1>2

LEMMA OutcomeIs ==
    ASSUME NEW t \in Tx
    PROVE  /\ phase[t] \in {"new", "running"} => outcome[t] = Atomic!Open
           /\ phase'[t] \in {"new", "running"} => outcome'[t] = Atomic!Open
           /\ phase'[t] = "failed" => outcome'[t] = Atomic!Failed
           /\ phase'[t] \in {"preparing", "putting", "succeeded"} =>
                 outcome'[t] = [status |-> "committed", reads |-> reads'[t],
                                writes |-> Effect(pending'[t])]
           /\ phase[t] \in {"preparing", "putting", "succeeded"} =>
                 outcome[t] = [status |-> "committed", reads |-> reads[t],
                               writes |-> Effect(pending[t])]
BY DEF outcome, Atomic!Open, Atomic!Failed

\* Every step of an invocation is a commit, a failure or invisible.
LEMMA SerialAtomicStep ==
    ASSUME clients = 1, EmbeddedInv, EmbeddedInv', SerialInv, NEW t \in Tx,
           Start(t) \/ Script(t) \/ Record(t) \/ Throw(t) \/ Prepare(t) \/ Commit(t)
    PROVE  Atomic!Next \/ UNCHANGED <<world, outcome>>
<1>1. /\ \A u \in Tx \ {t} : /\ u \notin Active /\ phase'[u] = phase[u]
                             /\ reads'[u] = reads[u] /\ pending'[u] = pending[u]
      /\ outcome' = [outcome EXCEPT ![t] = outcome'[t]]
      /\ outcome'[t] = outcome[t] => outcome' = outcome
  BY SerialStep, SerialOutcome
<1>2. /\ Preparing = IF phase[t] \in {"preparing", "putting"} THEN {t} ELSE {}
      /\ Preparing' = IF phase'[t] \in {"preparing", "putting"} THEN {t} ELSE {}
  BY <1>1 DEF Preparing, Active
<1>3. /\ db \in [Key -> DbValue] /\ db' \in [Key -> DbValue]
      /\ pending[t] \in Seq(Action) /\ pending'[t] \in Seq(Action)
      /\ done[t] \in Nat /\ Types /\ Types'
  BY DEF EmbeddedInv, Types
<1>4. CASE Start(t) \/ Script(t) \/ Throw(t)
  <2>1. phase[t] \in {"new", "running"} /\ phase'[t] \in {"running", "failed"} /\ db' = db
    BY <1>3, <1>4 DEF Start, Script, Add, Update, Remove, Read, Defer, Throw, Types
  <2>2. world' = world
    BY <1>2, <1>3, <2>1, WorldIs, WorldIsNext
  <2>3. CASE phase'[t] = "running"
    BY <1>1, <2>1, <2>2, <2>3, OutcomeIs
  <2>4. CASE phase'[t] = "failed"
    BY <1>1, <2>1, <2>2, <2>4, OutcomeIs DEF Atomic!Next, Atomic!Fail
  <2> QED BY <2>1, <2>3, <2>4
<1>5. CASE Record(t)
  <2>1. /\ phase[t] = "running" /\ phase'[t] = "preparing" /\ UNCHANGED <<db, done>>
        /\ reads'[t] = reads[t] \union {<<c, db[c]>> : c \in {TxRecord(t), HistorianRecord(t)}}
    BY <1>3, <1>5 DEF Record, Observed, Types
  <2>2. world = db
    BY <1>2, <1>3, <2>1, WorldIs
  <2>3. done'[t] = 0
    BY <2>1, Unprepared DEF EmbeddedInv
  <2>4. world' = Atomic!Overlay(Effect(pending'[t]), world)
    BY <1>2, <1>3, <2>1, <2>2, <2>3, WorldIsNext, AheadAll
  <2>5. /\ outcome[t] = Atomic!Open
        /\ outcome'[t] = [status |-> "committed", reads |-> reads'[t],
                          writes |-> Effect(pending'[t])]
    BY <2>1, OutcomeIs
  <2>6. \A r \in reads'[t] : world[r[1]] = r[2]
    BY <2>1, <2>2 DEF SerialInv
  <2>7. DOMAIN Effect(pending'[t]) \subseteq Key
    BY <1>3, AheadAll
  <2>8. /\ outcome'[t].status = "committed" /\ outcome'[t].reads = reads'[t]
        /\ outcome'[t].writes = Effect(pending'[t])
    BY <2>5
  <2> QED BY <1>1, <2>4, <2>5, <2>6, <2>7, <2>8 DEF Atomic!Next, Atomic!Commit
<1>6. CASE PrepareGet(t)
  <2>1. /\ phase[t] = "preparing" /\ phase'[t] = "putting"
        /\ UNCHANGED <<db, pending, done, reads>>
    BY <1>3, <1>6 DEF PrepareGet, Types
  <2>2. outcome'[t] = outcome[t]
    BY <2>1, OutcomeIs
  <2>3. world' = world
    BY <1>2, <1>3, <2>1, WorldIs, WorldIsNext
  <2> QED BY <1>1, <2>2, <2>3
<1>7. CASE PreparePut(t)
  <2>1. /\ phase[t] = "putting" /\ phase'[t] = "preparing"
        /\ done'[t] = done[t] + 1 /\ UNCHANGED <<pending, reads>>
        /\ seen[t] = CurrentRev(Doc(t))
    BY <1>3, <1>7 DEF PreparePut, Types, SerialInv
  <2>2. done[t] < Len(pending[t]) /\ Current(t) \in Action /\ Doc(t) \in Key
    BY <2>1, NextAction
  <2>3. db' = [db EXCEPT ![Doc(t)] = Current(t)[2]]
    <3>1. CASE NothingToRemove(t)
      <4>1. Current(t)[2] = Absent /\ CurrentRev(Doc(t)) = NoRev /\ db' = db
        BY <1>7, <2>1, <3>1 DEF PreparePut, NothingToRemove
      <4>2. rev[Doc(t)] # NoRev
        <5>1. rev[Doc(t)] \in Revision
          BY <2>2 DEF EmbeddedInv, Types
        <5>2. PICK w \in Tx \union {Nobody}, n \in Nat : rev[Doc(t)] = <<w, n>>
          BY <5>1 DEF Revision
        <5>3. Len(<<w, n>>) = 2 /\ Len(<<>>) = 0
          OBVIOUS
        <5> QED BY <5>2, <5>3 DEF NoRev
      <4>3. db[Doc(t)] = Absent
        BY <4>1, <4>2 DEF CurrentRev
      <4> QED BY <1>3, <2>2, <4>1, <4>3
    <3>2. CASE ~ NothingToRemove(t)
      BY <1>7, <3>2 DEF PreparePut
    <3> QED BY <3>1, <3>2
  <2>4. Ahead(pending[t], done[t], db) = Ahead(pending[t], done[t] + 1, db')
    BY <1>3, <2>2, <2>3, AheadStep DEF Current, Doc
  <2>5. world' = world
    BY <1>2, <1>3, <2>1, <2>4, WorldIs, WorldIsNext
  <2>6. outcome'[t] = outcome[t]
    BY <2>1, OutcomeIs
  <2> QED BY <1>1, <2>5, <2>6
<1>8. CASE PrepareConflict(t)
  BY <1>8 DEF PrepareConflict, SerialInv
<1>9. CASE Commit(t)
  <2>1. /\ phase[t] = "preparing" /\ phase'[t] = "succeeded" /\ done[t] = Len(pending[t])
        /\ UNCHANGED <<db, pending, reads>>
    BY <1>3, <1>9 DEF Commit, Types
  <2>2. world = db /\ world' = db
    BY <1>2, <1>3, <2>1, WorldIs, WorldIsNext, AheadAll
  <2>3. outcome'[t] = outcome[t]
    BY <2>1, OutcomeIs
  <2> QED BY <1>1, <2>2, <2>3
<1> QED BY <1>4, <1>5, <1>6, <1>7, <1>8, <1>9 DEF Prepare

\* A queue has MaxWrites changes and two records at most, and revisions count no further.
Bounded ==
    /\ \A t \in Tx : /\ Len(pending[t]) <= MaxWrites + 2
                     /\ phase[t] = "running" => Len(pending[t]) <= MaxWrites
    /\ \A k \in Key : rev[k][2] <= MaxWrites + 2

LEMMA BoundedNext ==
    ASSUME EmbeddedInv, Bounded, [Next]_vars
    PROVE  Bounded'
<1>1. MaxWrites \in Nat /\ Types /\ QueueInv
  BY MaxWritesAssumption DEF EmbeddedInv
<1>2. CASE UNCHANGED vars
  BY <1>2 DEF vars, Bounded
<1>3. ASSUME NEW t \in Tx, Start(t) PROVE Bounded'
  BY <1>1, <1>3 DEF Start, Bounded, Types
<1>4. ASSUME NEW t \in Tx, Script(t) PROVE Bounded'
  <2>1. /\ UNCHANGED <<phase, rev>>
        /\ \/ UNCHANGED pending
           \/ \E k \in Resource, v \in DbValue :
                 /\ Len(pending[t]) < MaxWrites /\ phase[t] = "running"
                 /\ pending' = [pending EXCEPT ![t] = Append(@, <<k, v>>)]
    BY <1>4 DEF Script, Read, Add, Update, Remove, Defer, DbValue
  <2>2. CASE UNCHANGED pending
    BY <2>1, <2>2 DEF Bounded
  <2>3. ASSUME NEW k \in Resource, NEW v \in DbValue, Len(pending[t]) < MaxWrites,
               pending' = [pending EXCEPT ![t] = Append(@, <<k, v>>)]
        PROVE  Bounded'
    <3>1. pending[t] \in Seq(Action)
      BY <1>1 DEF Types
    <3>2. Len(Append(pending[t], <<k, v>>)) = Len(pending[t]) + 1 /\ Len(pending[t]) \in Nat
      BY <3>1
    <3>3. Len(pending'[t]) <= MaxWrites
      BY <1>1, <2>3, <3>2 DEF Types
    <3>4. \A u \in Tx \ {t} : pending'[u] = pending[u]
      BY <1>1, <2>3 DEF Types
    <3> QED BY <1>1, <2>1, <3>2, <3>3, <3>4 DEF Bounded
  <2> QED BY <2>1, <2>2, <2>3
<1>5. ASSUME NEW t \in Tx, Record(t) PROVE Bounded'
  <2>1. pending[t] \in Seq(Action)
    BY <1>1 DEF Types
  <2>2. Len(pending[t] \o <<<<TxRecord(t), t>>, <<HistorianRecord(t), t>>>>)
           = Len(pending[t]) + 2 /\ Len(pending[t]) \in Nat
    BY <2>1
  <2>3. Len(pending'[t]) <= MaxWrites + 2
    BY <1>1, <1>5, <2>2 DEF Record, Types, Bounded
  <2>4. \A u \in Tx \ {t} : pending'[u] = pending[u] /\ phase'[u] = phase[u]
    BY <1>1, <1>5 DEF Record, Types
  <2>5. phase'[t] # "running" /\ rev' = rev
    BY <1>1, <1>5 DEF Record, Types
  <2> QED BY <1>1, <2>3, <2>4, <2>5 DEF Bounded
<1>6. ASSUME NEW t \in Tx, Throw(t) \/ PrepareGet(t) \/ PrepareConflict(t) \/ Commit(t)
      PROVE  Bounded'
  <2>1. UNCHANGED <<pending, rev>>
    BY <1>6 DEF Throw, PrepareGet, PrepareConflict, Commit
  <2>2. \A u \in Tx : phase'[u] = "running" => phase[u] = "running"
    BY <1>1, <1>6 DEF Throw, PrepareGet, PrepareConflict, Commit, Types
  <2> QED BY <2>1, <2>2 DEF Bounded
<1>7. ASSUME NEW t \in Tx, PreparePut(t) PROVE Bounded'
  <2>1. pending' = pending /\ \A u \in Tx : phase'[u] = "running" => phase[u] = "running"
    BY <1>1, <1>7 DEF PreparePut, Types
  <2>2. done[t] \in Nat /\ done[t] < Len(pending[t]) /\ Len(pending[t]) \in Nat
    BY <1>1, <1>7 DEF PreparePut, Types, QueueInv, QueueOf
  <2>3. rev' = rev \/ rev' = [rev EXCEPT ![Doc(t)] = <<t, done[t] + 1>>]
    BY <1>7 DEF PreparePut
  <2>4. ASSUME NEW k \in Key PROVE rev'[k] = rev[k] \/ rev'[k] = <<t, done[t] + 1>>
    BY <1>1, <2>3 DEF Types
  <2>5. done[t] + 1 <= MaxWrites + 2
    BY <1>1, <2>2 DEF Bounded
  <2>6. ASSUME NEW k \in Key PROVE rev'[k][2] <= MaxWrites + 2
    BY <2>4, <2>5 DEF Bounded
  <2> QED BY <2>1, <2>6 DEF Bounded
<1> QED BY <1>2, <1>3, <1>4, <1>5, <1>6, <1>7 DEF Next, Prepare

\* The state of the runtime has its types, within the bound on what is written.
THEOREM EmbeddedTypes == Spec => []TypeOK
<1>1. Init => Bounded
  BY MaxWritesAssumption DEF Init, Bounded
<1>2. EmbeddedInv /\ Bounded => TypeOK
  <2> SUFFICES ASSUME EmbeddedInv, Bounded PROVE TypeOK
    OBVIOUS
  <2>1. Types /\ QueueInv /\ MaxWrites \in Nat
    BY MaxWritesAssumption DEF EmbeddedInv
  <2>2. ASSUME NEW k \in Key PROVE rev[k] \in (Tx \union {Nobody}) \X (0 .. MaxWrites + 2)
    <3>1. rev[k] \in (Tx \union {Nobody}) \X Nat /\ rev[k][2] <= MaxWrites + 2
      BY <2>1 DEF Types, Revision, Bounded
    <3> QED BY <2>1, <3>1
  <2>3. ASSUME NEW t \in Tx
        PROVE  /\ done[t] \in 0 .. Len(pending[t])
               /\ seen[t] = NoRev \/ seen[t] \in (Tx \union {Nobody}) \X Nat
               /\ reads[t] \subseteq Key \X (Value \union Tx \union {Absent})
    <3>1. done[t] \in Nat /\ Len(pending[t]) \in Nat /\ done[t] <= Len(pending[t])
      BY <2>1 DEF Types, QueueInv, QueueOf
    <3> QED BY <2>1, <3>1 DEF Types, Revision, Action, DbValue
  <2> QED BY <2>1, <2>2, <2>3 DEF Types, DbValue, TypeOK, Bounded
<1>3. EmbeddedInv /\ Bounded /\ [Next]_vars => Bounded'
  BY BoundedNext
<1> QED BY <1>1, <1>2, <1>3, EmbeddedInvariant, PTL DEF Spec

\* Transactions in one process are atomic and serializable when clients wait for each
\* other's answers: the runtime implements AtomicTransactions, a transaction taking effect
\* when its prepare begins.
THEOREM EmbeddedAtomic == Spec => SerialAtomic
<1>1. Init => (clients = 1 => Atomic!Init)
  BY SerialInitAtomic
<1>2. EmbeddedInv /\ EmbeddedInv' /\ WhileOne /\ [Next]_vars
        => [clients = 1 => Atomic!Next]_(Atomic!vars)
  <2> SUFFICES ASSUME EmbeddedInv, EmbeddedInv', SerialInv, clients = 1, [Next]_vars
               PROVE  Atomic!Next \/ UNCHANGED <<world, outcome>>
    BY DEF Atomic!vars, WhileOne, OneClient
  <2>1. CASE UNCHANGED vars
    BY <2>1 DEF vars, world, Rest, Preparing, outcome
  <2> QED BY <2>1, SerialAtomicStep DEF Next
<1> QED BY <1>1, <1>2, SerialInvariant, EmbeddedTypes, PTL DEF Spec, SerialAtomic
=============================================================================
