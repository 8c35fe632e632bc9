------------------------- MODULE FabricRuntimeProofs -------------------------
(***************************************************************************)
(* Proofs about the engine on Hyperledger Fabric.                          *)
(*                                                                         *)
(* Transactions (FabricRuntime), for every set of transactions, resources  *)
(* and values: the read versions that the data collections leave in the    *)
(* read set are enough to make transactions atomic and serializable, and   *)
(* to keep the historian exact.                                            *)
(***************************************************************************)
EXTENDS FabricRuntime, Naturals, Sequences, TLAPS

USE DEF TxRecord, HistorianRecord

\* The records of a transaction are no resource and not another's records.
LEMMA RecordKeys ==
    /\ \A t \in Tx : /\ TxRecord(t) \in Key \ Resource
                     /\ HistorianRecord(t) \in Key \ Resource
                     /\ TxRecord(t) # HistorianRecord(t)
    /\ \A t, u \in Tx : t # u =>
          /\ {TxRecord(t), HistorianRecord(t)}
               \intersect {TxRecord(u), HistorianRecord(u)} = {}
BY KeyAssumption DEF Key

\* What a simulating transaction can do: observe the world and move on.  It
\* changes no document and neither becomes valid nor invalid.
Simulates(t) ==
    /\ UNCHANGED <<state, version>>
    /\ phase[t] \in {"new", "running", "endorsed"}
    /\ \E p \in {"running", "endorsed", "ordered", "failed"} :
          phase' = [phase EXCEPT ![t] = p]
    /\ \E O \in SUBSET {Observe(k) : k \in Key} :
          readSet' = [readSet EXCEPT ![t] = @ \union O]
    /\ \A u \in Tx \ {t} : writeSet'[u] = writeSet[u]

LEMMA ResourceKey == Resource \subseteq Key
BY DEF Key

LEMMA SimulationSteps ==
    ASSUME TypeOK, NEW t \in Tx,
           Begin(t) \/ Script(t) \/ Record(t) \/ Throw(t) \/ Submit(t)
    PROVE  Simulates(t)
<1> USE DEF TypeOK, Simulates
<1>1. readSet = [readSet EXCEPT ![t] = @ \union {}] /\ phase \in [Tx -> Phase]
  BY DEF TypeOK
<1>2. CASE Begin(t) \/ Throw(t) \/ Submit(t)
  BY <1>1, <1>2 DEF Begin, Throw, Submit
<1>3. CASE Script(t)
  <2>1. phase[t] = "running" /\ phase' = [phase EXCEPT ![t] = "running"]
    BY <1>3 DEF Script, Read, Add, ForceAdd, Update, Remove, Replace
  <2>2. UNCHANGED <<state, version>>
    BY <1>3 DEF Script, Read, Add, ForceAdd, Update, Remove, Replace
  <2>3. \E O \in SUBSET {Observe(k) : k \in Key} :
           readSet' = [readSet EXCEPT ![t] = @ \union O]
    <3> PICK k \in Resource :
           \/ Read(t, k) \/ Remove(t, k)
           \/ \E v \in Value : Add(t, k, v) \/ ForceAdd(t, k, v) \/ Update(t, k, v)
      BY <1>3 DEF Script
    <3>1. CASE readSet' = [readSet EXCEPT ![t] = @ \union {Observe(k)}]
      <4>1. {Observe(k)} \in SUBSET {Observe(j) : j \in Key}
        BY ResourceKey
      <4> QED BY <3>1, <4>1
    <3>2. CASE readSet' = readSet
      BY <1>1, <3>2
    <3> QED BY <3>1, <3>2 DEF Read, Remove, Add, ForceAdd, Update, Replace
  <2>4. \A u \in Tx \ {t} : writeSet'[u] = writeSet[u]
    BY <1>3 DEF Script, Read, Add, ForceAdd, Update, Remove, Replace
  <2> QED BY <2>1, <2>2, <2>3, <2>4
<1>4. CASE Record(t)
  <2>1. {Observe(TxRecord(t)), Observe(HistorianRecord(t))}
          \in SUBSET {Observe(j) : j \in Key}
    BY RecordKeys
  <2> QED BY <1>4, <2>1 DEF Record
<1> QED BY <1>2, <1>3, <1>4

-----------------------------------------------------------------------------
LEMMA InitFabricInv == Init => FabricInv
<1> SUFFICES ASSUME Init PROVE FabricInv
  OBVIOUS
<1> PICK s \in [Resource -> Value \union {Absent}] :
        state = [k \in Key |-> IF k \in Resource THEN s[k] ELSE Absent]
  BY DEF Init
<1>1. TypeOK
  <2>1. writeSet = [t \in Tx |-> [k \in DOMAIN writeSet[t] |-> writeSet[t][k]]]
    BY DEF Init, NothingWritten
  <2> QED BY <2>1 DEF Init, TypeOK, Contents, Version, Phase, NothingWritten
<1>2. RecordInv
  BY DEF Init, RecordInv, NothingWritten
<1>3. VersionInv
  BY VersionAssumption DEF Init, VersionInv
<1>4. HistorianExact
  BY RecordKeys DEF Init, HistorianExact
<1>5. RejectedForAnother
  BY DEF Init, RejectedForAnother
<1> QED BY <1>1, <1>2, <1>3, <1>4, <1>5 DEF FabricInv

\* A simulation step keeps everything that is not about the write set.
LEMMA SimulatesInv ==
    ASSUME FabricInv, NEW t \in Tx, Simulates(t)
    PROVE  /\ readSet' \in [Tx -> SUBSET (Key \X Contents \X Version)]
           /\ VersionInv' /\ HistorianExact' /\ RejectedForAnother'
<1> PICK O \in SUBSET {Observe(k) : k \in Key} :
        readSet' = [readSet EXCEPT ![t] = @ \union O]
  BY DEF Simulates
<1> PICK p \in {"running", "endorsed", "ordered", "failed"} :
        phase' = [phase EXCEPT ![t] = p]
  BY DEF Simulates
<1>1. /\ state' = state /\ version' = version
      /\ phase[t] \in {"new", "running", "endorsed"}
      /\ phase \in [Tx -> Phase]
  BY DEF Simulates, FabricInv, TypeOK
<1>2. \A u \in Tx : /\ phase'[u] = "valid" <=> phase[u] = "valid"
                    /\ phase'[u] = "invalid" <=> phase[u] = "invalid"
                    /\ readSet[u] \subseteq readSet'[u]
  BY <1>1 DEF FabricInv, TypeOK
<1>3. O \in SUBSET (Key \X Contents \X Version)
  BY DEF Observe, FabricInv, TypeOK
<1>4. readSet' \in [Tx -> SUBSET (Key \X Contents \X Version)]
  BY <1>3 DEF FabricInv, TypeOK
<1>5. VersionInv'
  <2>1. \A k \in Key :
          /\ version'[k] = Nil <=> state'[k] = Absent
          /\ version'[k] \in Tx => phase'[version'[k]] = "valid"
    BY <1>1, <1>2 DEF FabricInv, VersionInv
  <2>2. ASSUME NEW u \in Tx, NEW r \in readSet'[u]
        PROVE  /\ r[3] = Nil => r[2] = Absent
               /\ r[3] \in Tx => phase'[r[3]] = "valid"
               /\ r[3] = version'[r[1]] => r[2] = state'[r[1]]
               /\ r[3] # version'[r[1]] =>
                    \E w \in Tx : phase'[w] = "valid" /\ r[1] \in DOMAIN writeSet'[w]
    <3>1. CASE r \in readSet[u]
      <4>1. \A w \in Tx : phase[w] = "valid" => writeSet'[w] = writeSet[w]
        BY <1>1 DEF Simulates
      <4> QED BY <1>1, <1>2, <3>1, <4>1 DEF FabricInv, VersionInv
    <3>2. CASE r \notin readSet[u]
      <4>1. r \in O
        BY <3>2 DEF FabricInv, TypeOK
      <4>2. PICK k \in Key : r = <<k, state[k], version[k]>>
        BY <4>1 DEF Observe
      <4> QED BY <1>1, <1>2, <2>1, <4>2
    <3> QED BY <3>1, <3>2
  <2> QED BY <2>1, <2>2 DEF VersionInv
<1>6. HistorianExact'
  BY <1>1, <1>2 DEF FabricInv, HistorianExact
<1>7. RejectedForAnother'
  <2> SUFFICES ASSUME NEW u \in Tx, phase'[u] = "invalid"
               PROVE  \E w \in Tx \ {u}, r \in readSet'[u] :
                         phase'[w] = "valid" /\ r[1] \in DOMAIN writeSet'[w]
    BY DEF RejectedForAnother
  <2>1. PICK w \in Tx \ {u}, r \in readSet[u] :
                phase[w] = "valid" /\ r[1] \in DOMAIN writeSet[w]
    BY <1>2 DEF FabricInv, RejectedForAnother
  <2>2. writeSet'[w] = writeSet[w]
    BY <1>1, <2>1 DEF Simulates
  <2> QED BY <1>2, <2>1, <2>2
<1> QED BY <1>4, <1>5, <1>6, <1>7

\* What PutState and DelState do to a write set.
LEMMA WrittenFacts ==
    ASSUME NEW w, NEW k, NEW v
    PROVE  /\ DOMAIN Written(w, k, v) = DOMAIN w \union {k}
           /\ Written(w, k, v)[k] = v
           /\ \A j \in DOMAIN w : j # k => Written(w, k, v)[j] = w[j]
BY DEF Written

\* The write set of a script step: as before, or one more resource written.
LEMMA ScriptWrites ==
    ASSUME TypeOK, NEW t \in Tx, Script(t)
    PROVE  \/ writeSet' = writeSet
           \/ \E k \in Resource, v \in Contents :
                 writeSet' = [writeSet EXCEPT ![t] = Written(@, k, v)]
<1> PICK k \in Resource :
       \/ Read(t, k) \/ Remove(t, k)
       \/ \E v \in Value : Add(t, k, v) \/ ForceAdd(t, k, v) \/ Update(t, k, v)
  BY DEF Script
<1>1. CASE Read(t, k)
  BY <1>1 DEF Read
<1>2. CASE Remove(t, k)
  BY <1>2 DEF Remove, Replace, Contents
<1>3. CASE \E v \in Value : Add(t, k, v) \/ ForceAdd(t, k, v) \/ Update(t, k, v)
  BY <1>3 DEF Add, ForceAdd, Update, Replace, Contents
<1> QED BY <1>1, <1>2, <1>3

LEMMA WriteKeepsType ==
    ASSUME TypeOK, NEW t \in Tx, NEW k \in Key, NEW v \in Contents,
           writeSet' = [writeSet EXCEPT ![t] = Written(@, k, v)]
    PROVE  /\ writeSet' = [u \in Tx |->
                             [j \in DOMAIN writeSet'[u] |-> writeSet'[u][j]]]
           /\ \A u \in Tx : /\ DOMAIN writeSet'[u] \subseteq Key
                            /\ \A j \in DOMAIN writeSet'[u] :
                                  writeSet'[u][j] \in Contents
<1> DEFINE w == writeSet'
<1>1. DOMAIN writeSet = Tx /\ DOMAIN w = Tx
  BY DEF TypeOK
<1>2. w[t] = Written(writeSet[t], k, v)
  BY <1>1
<1>3. \A u \in Tx : u # t => w[u] = writeSet[u]
  BY <1>1
<1>4. \A u \in Tx : w[u] = [j \in DOMAIN w[u] |-> w[u][j]]
  <2> TAKE u \in Tx
  <2>1. CASE u = t
    BY <1>2, <2>1 DEF Written
  <2>2. CASE u # t
    BY <1>3, <2>2 DEF TypeOK
  <2> QED BY <2>1, <2>2
<1>5. w = [u \in Tx |-> w[u]]
  BY <1>1
<1>6. \A u \in Tx : /\ DOMAIN w[u] \subseteq Key
                    /\ \A j \in DOMAIN w[u] : w[u][j] \in Contents
  <2> TAKE u \in Tx
  <2>1. CASE u = t
    BY <1>2, <2>1 DEF Written, TypeOK
  <2>2. CASE u # t
    BY <1>3, <2>2 DEF TypeOK
  <2> QED BY <2>1, <2>2
<1> QED BY <1>4, <1>5, <1>6

\* A simulation step writes resources, and records at the end.
LEMMA SimulationWrites ==
    ASSUME FabricInv, NEW t \in Tx,
           Begin(t) \/ Script(t) \/ Record(t) \/ Throw(t) \/ Submit(t)
    PROVE  /\ writeSet' = [u \in Tx |-> [k \in DOMAIN writeSet'[u] |-> writeSet'[u][k]]]
           /\ \A u \in Tx : /\ DOMAIN writeSet'[u] \subseteq Key
                            /\ \A k \in DOMAIN writeSet'[u] :
                                  writeSet'[u][k] \in Contents
           /\ RecordInv'
<1> USE DEF FabricInv
<1>1. CASE writeSet' = writeSet /\ ~ Record(t)
  <2>1. /\ phase'[t] \in {"running", "endorsed", "failed", "ordered"}
        /\ phase'[t] = "running" => phase[t] \in {"new", "running"}
        /\ phase'[t] \in {"endorsed", "ordered"} => phase[t] \in {"endorsed", "ordered"}
        /\ \A u \in Tx \ {t} : phase'[u] = phase[u]
    BY <1>1 DEF TypeOK, Begin, Script, Throw, Submit, Read, Add, ForceAdd, Update,
                Remove, Replace
  <2>2. RecordInv'
    BY <1>1, <2>1 DEF RecordInv
  <2> QED BY <1>1, <2>2 DEF TypeOK
<1>2. CASE Script(t) /\ writeSet' # writeSet
  <2>1. PICK k \in Resource, v \in Contents :
               writeSet' = [writeSet EXCEPT ![t] = Written(@, k, v)]
    BY <1>2, ScriptWrites
  <2>2. phase' = phase /\ phase[t] = "running"
    BY <1>2 DEF Script, Read, Add, ForceAdd, Update, Remove, Replace
  <2>3. /\ DOMAIN writeSet'[t] = DOMAIN writeSet[t] \union {k}
        /\ \A u \in Tx \ {t} : writeSet'[u] = writeSet[u]
    BY <2>1, WrittenFacts DEF TypeOK
  <2>4. RecordInv'
    <3> SUFFICES ASSUME NEW u \in Tx
                 PROVE  /\ DOMAIN writeSet'[u] \subseteq
                             Resource \union {TxRecord(u), HistorianRecord(u)}
                        /\ phase'[u] \in {"new", "running"} =>
                             DOMAIN writeSet'[u] \subseteq Resource
                        /\ phase'[u] \in {"endorsed", "ordered"} =>
                             \A j \in {TxRecord(u), HistorianRecord(u)} :
                               j \in DOMAIN writeSet'[u] /\ writeSet'[u][j] = u
      BY DEF RecordInv
    <3>1. CASE u = t
      BY <2>2, <2>3, <3>1 DEF RecordInv
    <3>2. CASE u # t
      BY <2>2, <2>3, <3>2 DEF RecordInv
    <3> QED BY <3>1, <3>2
  <2>5. k \in Key
    BY ResourceKey
  <2> QED BY <2>1, <2>4, <2>5, WriteKeepsType
<1>3. CASE Record(t)
  <2> DEFINE w == [writeSet EXCEPT ![t] = Written(@, TxRecord(t), t)]
             a == Written(writeSet[t], TxRecord(t), t)
  <2>1. t \in Contents /\ TxRecord(t) \in Key /\ HistorianRecord(t) \in Key
        /\ TxRecord(t) # HistorianRecord(t)
    BY RecordKeys DEF Contents
  <2>2. /\ DOMAIN writeSet = Tx
        /\ writeSet' = [writeSet EXCEPT ![t] = Written(a, HistorianRecord(t), t)]
    BY <1>3 DEF Record, TypeOK
  <2>3. /\ DOMAIN writeSet'[t] =
              DOMAIN writeSet[t] \union {TxRecord(t), HistorianRecord(t)}
        /\ writeSet'[t][TxRecord(t)] = t /\ writeSet'[t][HistorianRecord(t)] = t
        /\ \A j \in DOMAIN writeSet[t] :
              j \notin {TxRecord(t), HistorianRecord(t)} =>
                 writeSet'[t][j] = writeSet[t][j]
        /\ writeSet'[t] = [j \in DOMAIN writeSet'[t] |-> writeSet'[t][j]]
        /\ \A u \in Tx \ {t} : writeSet'[u] = writeSet[u]
    <3>1. writeSet'[t] = Written(a, HistorianRecord(t), t)
      BY <2>2
    <3>2. DOMAIN a = DOMAIN writeSet[t] \union {TxRecord(t)} /\ a[TxRecord(t)] = t
          /\ \A j \in DOMAIN writeSet[t] : j # TxRecord(t) => a[j] = writeSet[t][j]
      BY DEF Written
    <3>3. \A u \in Tx \ {t} : writeSet'[u] = writeSet[u]
      BY <2>2
    <3> HIDE DEF a
    <3>4. writeSet'[t] = [j \in DOMAIN a \union {HistorianRecord(t)} |->
                            IF j = HistorianRecord(t) THEN t ELSE a[j]]
      BY <3>1 DEF Written
    <3> QED BY <2>1, <3>2, <3>3, <3>4
  <2>4. /\ phase' = [phase EXCEPT ![t] = "endorsed"] /\ phase[t] = "running"
    BY <1>3 DEF Record
  <2>5. RecordInv'
    <3> SUFFICES ASSUME NEW u \in Tx
                 PROVE  /\ DOMAIN writeSet'[u] \subseteq
                             Resource \union {TxRecord(u), HistorianRecord(u)}
                        /\ phase'[u] \in {"new", "running"} =>
                             DOMAIN writeSet'[u] \subseteq Resource
                        /\ phase'[u] \in {"endorsed", "ordered"} =>
                             \A j \in {TxRecord(u), HistorianRecord(u)} :
                               j \in DOMAIN writeSet'[u] /\ writeSet'[u][j] = u
      BY DEF RecordInv
    <3>1. phase'[t] = "endorsed" /\ phase[t] = "running" /\ (u # t => phase'[u] = phase[u])
      BY <2>4 DEF TypeOK
    <3>2. CASE u = t
      <4>1. DOMAIN writeSet[t] \subseteq Resource
        BY <3>1 DEF RecordInv
      <4> QED BY <2>3, <3>1, <3>2, <4>1
    <3>3. CASE u # t
      <4>1. writeSet'[u] = writeSet[u]
        BY <2>3, <3>3
      <4> QED BY <3>1, <3>3, <4>1 DEF RecordInv
    <3> QED BY <3>2, <3>3
  <2>6. \A u \in Tx : /\ DOMAIN writeSet'[u] \subseteq Key
                      /\ \A k \in DOMAIN writeSet'[u] : writeSet'[u][k] \in Contents
    BY <2>1, <2>3 DEF TypeOK
  <2>7. writeSet' = [u \in Tx |-> [k \in DOMAIN writeSet'[u] |-> writeSet'[u][k]]]
    <3>1. \A u \in Tx : writeSet'[u] = [k \in DOMAIN writeSet'[u] |-> writeSet'[u][k]]
      BY <2>3 DEF TypeOK
    <3>2. writeSet' = [u \in Tx |-> writeSet'[u]]
      BY <2>2
    <3> QED BY <3>1, <3>2
  <2> QED BY <2>5, <2>6, <2>7
<1>4. writeSet' = writeSet \/ Script(t) \/ Record(t)
  BY DEF Begin, Throw, Submit
<1> QED BY <1>1, <1>2, <1>3, <1>4

\* Delivery: the peer found every version unchanged and applies the writes.
LEMMA DeliverInv ==
    ASSUME FabricInv, NEW t \in Tx, Deliver(t)
    PROVE  FabricInv'
<1> USE DEF FabricInv
<1>1. /\ readSet' = readSet /\ writeSet' = writeSet
      /\ phase[t] = "ordered" /\ phase'[t] = "valid"
      /\ \A u \in Tx \ {t} : phase'[u] = phase[u]
      /\ phase' \in [Tx -> Phase]
  BY DEF Deliver, TypeOK, Phase
<1>2. \A k \in Key :
         /\ k \in DOMAIN writeSet[t] =>
              /\ state'[k] = writeSet[t][k]
              /\ version'[k] = IF writeSet[t][k] = Absent THEN Nil ELSE t
         /\ k \notin DOMAIN writeSet[t] =>
              state'[k] = state[k] /\ version'[k] = version[k]
  BY DEF Deliver
<1>3. TypeOK'
  <2>1. state' \in [Key -> Contents]
    BY DEF Deliver, TypeOK
  <2>2. version' \in [Key -> Version]
    BY DEF Deliver, TypeOK, Version
  <2> QED BY <1>1, <2>1, <2>2 DEF TypeOK
<1>4. RecordInv'
  BY <1>1 DEF RecordInv
<1>5. VersionInv'
  <2>1. ASSUME NEW k \in Key
        PROVE  /\ version'[k] = Nil <=> state'[k] = Absent
               /\ version'[k] \in Tx => phase'[version'[k]] = "valid"
    <3>1. CASE k \in DOMAIN writeSet[t]
      BY <1>1, <1>2, <3>1, VersionAssumption
    <3>2. CASE k \notin DOMAIN writeSet[t]
      BY <1>1, <1>2, <3>2 DEF VersionInv
    <3> QED BY <3>1, <3>2
  <2>2. ASSUME NEW u \in Tx, NEW r \in readSet'[u]
        PROVE  /\ r[3] = Nil => r[2] = Absent
               /\ r[3] \in Tx => phase'[r[3]] = "valid"
               /\ r[3] = version'[r[1]] => r[2] = state'[r[1]]
               /\ r[3] # version'[r[1]] =>
                    \E w \in Tx : phase'[w] = "valid" /\ r[1] \in DOMAIN writeSet'[w]
    <3>1. /\ r[1] \in Key
          /\ r[3] = Nil => r[2] = Absent
          /\ r[3] \in Tx => phase[r[3]] = "valid"
          /\ r[3] = version[r[1]] => r[2] = state[r[1]]
          /\ r[3] # version[r[1]] =>
               \E w \in Tx : phase[w] = "valid" /\ r[1] \in DOMAIN writeSet[w]
      <4>1. r \in readSet[u]
        BY <1>1
      <4> QED BY <4>1 DEF VersionInv, TypeOK
    <3>2. r[3] \in Tx => r[3] # t /\ phase'[r[3]] = "valid"
      BY <1>1, <3>1
    <3>3. CASE r[1] \in DOMAIN writeSet[t]
      BY <1>1, <1>2, <3>1, <3>2, <3>3
    <3>4. CASE r[1] \notin DOMAIN writeSet[t]
      BY <1>1, <1>2, <3>1, <3>2, <3>4
    <3> QED BY <3>1, <3>2, <3>3, <3>4
  <2> QED BY <2>1, <2>2 DEF VersionInv
<1>6. HistorianExact'
  <2>1. ASSUME NEW u \in Tx, NEW k \in {TxRecord(u), HistorianRecord(u)}
        PROVE  phase'[u] = "valid" <=> state'[k] # Absent
    <3>1. k \in Key /\ k \notin Resource
      BY RecordKeys
    <3>2. CASE u = t
      BY <1>1, <1>2, <3>1, <3>2, ValueAssumption DEF RecordInv
    <3>3. CASE u # t
      <4>1. k \notin DOMAIN writeSet[t]
        BY <3>1, <3>3, RecordKeys DEF RecordInv
      <4>2. state'[k] = state[k] /\ phase'[u] = phase[u]
        BY <1>1, <1>2, <3>1, <3>3, <4>1
      <4>3. phase[u] = "valid" <=> state[k] # Absent
        BY DEF HistorianExact
      <4> QED BY <4>2, <4>3
    <3> QED BY <3>2, <3>3
  <2> QED BY <2>1 DEF HistorianExact
<1>7. RejectedForAnother'
  BY <1>1 DEF RejectedForAnother
<1> QED BY <1>3, <1>4, <1>5, <1>6, <1>7

\* A rejection: some version moved on, which only a valid transaction does.
LEMMA RejectInv ==
    ASSUME FabricInv, NEW t \in Tx, Reject(t)
    PROVE  FabricInv'
<1> USE DEF FabricInv
<1>1. /\ UNCHANGED <<state, version, readSet, writeSet>>
      /\ phase[t] = "ordered" /\ phase'[t] = "invalid"
      /\ \A u \in Tx \ {t} : phase'[u] = phase[u]
      /\ phase' \in [Tx -> Phase]
  BY DEF Reject, TypeOK, Phase
<1>2. \A u \in Tx : phase'[u] = "valid" <=> phase[u] = "valid"
  BY <1>1
<1>3. TypeOK'
  BY <1>1 DEF TypeOK
<1>4. RecordInv'
  BY <1>1 DEF RecordInv
<1>5. VersionInv'
  BY <1>1, <1>2 DEF VersionInv, TypeOK, Version
<1>6. HistorianExact'
  BY <1>1, <1>2 DEF HistorianExact
<1>7. RejectedForAnother'
  <2> SUFFICES ASSUME NEW u \in Tx, phase'[u] = "invalid"
               PROVE  \E w \in Tx \ {u}, r \in readSet'[u] :
                         phase'[w] = "valid" /\ r[1] \in DOMAIN writeSet'[w]
    BY DEF RejectedForAnother
  <2>1. CASE u = t
    <3>1. PICK r \in readSet[t] : version[r[1]] # r[3]
      BY DEF Reject, Unchanged
    <3>2. PICK w \in Tx : phase[w] = "valid" /\ r[1] \in DOMAIN writeSet[w]
      BY <3>1 DEF VersionInv
    <3> QED BY <1>1, <1>2, <2>1, <3>1, <3>2
  <2>2. CASE u # t
    BY <1>1, <1>2, <2>2 DEF RejectedForAnother
  <2> QED BY <2>1, <2>2
<1> QED BY <1>3, <1>4, <1>5, <1>6, <1>7

LEMMA NextFabricInv == FabricInv /\ [Next]_vars => FabricInv'
<1> SUFFICES ASSUME FabricInv, [Next]_vars PROVE FabricInv'
  OBVIOUS
<1>1. CASE UNCHANGED vars
  <2>1. TypeOK'
    BY <1>1 DEF vars, FabricInv, TypeOK
  <2>2. (RecordInv /\ HistorianExact /\ RejectedForAnother)'
    BY <1>1 DEF vars, FabricInv, RecordInv, HistorianExact, RejectedForAnother
  <2>3. VersionInv'
    BY <1>1 DEF vars, FabricInv, VersionInv
  <2> QED BY <2>1, <2>2, <2>3 DEF FabricInv
<1>2. CASE Next
  <2> PICK t \in Tx : \/ Begin(t) \/ Script(t) \/ Record(t) \/ Throw(t)
                      \/ Submit(t) \/ Deliver(t) \/ Reject(t)
    BY <1>2 DEF Next
  <2>1. CASE Begin(t) \/ Script(t) \/ Record(t) \/ Throw(t) \/ Submit(t)
    <3>1. Simulates(t)
      BY <2>1, SimulationSteps DEF FabricInv
    <3>2. state' = state /\ version' = version /\ phase' \in [Tx -> Phase]
      BY <3>1 DEF Simulates, FabricInv, TypeOK, Phase
    <3>3. TypeOK'
      BY <2>1, <3>1, <3>2, SimulatesInv, SimulationWrites DEF FabricInv, TypeOK
    <3> QED BY <2>1, <3>1, <3>3, SimulatesInv, SimulationWrites DEF FabricInv
  <2>2. CASE Deliver(t)
    BY <2>2, DeliverInv
  <2>3. CASE Reject(t)
    BY <2>3, RejectInv
  <2> QED BY <2>1, <2>2, <2>3
<1> QED BY <1>1, <1>2

\* FabricInv is inductive: versions tell the truth about values.
THEOREM FabricInvariant == Spec => []FabricInv
BY InitFabricInv, NextFabricInv, PTL DEF Spec

\* The historian registry and the transaction registries hold the records of
\* the transactions that succeeded, and no others.
THEOREM FabricHistorianExact == Spec => []HistorianExact
<1>1. FabricInv => HistorianExact
  BY DEF FabricInv
<1> QED BY <1>1, FabricInvariant, PTL

\* A transaction is only rejected for one that succeeded.
THEOREM FabricRejectedForAnother == Spec => []RejectedForAnother
<1>1. FabricInv => RejectedForAnother
  BY DEF FabricInv
<1> QED BY <1>1, FabricInvariant, PTL

-----------------------------------------------------------------------------
\* The initial states of the runtime are initial states of the abstraction.
LEMMA InitAtomic == Init => Atomic!Init
<1> SUFFICES ASSUME Init PROVE Atomic!Init
  OBVIOUS
<1>1. outcome = [t \in Tx |-> Atomic!Open]
  BY DEF Init, outcome, Atomic!Open
<1>2. state = [k \in Key |-> state[k]]
  BY DEF Init
<1> QED BY <1>1, <1>2 DEF Atomic!Init

\* The outcome of a transaction depends on its phase and, once it is valid, on
\* its sets.
LEMMA OutcomeOf ==
    ASSUME NEW t \in Tx
    PROVE  /\ phase[t] = "valid" =>
                outcome[t] = [status |-> "committed",
                              reads  |-> {<<r[1], r[2]>> : r \in readSet[t]},
                              writes |-> writeSet[t]]
           /\ phase[t] \in {"failed", "invalid"} => outcome[t] = Atomic!Failed
           /\ phase[t] \notin {"valid", "failed", "invalid"} =>
                outcome[t] = Atomic!Open
BY DEF outcome, Atomic!Failed, Atomic!Open

\* A step of t changes the outcome of t at most.
LEMMA OutcomeExcept ==
    ASSUME NEW t \in Tx,
           \A u \in Tx \ {t} : /\ phase'[u] = phase[u]
                               /\ phase[u] = "valid" =>
                                    /\ readSet'[u] = readSet[u]
                                    /\ writeSet'[u] = writeSet[u]
    PROVE  outcome' = [outcome EXCEPT ![t] = outcome'[t]]
<1>1. \A u \in Tx \ {t} : outcome'[u] = outcome[u]
  BY DEF outcome
<1>2. DOMAIN outcome = Tx /\ DOMAIN outcome' = Tx
      /\ outcome' = [u \in Tx |-> outcome'[u]]
  BY DEF outcome
<1> QED BY <1>1, <1>2

\* Every step of the runtime is a commit, a failure or invisible.
LEMMA StepAtomic == FabricInv /\ [Next]_vars => [Atomic!Next]_(Atomic!vars)
<1> SUFFICES ASSUME FabricInv, [Next]_vars
             PROVE  Atomic!Next \/ UNCHANGED <<state, outcome>>
  BY DEF Atomic!vars
<1>1. CASE UNCHANGED vars
  BY <1>1 DEF vars, outcome
<1>2. CASE Next
  <2> PICK t \in Tx : \/ Begin(t) \/ Script(t) \/ Record(t) \/ Throw(t)
                      \/ Submit(t) \/ Deliver(t) \/ Reject(t)
    BY <1>2 DEF Next
  <2>1. CASE Begin(t) \/ Script(t) \/ Record(t) \/ Submit(t) \/ Throw(t)
    <3>1. Simulates(t)
      BY <2>1, SimulationSteps DEF FabricInv
    <3>2. /\ phase[t] \notin {"valid", "failed", "invalid"}
          /\ phase'[t] \notin {"valid", "invalid"}
          /\ \A u \in Tx \ {t} : /\ phase'[u] = phase[u]
                                 /\ readSet'[u] = readSet[u]
                                 /\ writeSet'[u] = writeSet[u]
      BY <3>1 DEF Simulates, FabricInv, TypeOK
    <3>3. outcome' = [outcome EXCEPT ![t] = outcome'[t]]
      BY <3>2, OutcomeExcept
    <3>4. outcome[t] = Atomic!Open /\ state' = state
      BY <3>1, <3>2, OutcomeOf DEF Simulates
    <3>5. CASE phase'[t] = "failed"
      <4>1. outcome'[t] = Atomic!Failed
        BY <3>5 DEF outcome, Atomic!Failed
      <4> QED BY <3>3, <3>4, <4>1 DEF Atomic!Next, Atomic!Fail
    <3>6. CASE phase'[t] # "failed"
      <4>1. outcome'[t] = outcome[t]
        BY <3>2, <3>4, <3>6 DEF outcome, Atomic!Open
      <4>2. outcome' = outcome
        BY <3>3, <4>1 DEF outcome
      <4> QED BY <3>4, <4>2
    <3> QED BY <3>5, <3>6
  <2>2. CASE Deliver(t)
    <3>1. /\ phase[t] = "ordered" /\ phase'[t] = "valid"
          /\ readSet' = readSet /\ writeSet' = writeSet
          /\ \A u \in Tx \ {t} : phase'[u] = phase[u]
      BY <2>2 DEF Deliver, FabricInv, TypeOK
    <3>2. outcome' = [outcome EXCEPT ![t] = outcome'[t]]
      BY <3>1, OutcomeExcept
    <3>3. outcome[t] = Atomic!Open
      BY <3>1, OutcomeOf
    <3>4. outcome'[t] = [status |-> "committed",
                         reads  |-> {<<r[1], r[2]>> : r \in readSet[t]},
                         writes |-> writeSet[t]]
      BY <3>1 DEF outcome
    <3>5. \A r \in readSet[t] : r[1] \in Key /\ r[2] = state[r[1]]
      BY <2>2 DEF Deliver, Unchanged, FabricInv, VersionInv, TypeOK
    <3>6. \A r \in outcome'[t].reads : state[r[1]] = r[2]
      BY <3>4, <3>5
    <3>7. DOMAIN outcome'[t].writes \subseteq Key
      BY <3>4 DEF FabricInv, TypeOK
    <3>8. state' = Atomic!Overlay(outcome'[t].writes, state)
      BY <2>2, <3>4 DEF Deliver, Atomic!Overlay
    <3>9. outcome'[t].status = "committed"
      BY <3>4
    <3> QED BY <3>2, <3>3, <3>6, <3>7, <3>8, <3>9 DEF Atomic!Next, Atomic!Commit
  <2>3. CASE Reject(t)
    <3>1. /\ phase[t] = "ordered" /\ phase'[t] = "invalid"
          /\ state' = state /\ readSet' = readSet /\ writeSet' = writeSet
          /\ \A u \in Tx \ {t} : phase'[u] = phase[u]
      BY <2>3 DEF Reject, FabricInv, TypeOK
    <3>2. outcome' = [outcome EXCEPT ![t] = outcome'[t]]
      BY <3>1, OutcomeExcept
    <3>3. outcome[t] = Atomic!Open /\ outcome'[t] = Atomic!Failed
      BY <3>1 DEF outcome, Atomic!Open, Atomic!Failed
    <3> QED BY <3>1, <3>2, <3>3 DEF Atomic!Next, Atomic!Fail
  <2> QED BY <2>1, <2>2, <2>3
<1> QED BY <1>1, <1>2

\* Transactions on Fabric are atomic and serializable: the runtime implements
\* AtomicTransactions, a transaction taking effect when it is delivered.
THEOREM FabricAtomic == Spec => AtomicSpec
BY InitAtomic, FabricInvariant, StepAtomic, PTL DEF Spec, AtomicSpec, Atomic!Spec
=============================================================================
