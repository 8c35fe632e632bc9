------------------------- MODULE ComposerPoolProofs -------------------------
(***************************************************************************)
(* Proofs about the pool of Composers, for every set of goroutines and     *)
(* every size of the pool.  PoolInv is inductive; the properties follow    *)
(* from it.                                                                *)
(***************************************************************************)
EXTENDS ComposerPool, FiniteSetTheorems, TLAPS

\* The steps that only move a goroutine along Get: no Composer is counted,
\* taken from the channel or put back.
Walk(g) ==
    \/ Call(g) \/ RLock(g) \/ SeeRoom(g) \/ SeeFull(g) \/ AskLock(g)
    \/ Lock(g) \/ Number(g) \/ LoseRace(g)

LEMMA InitPoolInv == Init => PoolInv
<1> SUFFICES ASSUME Init PROVE PoolInv
  OBVIOUS
<1> USE PoolMaxAssumption, NoComposerAssumption DEF Init, Composer
<1>1. TypeOK
  BY DEF TypeOK
<1>2. LockDiscipline /\ LockedWaitOnlyWhenFull
  BY DEF LockDiscipline, LockedWaitOnlyWhenFull, WriterAhead
<1>3. ComposersExclusive /\ ComposersConserved
  BY DEF ComposersExclusive, ComposersConserved, Idle, Taken, Users, Init
<1>4. ComposersCounted
  <2>1. Users = {}
    BY DEF Users
  <2> QED BY <2>1, FS_EmptySet DEF ComposersCounted
<1> QED BY <1>1, <1>2, <1>3, <1>4 DEF PoolInv

\* A step along Get takes no Composer and gives none back.
LEMMA WalkPoolInv ==
    ASSUME PoolInv, NEW g \in Goroutine, Walk(g)
    PROVE  PoolInv'
<1> USE PoolMaxAssumption, NoComposerAssumption
<1> USE DEF Walk, Call, RLock, SeeRoom, SeeFull, AskLock, Lock,
            Number, LoseRace
<1>1. TypeOK'
  <2>1. CASE Call(g) \/ RLock(g) \/ SeeRoom(g) \/ SeeFull(g) \/ AskLock(g)
    BY <2>1 DEF PoolInv, TypeOK
  <2>2. CASE Lock(g) \/ LoseRace(g)
    BY <2>2 DEF PoolInv, TypeOK
  <2>3. CASE Number(g)
    <3>1. poolCount \in Composer
      BY <2>3 DEF PoolInv, TypeOK, Composer
    <3> QED BY <2>3, <3>1 DEF PoolInv, TypeOK
  <2> QED BY <2>1, <2>2, <2>3
<1>2. LockDiscipline'
  BY DEF PoolInv, TypeOK, LockDiscipline, WriterAhead
<1>3. /\ UNCHANGED <<pool, poolCount>>
      /\ Users' = Users
      /\ \A h \in Users : held'[h] = held[h]
  BY DEF PoolInv, TypeOK, Users
<1>4. (ComposersExclusive /\ ComposersConserved)'
  BY <1>3 DEF PoolInv, ComposersExclusive, ComposersConserved, Idle, Taken
<1>5. ComposersCounted'
  BY <1>3 DEF PoolInv, ComposersCounted
<1>6. LockedWaitOnlyWhenFull'
  BY DEF PoolInv, TypeOK, LockDiscipline, LockedWaitOnlyWhenFull, WriterAhead
<1> QED BY <1>1, <1>2, <1>4, <1>5, <1>6 DEF PoolInv

\* A new Composer gets the first index that no Composer has.
LEMMA CountPoolInv ==
    ASSUME PoolInv, NEW g \in Goroutine, Count(g)
    PROVE  PoolInv'
<1> USE PoolMaxAssumption, NoComposerAssumption
<1>1. poolCount < PoolMax /\ held[g] = poolCount /\ poolCount \in Nat
  BY DEF PoolInv, TypeOK, LockDiscipline, Count
<1>2. TypeOK'
  BY <1>1 DEF PoolInv, TypeOK, Count, Composer
<1>3. LockDiscipline'
  BY DEF PoolInv, TypeOK, LockDiscipline, WriterAhead, Count
<1>4. Idle' = Idle
  BY DEF Idle, Count
<1>5. /\ Users' = Users \union {g} /\ g \notin Users
      /\ held' = held
      /\ Taken' = Taken \union {poolCount}
  BY <1>1 DEF Users, Taken, Count, PoolInv, TypeOK
<1>6. ComposersConserved'
  BY <1>1, <1>4, <1>5 DEF PoolInv, ComposersConserved, Count
<1>7. ComposersExclusive'
  <2>1. poolCount \notin Idle \union Taken
    BY <1>1 DEF PoolInv, ComposersConserved
  <2>2. (Idle \intersect Taken)' = {}
    BY <1>4, <1>5, <2>1 DEF PoolInv, ComposersExclusive
  <2>3. \A h \in Users : held[h] # poolCount
    BY <2>1 DEF Taken
  <2>4. \A h, k \in Users' : h # k => held'[h] # held'[k]
    BY <1>1, <1>5, <2>3 DEF PoolInv, ComposersExclusive
  <2> QED BY <2>2, <2>4 DEF PoolInv, ComposersExclusive, Count
<1>8. ComposersCounted'
  <2>2. /\ IsFiniteSet(Users')
        /\ Cardinality(Users') = Cardinality(Users) + 1
    BY <1>5, FS_AddElement DEF PoolInv, ComposersCounted
  <2>3. Cardinality(Users) \in Nat /\ Len(pool) \in Nat
    BY FS_CardinalityType DEF PoolInv, ComposersCounted, TypeOK
  <2> QED BY <1>1, <2>2, <2>3 DEF PoolInv, ComposersCounted, Count
<1>9. LockedWaitOnlyWhenFull'
  BY DEF PoolInv, TypeOK, LockDiscipline, LockedWaitOnlyWhenFull,
         WriterAhead, Count
<1> QED BY <1>2, <1>3, <1>6, <1>7, <1>8, <1>9 DEF PoolInv

\* The head of the channel moves to the goroutine that receives it.
LEMMA ReceivePoolInv ==
    ASSUME PoolInv, NEW g \in Goroutine, Receive(g)
    PROVE  PoolInv'
<1> USE PoolMaxAssumption, NoComposerAssumption
<1> DEFINE c == Head(pool)
<1>1. /\ pool \in Seq(Composer) /\ pool # <<>>
      /\ c \in Composer /\ c # NoComposer
      /\ held[g] = NoComposer
  BY DEF PoolInv, TypeOK, LockDiscipline, Receive, Composer
<1>2. TypeOK'
  BY <1>1 DEF PoolInv, TypeOK, Receive
<1>3. LockDiscipline'
  BY <1>1 DEF PoolInv, TypeOK, LockDiscipline, WriterAhead, Receive
<1>4. /\ DOMAIN pool' = 1 .. Len(pool) - 1 /\ Len(pool) \in Nat \ {0}
      /\ Len(pool') = Len(pool) - 1
      /\ \A i \in DOMAIN pool' : pool'[i] = pool[i + 1] /\ i + 1 \in DOMAIN pool
      /\ c = pool[1] /\ 1 \in DOMAIN pool /\ DOMAIN pool = 1 .. Len(pool)
  BY <1>1 DEF Receive
<1>5. \A i, j \in DOMAIN pool : i # j => pool[i] # pool[j]
  BY DEF PoolInv, ComposersExclusive
<1>6. Idle' = Idle \ {c} /\ c \in Idle
  <2>1. c \in Idle
    BY <1>4 DEF Idle
  <2>2. \A x : x \in Idle' => x \in Idle \ {c}
    BY <1>4, <1>5 DEF Idle
  <2>3. ASSUME NEW x \in Idle \ {c} PROVE x \in Idle'
    <3>1. PICK i \in DOMAIN pool : x = pool[i]
      BY DEF Idle
    <3>2. i # 1 /\ i \in Nat
      BY <1>4, <3>1
    <3>3. i - 1 \in DOMAIN pool' /\ pool'[i - 1] = x
      BY <1>4, <3>1, <3>2
    <3> QED BY <3>3 DEF Idle
  <2> QED BY <2>1, <2>2, <2>3
<1>7. /\ Users' = Users \union {g} /\ g \notin Users
      /\ held'[g] = c /\ \A h \in Users : held'[h] = held[h]
  BY <1>1 DEF Users, Receive, PoolInv, TypeOK
<1>12. Taken' = Taken \union {c}
  BY <1>7 DEF Taken
<1>8. ComposersConserved'
  BY <1>6, <1>12 DEF PoolInv, ComposersConserved, Receive
<1>9. ComposersExclusive'
  <2>1. c \notin Taken
    BY <1>6 DEF PoolInv, ComposersExclusive
  <2>2. \A h \in Users : held[h] # c
    BY <2>1 DEF Taken
  <2>3. \A h, k \in Users' : h # k => held'[h] # held'[k]
    BY <1>7, <2>2 DEF PoolInv, ComposersExclusive
  <2>4. \A i, j \in DOMAIN pool' : i # j => pool'[i] # pool'[j]
    BY <1>4, <1>5
  <2>5. (Idle \intersect Taken)' = {}
    BY <1>6, <1>12, <2>1 DEF PoolInv, ComposersExclusive
  <2> QED BY <2>3, <2>4, <2>5 DEF ComposersExclusive
<1>10. ComposersCounted'
  <2>2. /\ IsFiniteSet(Users')
        /\ Cardinality(Users') = Cardinality(Users) + 1
    BY <1>7, FS_AddElement DEF PoolInv, ComposersCounted
  <2>3. Cardinality(Users) \in Nat
    BY FS_CardinalityType DEF PoolInv, ComposersCounted
  <2> QED BY <1>4, <2>2, <2>3 DEF PoolInv, ComposersCounted, Receive
<1>11. LockedWaitOnlyWhenFull'
  BY DEF PoolInv, TypeOK, LockDiscipline, LockedWaitOnlyWhenFull, Receive
<1> QED BY <1>2, <1>3, <1>8, <1>9, <1>10, <1>11 DEF PoolInv

\* The Composer of the goroutine goes to the end of the channel.
LEMMA PutPoolInv ==
    ASSUME PoolInv, NEW g \in Goroutine, Put(g)
    PROVE  PoolInv'
<1> USE PoolMaxAssumption, NoComposerAssumption
<1> DEFINE c == held[g]
<1>1. c # NoComposer /\ c \in Composer /\ pool \in Seq(Composer)
  BY DEF PoolInv, TypeOK, LockDiscipline, Put
<1>2. TypeOK'
  BY <1>1 DEF PoolInv, TypeOK, Put
<1>3. LockDiscipline'
  BY <1>1 DEF PoolInv, TypeOK, LockDiscipline, WriterAhead, Put
<1>4. /\ Len(pool) \in Nat /\ DOMAIN pool = 1 .. Len(pool)
      /\ Len(pool') = Len(pool) + 1 /\ DOMAIN pool' = 1 .. Len(pool) + 1
      /\ \A i \in DOMAIN pool : pool'[i] = pool[i]
      /\ pool'[Len(pool) + 1] = c
  BY <1>1 DEF Put
<1>5. Idle' = Idle \union {c}
  <2>1. \A x : x \in Idle' => x \in Idle \union {c}
    BY <1>4 DEF Idle
  <2>2. \A x : x \in Idle => x \in Idle'
    BY <1>4 DEF Idle
  <2>3. c \in Idle'
    BY <1>4 DEF Idle
  <2> QED BY <2>1, <2>2, <2>3
<1>6. /\ Users' = Users \ {g} /\ g \in Users
      /\ \A h \in Users' : held'[h] = held[h] /\ held[h] # c
  BY DEF Users, Put, PoolInv, TypeOK, ComposersExclusive
<1>7. c \in Taken /\ Taken' = Taken \ {c}
  BY <1>6 DEF Taken
<1>8. ComposersConserved'
  BY <1>5, <1>7 DEF PoolInv, ComposersConserved, Put
<1>9. ComposersExclusive'
  <2>1. c \notin Idle
    BY <1>7 DEF PoolInv, ComposersExclusive
  <2>2. \A h, k \in Users' : h # k => held'[h] # held'[k]
    BY <1>6 DEF PoolInv, ComposersExclusive
  <2>3. \A i \in DOMAIN pool : pool[i] # c
    BY <2>1 DEF Idle
  <2>4. \A i, j \in DOMAIN pool' : i # j => pool'[i] # pool'[j]
    BY <1>4, <2>3 DEF PoolInv, ComposersExclusive
  <2>5. (Idle \intersect Taken)' = {}
    BY <1>5, <1>7 DEF PoolInv, ComposersExclusive
  <2> QED BY <2>2, <2>4, <2>5 DEF ComposersExclusive
<1>10. ComposersCounted'
  <2>2. /\ IsFiniteSet(Users')
        /\ Cardinality(Users') = Cardinality(Users) - 1
    BY <1>6, FS_RemoveElement DEF PoolInv, ComposersCounted
  <2>3. Cardinality(Users) \in Nat
    BY FS_CardinalityType DEF PoolInv, ComposersCounted
  <2> QED BY <1>4, <2>2, <2>3 DEF PoolInv, ComposersCounted, Put
<1>11. LockedWaitOnlyWhenFull'
  BY DEF PoolInv, TypeOK, LockDiscipline, LockedWaitOnlyWhenFull, Put
<1> QED BY <1>2, <1>3, <1>8, <1>9, <1>10, <1>11 DEF PoolInv

\* PoolInv holds of every behaviour of the pool: types, the discipline of the
\* read-write mutex, and that every Composer is counted once.
THEOREM PoolInvariant == Spec => []PoolInv
<1>1. Init => PoolInv
  BY InitPoolInv
<1>2. PoolInv /\ [Next]_vars => PoolInv'
  <2> SUFFICES ASSUME PoolInv, [Next]_vars PROVE PoolInv'
    OBVIOUS
  <2>1. CASE UNCHANGED vars
    BY <2>1 DEF vars, PoolInv, TypeOK, LockDiscipline, WriterAhead,
                ComposersExclusive, ComposersConserved, ComposersCounted,
                LockedWaitOnlyWhenFull, Idle, Taken, Users
  <2>2. CASE Next
    <3> PICK g \in Goroutine : Call(g) \/ Get(g) \/ Put(g)
      BY <2>2 DEF Next
    <3>1. CASE Walk(g)
      BY <3>1, WalkPoolInv
    <3>2. CASE Count(g)
      BY <3>2, CountPoolInv
    <3>3. CASE Receive(g)
      BY <3>3, ReceivePoolInv
    <3>4. CASE Put(g)
      BY <3>4, PutPoolInv
    <3> QED BY <3>1, <3>2, <3>3, <3>4 DEF Get, Walk
  <2> QED BY <2>1, <2>2
<1> QED BY <1>1, <1>2, PTL DEF Spec

\* Two chaincode calls never run on the same Composer, and no Composer is
\* lost or handed out twice by the channel.
THEOREM PoolExclusive == Spec => [](ComposersExclusive /\ ComposersConserved)
<1>1. PoolInv => ComposersExclusive /\ ComposersConserved
  BY DEF PoolInv
<1> QED BY <1>1, PoolInvariant, PTL

\* The deferred Put of a finished call never waits: the channel has at least
\* as many free slots as there are Composers in use.
THEOREM PoolPutNeverBlocks == Spec => []PutNeverBlocks
<1>1. PoolInv => PutNeverBlocks
  <2> SUFFICES ASSUME PoolInv, NEW g \in Goroutine, pc[g] = "using"
               PROVE  CanSend
    BY DEF PutNeverBlocks
  <2>1. Cardinality(Users) \in Nat \ {0}
    <3>1. g \in Users /\ IsFiniteSet(Users)
      BY DEF Users, PoolInv, ComposersCounted
    <3> QED BY <3>1, FS_CardinalityType, FS_EmptySet
  <2>2. Len(pool) \in Nat /\ poolCount \in 0 .. PoolMax
    BY DEF PoolInv, TypeOK
  <2> QED BY <2>1, <2>2, PoolMaxAssumption DEF CanSend, PoolInv, ComposersCounted
<1> QED BY <1>1, PoolInvariant, PTL

=============================================================================
