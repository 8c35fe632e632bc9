---------------------------- MODULE ComposerPool ----------------------------
(***************************************************************************)
(* The pool of Composer objects (each one a JavaScript virtual machine)    *)
(* of the Hyperledger Fabric chaincode, composer-runtime-hlfv1:            *)
(* composerpool.go, and the way chaincode.go uses it.  Every chaincode     *)
(* call runs on a goroutine of its own that Gets a Composer, runs the      *)
(* JavaScript engine on it and Puts it back.                               *)
(*                                                                         *)
(* A Composer is its Index.  The mutex is Go's sync.RWMutex, the pool is a *)
(* buffered channel: both are queues that the Go runtime serves fairly.    *)
(***************************************************************************)
EXTENDS Integers, Sequences, FiniteSets

CONSTANTS
    Goroutine,   \* the goroutines that run chaincode calls
    PoolMax,     \* the size the pool is created with
    NoComposer   \* the Composer of a goroutine that has none

Composer == 0 .. PoolMax - 1

ASSUME PoolMaxAssumption == PoolMax \in Nat \ {0}
ASSUME NoComposerAssumption == NoComposer \notin Nat

VARIABLES
    pool,        \* cp.Pool, the channel: the idle Composers in order
    poolCount,   \* cp.PoolCount, the Composers created so far
    readers,     \* the goroutines that hold cp.PoolMutex for reading
    writers,     \* the goroutines that hold cp.PoolMutex for writing
    pc,          \* where each goroutine is
    held         \* the Composer each goroutine has taken

vars == <<pool, poolCount, readers, writers, pc, held>>

Init ==
    /\ pool = <<>>
    /\ poolCount = 0
    /\ readers = {}
    /\ writers = {}
    /\ pc = [g \in Goroutine |-> "idle"]
    /\ held = [g \in Goroutine |-> NoComposer]

-----------------------------------------------------------------------------
\* The peer calls the chaincode, on a goroutine of its own.
Call(g) ==
    /\ pc[g] = "idle"
    /\ pc' = [pc EXCEPT ![g] = "rlock"]
    /\ UNCHANGED <<pool, poolCount, readers, writers, held>>

\* sync.RWMutex: a writer first becomes the one writer that waits, which keeps
\* new readers out, and then waits for the readers that are in to leave.
WriterAhead == writers \union {g \in Goroutine : pc[g] = "drain"}

\* Get begins with cp.PoolMutex.RLock().
RLock(g) ==
    /\ pc[g] = "rlock"
    /\ WriterAhead = {}
    /\ readers' = readers \union {g}
    /\ pc' = [pc EXCEPT ![g] = "check"]
    /\ UNCHANGED <<pool, poolCount, writers, held>>

\* Mutant: the write lock is not taken before the count is used.
SeeRoomUnlocked(g) ==
    /\ pc[g] = "check"
    /\ poolCount < PoolMax
    /\ readers' = readers \ {g}
    /\ pc' = [pc EXCEPT ![g] = "recheck"]
    /\ UNCHANGED <<pool, poolCount, writers, held>>

\* Under the read lock there is room for one more Composer; the read lock is
\* released before the write lock is asked for.
SeeRoom(g) ==
    /\ pc[g] = "check"
    /\ poolCount < PoolMax
    /\ readers' = readers \ {g}
    /\ pc' = [pc EXCEPT ![g] = "lock"]
    /\ UNCHANGED <<pool, poolCount, writers, held>>

\* Mutant: poll for room to create a Composer instead of waiting for one.
SeeFullRetry(g) ==
    /\ pc[g] = "check"
    /\ ~ (poolCount < PoolMax)
    /\ readers' = readers \ {g}
    /\ pc' = [pc EXCEPT ![g] = "rlock"]
    /\ UNCHANGED <<pool, poolCount, writers, held>>

SeeFull(g) ==
    /\ pc[g] = "check"
    /\ ~ (poolCount < PoolMax)
    /\ readers' = readers \ {g}
    /\ pc' = [pc EXCEPT ![g] = "receive"]
    /\ UNCHANGED <<pool, poolCount, writers, held>>

AskLock(g) ==
    /\ pc[g] = "lock"
    /\ WriterAhead = {}
    /\ pc' = [pc EXCEPT ![g] = "drain"]
    /\ UNCHANGED <<pool, poolCount, readers, writers, held>>

Lock(g) ==
    /\ pc[g] = "drain"
    /\ readers = {}
    /\ writers' = {g}
    /\ pc' = [pc EXCEPT ![g] = "recheck"]
    /\ UNCHANGED <<pool, poolCount, readers, held>>

\* Mutant: the count is not checked again under the write lock.
NumberUnchecked(g) ==
    /\ pc[g] = "recheck"
    /\ held' = [held EXCEPT ![g] = poolCount]
    /\ pc' = [pc EXCEPT ![g] = "count"]
    /\ UNCHANGED <<pool, poolCount, readers, writers>>

\* Still room under the write lock: NewComposer, numbered with the count.
Number(g) ==
    /\ pc[g] = "recheck"
    /\ poolCount < PoolMax
    /\ held' = [held EXCEPT ![g] = poolCount]
    /\ pc' = [pc EXCEPT ![g] = "count"]
    /\ UNCHANGED <<pool, poolCount, readers, writers>>

\* The new Composer is counted, and Unlock runs on return.
Count(g) ==
    /\ pc[g] = "count"
    /\ poolCount' = poolCount + 1
    /\ writers' = writers \ {g}
    /\ pc' = [pc EXCEPT ![g] = "using"]
    /\ UNCHANGED <<pool, readers, held>>

\* Somebody else took the last place between RUnlock and Lock.  The deferred
\* Unlock has not run: the goroutine waits on the channel with the lock held.
LoseRace(g) ==
    /\ pc[g] = "recheck"
    /\ ~ (poolCount < PoolMax)
    /\ pc' = [pc EXCEPT ![g] = "receive"]
    /\ UNCHANGED <<pool, poolCount, readers, writers, held>>

\* result = <-cp.Pool, then the deferred Unlock of a goroutine that locked.
Receive(g) ==
    /\ pc[g] = "receive"
    /\ pool # <<>>
    /\ held' = [held EXCEPT ![g] = Head(pool)]
    /\ pool' = Tail(pool)
    /\ writers' = writers \ {g}
    /\ pc' = [pc EXCEPT ![g] = "using"]
    /\ UNCHANGED <<poolCount, readers>>

\* The send of Put can only happen when the channel has a free slot.
CanSend == Len(pool) < PoolMax

\* The engine has answered (or failed): the deferred Put of the chaincode.
Put(g) ==
    /\ pc[g] = "using"
    /\ CanSend
    /\ pool' = Append(pool, held[g])
    /\ held' = [held EXCEPT ![g] = NoComposer]
    /\ pc' = [pc EXCEPT ![g] = "idle"]
    /\ UNCHANGED <<poolCount, readers, writers>>

Get(g) ==
    \/ RLock(g) \/ SeeRoom(g) \/ SeeFull(g)
    \/ AskLock(g) \/ Lock(g)
    \/ Number(g) \/ LoseRace(g) \/ Count(g) \/ Receive(g)

Next == \E g \in Goroutine : Call(g) \/ Get(g) \/ Put(g)

\* sync.RWMutex serves readers and writers alternately and a channel serves
\* its receivers in order, so a goroutine that can go on again and again does.
Fairness ==
    \A g \in Goroutine :
        /\ WF_vars(SeeRoom(g) \/ SeeFull(g) \/ Lock(g))
        /\ WF_vars(Number(g) \/ LoseRace(g) \/ Count(g))
        /\ WF_vars(Put(g))
        /\ SF_vars(RLock(g))
        /\ SF_vars(AskLock(g))
        /\ SF_vars(Receive(g))

Spec == Init /\ [][Next]_vars
FairSpec == Spec /\ Fairness

-----------------------------------------------------------------------------
TypeOK ==
    /\ pool \in Seq(Composer)
    /\ poolCount \in 0 .. PoolMax
    /\ readers \subseteq Goroutine
    /\ writers \subseteq Goroutine
    /\ pc \in [Goroutine -> {"idle", "rlock", "check", "lock", "drain",
                              "recheck", "count", "receive", "using"}]
    /\ held \in [Goroutine -> Composer \union {NoComposer}]

Idle == {pool[i] : i \in DOMAIN pool}
Users == {g \in Goroutine : pc[g] = "using"}
Taken == {held[g] : g \in Users}

\* A Composer has one JavaScript VM and one stub (Container.setStub), so two
\* chaincode calls on the same Composer would mix their world states: a
\* Composer is with one goroutine, or idle in one place of the channel.
ComposersExclusive ==
    /\ \A g, h \in Users : g # h => held[g] # held[h]
    /\ \A i, j \in DOMAIN pool : i # j => pool[i] # pool[j]
    /\ Idle \intersect Taken = {}

\* Every Composer that was created is still in use or idle: none leaks, so
\* the pool never shrinks below the number of calls it can serve at once.
ComposersConserved == Idle \union Taken = 0 .. poolCount - 1

\* The deferred Put of a finished chaincode call never waits for a slot of
\* the channel (it would hold up the answer to the peer).
PutNeverBlocks == \A g \in Goroutine : pc[g] = "using" => CanSend

\* A goroutine that waits on the channel while it holds the write lock stops
\* every later Get: it only ever does so when no Composer can be created.
LockedWaitOnlyWhenFull ==
    \A g \in writers : pc[g] = "receive" => poolCount = PoolMax

\* The invariant behind the others: who may be between Lock and Unlock ...
LockDiscipline ==
    /\ \A g, h \in WriterAhead : g = h
    /\ \A g \in writers : pc[g] \in {"recheck", "count", "receive"}
    /\ \A g \in Goroutine : pc[g] \in {"recheck", "count"} => g \in writers
    /\ \A g \in Goroutine :
          pc[g] = "count" => poolCount < PoolMax /\ held[g] = poolCount
    /\ \A g \in Goroutine :
          pc[g] \in {"count", "using"} <=> held[g] # NoComposer

\* ... and every Composer is counted once, with its user or in the channel.
ComposersCounted ==
    /\ IsFiniteSet(Users)
    /\ Cardinality(Users) + Len(pool) = poolCount

PoolInv ==
    /\ TypeOK
    /\ LockDiscipline
    /\ ComposersExclusive
    /\ ComposersConserved
    /\ ComposersCounted
    /\ LockedWaitOnlyWhenFull

\* A call that enters Get is served, even behind a goroutine that waits on
\* the channel with the write lock held: Put takes no lock.
CallsServed == \A g \in Goroutine : pc[g] = "rlock" ~> pc[g] = "using"

=============================================================================
