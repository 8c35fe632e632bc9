---------------------------- MODULE HLFConnection ----------------------------
(***************************************************************************)
(* How a client learns what became of its transaction on Hyperledger       *)
(* Fabric: invokeChainCode of composer-connector-hlfv1/hlfconnection.js    *)
(* has the transaction endorsed, sends it to the orderer and, when the     *)
(* orderer has accepted it, waits for the commit notification of every     *)
(* event hub of the connection, each with a timeout of its own.            *)
(*                                                                         *)
(* The ordering service and the peers are external: the orderer appends    *)
(* to one chain, whenever it likes after it was sent the transaction, and  *)
(* every peer commits the chain in order, with the same validation codes,  *)
(* at its own pace.  An event hub is the stream of one peer's commits.     *)
(***************************************************************************)
EXTENDS Naturals, Sequences

CONSTANTS
    Tx,         \* the transactions submitted over this connection
    Peer,       \* the peers of the channel
    Hub,        \* the peers with an eventURL in the connection profile
    EventHub0   \* the first of them

\* HLFConnectionManager.connect refuses a profile without an event hub.
ASSUME HubAssumption == Hub \subseteq Peer /\ EventHub0 \in Hub

VARIABLES
    phase,      \* where each invocation is
    broadcast,  \* the transactions that the orderer has got and not ordered yet
    chain,      \* what was ordered: <<transaction, validation code>>
    height,     \* how much of the chain each peer has committed
    heard,      \* how much of it each event hub has told the connection
    connected,  \* the event hubs whose stream is up
    listeners,  \* per hub: the transactions it has a listener for
    timers,     \* per hub: the transactions whose timer is running
    promise,    \* per hub and transaction: the promise for its notification
    emitted     \* the transactions whose events the connection has emitted

ledger == <<broadcast, chain, height>>
hubs == <<heard, connected, listeners, timers, promise, emitted>>
vars == <<phase, broadcast, chain, height,
          heard, connected, listeners, timers, promise, emitted>>

Code == {"VALID", "INVALID"}

Init ==
    /\ phase = [t \in Tx |-> "new"]
    /\ broadcast = {}
    /\ chain = <<>>
    /\ height = [p \in Peer |-> 0]
    /\ heard = [h \in Hub |-> 0]
    /\ connected = Hub
    /\ listeners = [h \in Hub |-> {}]
    /\ timers = [h \in Hub |-> {}]
    /\ promise = [h \in Hub |-> [t \in Tx |-> "none"]]
    /\ emitted = <<>>

Ordered(t) == \E i \in DOMAIN chain : chain[i][1] = t

\* The transactions that p has committed with a code.
Committed(p, code) == {chain[i][1] : i \in {j \in 1 .. height[p] : chain[j][2] = code}}

-----------------------------------------------------------------------------
\* sendTransactionProposal: all endorsers answer with status 200, or one of
\* them does not.  Differences between their results are only logged.
Endorse(t) ==
    /\ phase[t] = "new"
    /\ phase' = [phase EXCEPT ![t] = "endorsed"]
    /\ UNCHANGED <<ledger, hubs>>

EndorsementFails(t) ==
    /\ phase[t] = "new"
    /\ phase' = [phase EXCEPT ![t] = "failed"]
    /\ UNCHANGED <<ledger, hubs>>

\* sendTransaction: the request is on its way to the orderer.
Send(t) ==
    /\ phase[t] = "endorsed"
    /\ phase' = [phase EXCEPT ![t] = "sent"]
    /\ broadcast' = broadcast \union {t}
    /\ UNCHANGED <<chain, height, hubs>>

\* Mutant: no timers.
WaitForever(t) ==
    /\ phase[t] = "sent"
    /\ t \in broadcast \/ Ordered(t)
    /\ phase' = [phase EXCEPT ![t] = "waiting"]
    /\ listeners' = [h \in Hub |-> listeners[h] \union {t}]
    /\ promise' = [h \in Hub |-> [promise[h] EXCEPT ![t] = "pending"]]
    /\ UNCHANGED <<ledger, heard, connected, timers, emitted>>

\* The orderer has answered SUCCESS: _waitForEvents starts a timer for each
\* hub and registers a listener with it.
WaitForEvents(t) ==
    /\ phase[t] = "sent"
    /\ t \in broadcast \/ Ordered(t)
    /\ phase' = [phase EXCEPT ![t] = "waiting"]
    /\ listeners' = [h \in Hub |-> listeners[h] \union {t}]
    /\ timers' = [h \in Hub |-> timers[h] \union {t}]
    /\ promise' = [h \in Hub |-> [promise[h] EXCEPT ![t] = "pending"]]
    /\ UNCHANGED <<ledger, heard, connected, emitted>>

\* The orderer's answer is another one, or lost: the invocation fails, and
\* the transaction may be ordered all the same.
SendFails(t) ==
    /\ phase[t] = "sent"
    /\ phase' = [phase EXCEPT ![t] = "failed"]
    /\ broadcast' \in {broadcast, broadcast \ {t}}
    /\ UNCHANGED <<chain, height, hubs>>

\* Mutant: a promise that is settled is settled again.
SettleAgain(h, t, outcome) == promise' = [promise EXCEPT ![h][t] = outcome]

\* A promise is settled once.
Settle(h, t, outcome) ==
    promise' = [promise EXCEPT ![h][t] = IF @ = "pending" THEN outcome ELSE @]

\* The listener of hub h for t, if there is one, stops the timer, unregisters
\* itself and settles the promise.
Notify(h, t, code) ==
    IF t \in listeners[h]
    THEN /\ listeners' = [listeners EXCEPT ![h] = @ \ {t}]
         /\ timers' = [timers EXCEPT ![h] = @ \ {t}]
         /\ Settle(h, t, code)
    ELSE UNCHANGED <<listeners, timers, promise>>

\* Mutants: the timer goes on; every hub passes events on.
HearTimerOn(h) ==
    LET t == chain[heard[h] + 1][1] IN
    /\ h \in connected
    /\ heard[h] < height[h]
    /\ heard' = [heard EXCEPT ![h] = @ + 1]
    /\ t \in listeners[h]
    /\ listeners' = [listeners EXCEPT ![h] = @ \ {t}]
    /\ Settle(h, t, chain[heard[h] + 1][2])
    /\ UNCHANGED <<phase, ledger, connected, timers, emitted>>
HearEvents(h) ==
    LET t == chain[heard[h] + 1][1] IN
    /\ h \in connected
    /\ heard[h] < height[h]
    /\ heard' = [heard EXCEPT ![h] = @ + 1]
    /\ Notify(h, t, chain[heard[h] + 1][2])
    /\ emitted' = Append(emitted, t)
    /\ UNCHANGED <<phase, ledger, connected>>

\* Event hub h tells of the next transaction that its peer has committed.
\* The listener on the first hub passes on the events that the transaction
\* has emitted.  It does not look at the code, and whether Fabric delivers
\* the events of an invalid transaction is left open here.
Hear(h) ==
    LET t == chain[heard[h] + 1][1]
        code == chain[heard[h] + 1][2]
    IN
    /\ h \in connected
    /\ heard[h] < height[h]
    /\ heard' = [heard EXCEPT ![h] = @ + 1]
    /\ Notify(h, t, code)
    /\ \/ h = EventHub0 /\ emitted' = Append(emitted, t)
       \/ (h # EventHub0 \/ code = "INVALID") /\ UNCHANGED emitted
    /\ UNCHANGED <<phase, ledger, connected>>

\* Mutant: the timer says that the peer has rejected the transaction.
TimeoutRejects(h, t) ==
    /\ t \in timers[h]
    /\ timers' = [timers EXCEPT ![h] = @ \ {t}]
    /\ Settle(h, t, "INVALID")
    /\ UNCHANGED <<phase, ledger, heard, connected, listeners, emitted>>

\* The timer rejects the promise; the listener stays.
Timeout(h, t) ==
    /\ t \in timers[h]
    /\ timers' = [timers EXCEPT ![h] = @ \ {t}]
    /\ Settle(h, t, "TIMEOUT")
    /\ UNCHANGED <<phase, ledger, heard, connected, listeners, emitted>>

\* A stream breaks.  Nobody has asked to be told, and nothing reconnects it.
HubFails(h) ==
    /\ h \in connected
    /\ connected' = connected \ {h}
    /\ UNCHANGED <<phase, ledger, heard, listeners, timers, promise, emitted>>

\* disconnect: every stream is closed; what is pending is left to its timers.
Disconnect ==
    /\ connected # {}
    /\ connected' = {}
    /\ UNCHANGED <<phase, ledger, heard, listeners, timers, promise, emitted>>

-----------------------------------------------------------------------------
\* Fabric.
Order(t, code) ==
    /\ t \in broadcast
    /\ broadcast' = broadcast \ {t}
    /\ chain' = Append(chain, <<t, code>>)
    /\ UNCHANGED <<phase, height, hubs>>

CommitBlock(p) ==
    /\ height[p] < Len(chain)
    /\ height' = [height EXCEPT ![p] = @ + 1]
    /\ UNCHANGED <<phase, broadcast, chain, hubs>>

Invoke(t) ==
    \/ Endorse(t) \/ EndorsementFails(t) \/ Send(t)
    \/ WaitForEvents(t) \/ SendFails(t)
    \/ \E h \in Hub : Timeout(h, t)

Next ==
    \/ \E t \in Tx : Invoke(t) \/ \E code \in Code : Order(t, code)
    \/ \E h \in Hub : Hear(h) \/ HubFails(h)
    \/ \E p \in Peer : CommitBlock(p)
    \/ Disconnect

Spec == Init /\ [][Next]_vars

\* Promises are resolved, requests time out and so are answered one way or
\* another, timers go off.  Nothing is assumed of Fabric or of the streams.
FairSpec ==
    Spec /\ \A t \in Tx :
              /\ WF_vars(Endorse(t) \/ EndorsementFails(t) \/ Send(t)
                         \/ WaitForEvents(t) \/ SendFails(t))
              /\ \A h \in Hub : WF_vars(Timeout(h, t))

-----------------------------------------------------------------------------
Outcome == {"none", "pending", "TIMEOUT"} \union Code

TypeOK ==
    /\ phase \in [Tx -> {"new", "endorsed", "sent", "waiting", "failed"}]
    /\ broadcast \subseteq Tx
    /\ chain \in Seq(Tx \X Code)
    /\ height \in [Peer -> Nat]
    /\ heard \in [Hub -> Nat]
    /\ connected \subseteq Hub
    /\ listeners \in [Hub -> SUBSET Tx]
    /\ timers \in [Hub -> SUBSET Tx]
    /\ promise \in [Hub -> [Tx -> Outcome]]
    /\ emitted \in Seq(Tx)

\* Mutant: Promise.race.
ResolvedByOne(t) == phase[t] = "waiting" /\ \E h \in Hub : promise[h][t] = "VALID"

\* Promise.all: resolved with the last promise, rejected with the first.
Resolved(t) == phase[t] = "waiting" /\ \A h \in Hub : promise[h][t] = "VALID"
Rejected(t) == \/ phase[t] = "failed"
               \/ \E h \in Hub : promise[h][t] \in {"INVALID", "TIMEOUT"}

\* When submitTransaction returns, the transaction has been committed by
\* every peer that the connection listens to: if the peer that it queries is
\* one of them, the client reads its own writes.
ResolvedIsCommitted ==
    \A t \in Tx : Resolved(t) => \A h \in Hub : t \in Committed(h, "VALID")

\* "Peer has rejected transaction" is said only of one that no peer applies,
\* now or later: peers never tell a client different stories.
RejectionIsDefinite ==
    \A t \in Tx : (\E h \in Hub : promise[h][t] = "INVALID") =>
        \A p \in Peer : t \notin Committed(p, "VALID")

\* A timer runs exactly as long as its promise is pending, so that no timer
\* goes off for a transaction that was heard of; a listener is left behind
\* only where a timer has gone off.
ListenersAccounted ==
    \A h \in Hub, t \in Tx :
        /\ t \in timers[h] <=> promise[h][t] = "pending"
        /\ t \in listeners[h] => promise[h][t] \in {"pending", "TIMEOUT"}

\* The answer to a client is final, whatever hubs and timers do after it.
AnswerFinal ==
    [][\A t \in Tx : /\ Resolved(t) => Resolved(t)'
                     /\ Rejected(t) => Rejected(t)' /\ ~ Resolved(t)']_vars

\* Applications get the events of a transaction once, in the order of the
\* chain, and miss none of a valid one as long as the stream is up, however
\* many event hubs the connection has.
Position(t) == CHOOSE i \in DOMAIN chain : chain[i][1] = t
EventsOnce ==
    /\ \A i, j \in DOMAIN emitted :
          i < j => Position(emitted[i]) < Position(emitted[j])
    /\ \A i \in 1 .. heard[EventHub0] :
          chain[i][2] = "VALID" => \E j \in DOMAIN emitted : emitted[j] = chain[i][1]

\* Why the answers are right: hubs lag behind their peers, peers behind the
\* chain; a transaction is ordered once; and an answer is found in the chain.
ChainInv ==
    /\ \A p \in Peer : height[p] <= Len(chain)
    /\ \A h \in Hub : heard[h] <= height[h]
    /\ \A i, j \in DOMAIN chain : chain[i][1] = chain[j][1] => i = j
    /\ \A t \in Tx : Ordered(t) =>
          t \notin broadcast /\ phase[t] \notin {"new", "endorsed"}
    /\ \A t \in broadcast : phase[t] \notin {"new", "endorsed"}

AnswerInv ==
    \A h \in Hub, t \in Tx :
        promise[h][t] \in Code =>
            \E i \in 1 .. heard[h] : chain[i] = <<t, promise[h][t]>>

ConnectionInv == TypeOK /\ ChainInv /\ AnswerInv

\* Every invocation is answered, even if the ordering service, the peers or
\* the event hubs never are heard of again.
Answered == \A t \in Tx : phase[t] = "endorsed" ~> Resolved(t) \/ Rejected(t)

=============================================================================
