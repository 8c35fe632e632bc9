------------------------- MODULE HLFConnectionProofs -------------------------
(***************************************************************************)
(* Proofs about the Fabric connector.                                      *)
(*                                                                         *)
(* Commit notifications (HLFConnection), for every set of transactions,    *)
(* peers and event hubs: an invocation that is answered with success has   *)
(* been committed on every peer listened to, one that is said to have been *)
(* rejected is applied by no peer, ever, and answers are final; listeners, *)
(* timers and promises agree; events are passed on once.                   *)
(***************************************************************************)
EXTENDS HLFConnection, TLAPS

LEMMA InitConnectionInv == Init => ConnectionInv
BY HubAssumption
   DEF Init, ConnectionInv, TypeOK, ChainInv, AnswerInv, Ordered, Outcome, Code

\* What happens on the ledger's side leaves the connection alone, and what
\* the connection does leaves the chain alone.
LEMMA OrderInv ==
    ASSUME ConnectionInv, NEW t \in Tx, NEW code \in Code, Order(t, code)
    PROVE  ConnectionInv'
<1> USE DEF ConnectionInv, Order, hubs
<1>1. /\ chain \in Seq(Tx \X Code) /\ chain' = Append(chain, <<t, code>>)
      /\ chain' \in Seq(Tx \X Code)
      /\ Len(chain') = Len(chain) + 1
      /\ DOMAIN chain = 1 .. Len(chain) /\ DOMAIN chain' = 1 .. Len(chain')
      /\ \A i \in DOMAIN chain : chain'[i] = chain[i]
      /\ chain'[Len(chain) + 1] = <<t, code>>
  BY DEF TypeOK
<1>2. TypeOK'
  BY <1>1 DEF TypeOK
<1>3. ~ Ordered(t) /\ phase[t] \notin {"new", "endorsed"}
  BY DEF ChainInv, TypeOK
<1>4. ChainInv'
  <2>1. \A p \in Peer : height'[p] <= Len(chain')
    BY <1>1 DEF ChainInv, TypeOK
  <2>2. \A h \in Hub : heard'[h] <= height'[h]
    BY DEF ChainInv
  <2>3. \A i, j \in DOMAIN chain' : chain'[i][1] = chain'[j][1] => i = j
    <3>1. \A i \in DOMAIN chain : chain'[i][1] # t
      BY <1>1, <1>3 DEF Ordered
    <3> QED BY <1>1, <3>1 DEF ChainInv
  <2>4. \A u \in Tx : Ordered(u)' => u = t \/ Ordered(u)
    BY <1>1 DEF Ordered
  <2> QED BY <1>3, <2>1, <2>2, <2>3, <2>4 DEF ChainInv
<1>5. AnswerInv'
  <2> SUFFICES ASSUME NEW h \in Hub, NEW u \in Tx, promise'[h][u] \in Code
               PROVE  \E i \in 1 .. heard'[h] : chain'[i] = <<u, promise'[h][u]>>
    BY DEF AnswerInv
  <2>1. PICK i \in 1 .. heard[h] : chain[i] = <<u, promise[h][u]>>
    BY DEF AnswerInv
  <2>2. i \in DOMAIN chain
    BY <1>1, HubAssumption DEF ChainInv, TypeOK
  <2> QED BY <1>1, <2>1, <2>2
<1> QED BY <1>2, <1>4, <1>5

\* Answers last while the hubs and the chain stand still.
LEMMA AnswerFrame ==
    ASSUME AnswerInv, heard' = heard, chain' = chain,
           \A h \in Hub, u \in Tx :
              promise'[h][u] \in Code => promise'[h][u] = promise[h][u]
    PROVE  AnswerInv'
<1> SUFFICES ASSUME NEW h \in Hub, NEW u \in Tx, promise'[h][u] \in Code
             PROVE  \E i \in 1 .. heard'[h] : chain'[i] = <<u, promise'[h][u]>>
  BY DEF AnswerInv
<1>1. promise'[h][u] = promise[h][u]
  OBVIOUS
<1>2. PICK i \in 1 .. heard[h] : chain[i] = <<u, promise[h][u]>>
  BY <1>1 DEF AnswerInv
<1> QED BY <1>1, <1>2

LEMMA InvokeInv ==
    ASSUME ConnectionInv, NEW t \in Tx, Invoke(t)
    PROVE  ConnectionInv'
<1> USE DEF ConnectionInv, hubs, ledger
<1>1. CASE Endorse(t) \/ EndorsementFails(t)
  <2>1. TypeOK'
    BY <1>1 DEF Endorse, EndorsementFails, TypeOK
  <2>2. ChainInv'
    BY <1>1 DEF Endorse, EndorsementFails, TypeOK, ChainInv, Ordered
  <2>3. AnswerInv'
    BY <1>1, AnswerFrame DEF Endorse, EndorsementFails
  <2> QED BY <2>1, <2>2, <2>3
<1>2. CASE Send(t)
  <2>1. TypeOK'
    BY <1>2 DEF Send, TypeOK
  <2>2. ChainInv'
    BY <1>2 DEF Send, TypeOK, ChainInv, Ordered
  <2>3. AnswerInv'
    BY <1>2, AnswerFrame DEF Send
  <2> QED BY <2>1, <2>2, <2>3
<1>3. CASE SendFails(t)
  <2>1. TypeOK'
    BY <1>3 DEF SendFails, TypeOK
  <2>2. ChainInv'
    BY <1>3 DEF SendFails, TypeOK, ChainInv, Ordered
  <2>3. AnswerInv'
    BY <1>3, AnswerFrame DEF SendFails
  <2> QED BY <2>1, <2>2, <2>3
<1>4. CASE WaitForEvents(t)
  <2>1. TypeOK'
    BY <1>4 DEF WaitForEvents, TypeOK, Outcome
  <2>2. ChainInv'
    BY <1>4 DEF WaitForEvents, TypeOK, ChainInv, Ordered
  <2>3. \A h \in Hub, u \in Tx :
           promise'[h][u] \in Code => promise'[h][u] = promise[h][u]
    BY <1>4 DEF WaitForEvents, TypeOK, Code
  <2>4. AnswerInv'
    BY <1>4, <2>3, AnswerFrame DEF WaitForEvents
  <2> QED BY <2>1, <2>2, <2>4
<1>5. ASSUME NEW h \in Hub, Timeout(h, t) PROVE ConnectionInv'
  <2>1. TypeOK'
    BY <1>5 DEF Timeout, Settle, TypeOK, Outcome
  <2>2. ChainInv'
    BY <1>5 DEF Timeout, ChainInv, Ordered
  <2>3. \A g \in Hub, u \in Tx :
           promise'[g][u] \in Code => promise'[g][u] = promise[g][u]
    BY <1>5 DEF Timeout, Settle, TypeOK, Code
  <2>4. AnswerInv'
    BY <1>5, <2>3, AnswerFrame DEF Timeout
  <2> QED BY <2>1, <2>2, <2>4
<1> QED BY <1>1, <1>2, <1>3, <1>4, <1>5 DEF Invoke

LEMMA HearInv ==
    ASSUME ConnectionInv, NEW h \in Hub, Hear(h)
    PROVE  ConnectionInv'
<1> DEFINE n == heard[h] + 1
           t == chain[n][1]
           code == chain[n][2]
<1>1. /\ n \in DOMAIN chain /\ n \in Nat /\ n <= height[h]
      /\ chain[n] \in Tx \X Code
  <2>1. h \in Peer
    BY HubAssumption
  <2> QED BY <2>1 DEF Hear, ConnectionInv, TypeOK, ChainInv
<1>2. t \in Tx /\ code \in Code /\ chain[n] = <<t, code>>
  BY <1>1
<1>3. /\ heard' = [heard EXCEPT ![h] = n]
      /\ Notify(h, t, code)
      /\ UNCHANGED <<phase, ledger, connected>>
      /\ emitted' = emitted \/ emitted' = Append(emitted, t)
  BY DEF Hear
<1> HIDE DEF n, t, code
<1>4. /\ listeners' \in [Hub -> SUBSET Tx]
      /\ timers' \in [Hub -> SUBSET Tx]
      /\ promise' \in [Hub -> [Tx -> Outcome]]
      /\ \A g \in Hub, u \in Tx :
            promise'[g][u] # promise[g][u] => g = h /\ u = t /\ promise'[g][u] = code
  <2> USE DEF ConnectionInv, TypeOK
  <2>1. CASE t \in listeners[h]
    <3>1. /\ listeners' = [listeners EXCEPT ![h] = @ \ {t}]
          /\ timers' = [timers EXCEPT ![h] = @ \ {t}]
          /\ promise' = [promise EXCEPT ![h][t] = IF @ = "pending" THEN code ELSE @]
      BY <1>3, <2>1 DEF Notify, Settle
    <3>2. code \in Outcome
      BY <1>2 DEF Outcome
    <3>3. promise' \in [Hub -> [Tx -> Outcome]]
      BY <1>2, <3>1, <3>2
    <3>4. \A g \in Hub, u \in Tx :
             promise'[g][u] # promise[g][u] => g = h /\ u = t /\ promise'[g][u] = code
      BY <1>2, <3>1
    <3> QED BY <3>1, <3>3, <3>4
  <2>2. CASE t \notin listeners[h]
    BY <1>3, <2>2 DEF Notify
  <2> QED BY <2>1, <2>2
<1>5. emitted' \in Seq(Tx)
  <2>1. emitted \in Seq(Tx)
    BY DEF ConnectionInv, TypeOK
  <2>2. Append(emitted, t) \in Seq(Tx)
    BY <1>2, <2>1
  <2> QED BY <1>3, <2>1, <2>2
<1>6. TypeOK'
  BY <1>1, <1>3, <1>4, <1>5 DEF ConnectionInv, TypeOK, ledger
<1>7. ChainInv'
  BY <1>1, <1>3 DEF ConnectionInv, TypeOK, ChainInv, Ordered, ledger
<1>8. AnswerInv'
  <2> SUFFICES ASSUME NEW g \in Hub, NEW u \in Tx, promise'[g][u] \in Code
               PROVE  \E i \in 1 .. heard'[g] : chain'[i] = <<u, promise'[g][u]>>
    BY DEF AnswerInv
  <2>1. heard'[g] >= heard[g] /\ heard[g] \in Nat /\ heard'[g] \in Nat /\ heard'[h] = n
    BY <1>1, <1>3, <1>6 DEF ConnectionInv, TypeOK, n
  <2>2. chain' = chain
    BY <1>3 DEF ledger
  <2>3. CASE promise'[g][u] = promise[g][u]
    <3>1. PICK i \in 1 .. heard[g] : chain[i] = <<u, promise[g][u]>>
      BY <2>3 DEF ConnectionInv, AnswerInv
    <3> QED BY <2>1, <2>2, <2>3, <3>1
  <2>4. CASE promise'[g][u] # promise[g][u]
    <3>1. g = h /\ u = t /\ promise'[g][u] = code
      BY <1>4, <2>4
    <3>2. n \in 1 .. n
      BY <2>1, <3>1 DEF n
    <3> QED BY <1>2, <2>1, <2>2, <3>1, <3>2
  <2> QED BY <2>3, <2>4
<1> QED BY <1>6, <1>7, <1>8 DEF ConnectionInv

LEMMA StepConnectionInv == ConnectionInv /\ [Next]_vars => ConnectionInv'
<1> SUFFICES ASSUME ConnectionInv, [Next]_vars PROVE ConnectionInv'
  OBVIOUS
<1>1. ASSUME NEW t \in Tx, Invoke(t) PROVE ConnectionInv'
  BY <1>1, InvokeInv
<1>2. ASSUME NEW t \in Tx, NEW code \in Code, Order(t, code) PROVE ConnectionInv'
  BY <1>2, OrderInv
<1>3. ASSUME NEW h \in Hub, Hear(h) PROVE ConnectionInv'
  BY <1>3, HearInv
<1>4. ASSUME NEW h \in Hub, HubFails(h) PROVE ConnectionInv'
  BY <1>4 DEF HubFails, ConnectionInv, TypeOK, ChainInv, AnswerInv, Ordered, ledger
<1>5. ASSUME NEW p \in Peer, CommitBlock(p) PROVE ConnectionInv'
  <2>1. TypeOK'
    BY <1>5 DEF CommitBlock, ConnectionInv, TypeOK, hubs
  <2>3. AnswerInv'
    BY <1>5, AnswerFrame DEF CommitBlock, ConnectionInv, hubs
  <2>2. ChainInv'
    BY <1>5, HubAssumption DEF CommitBlock, ConnectionInv, TypeOK, ChainInv, Ordered, hubs
  <2> QED BY <2>1, <2>2, <2>3 DEF ConnectionInv
<1>6. CASE Disconnect
  BY <1>6 DEF Disconnect, ConnectionInv, TypeOK, ChainInv, AnswerInv, Ordered, ledger
<1>7. CASE UNCHANGED vars
  BY <1>7 DEF vars, ConnectionInv, TypeOK, ChainInv, AnswerInv, Ordered
<1> QED BY <1>1, <1>2, <1>3, <1>4, <1>5, <1>6, <1>7 DEF Next

\* The chain holds each transaction once, and every answer is in the part of
\* it that the hub which gave the answer has seen committed.
THEOREM ConnectionInvariant == Spec => []ConnectionInv
BY InitConnectionInv, StepConnectionInv, PTL DEF Spec

-----------------------------------------------------------------------------
\* An answer of hub h is what the peer of h has committed.
LEMMA AnswersCommitted ==
    ASSUME ConnectionInv, NEW h \in Hub, NEW t \in Tx, NEW code \in Code,
           promise[h][t] = code
    PROVE  /\ t \in Committed(h, code)
           /\ \E i \in DOMAIN chain : chain[i] = <<t, code>>
<1>1. PICK i \in 1 .. heard[h] : chain[i] = <<t, code>>
  BY DEF ConnectionInv, AnswerInv
<1>2. i \in 1 .. height[h] /\ i \in DOMAIN chain
  BY HubAssumption DEF ConnectionInv, TypeOK, ChainInv
<1> QED BY <1>1, <1>2 DEF Committed

\* A transaction that submitTransaction has returned for is committed on
\* every peer with an event hub.
THEOREM ConnectionResolvedIsCommitted == Spec => []ResolvedIsCommitted
<1>1. ConnectionInv => ResolvedIsCommitted
  BY AnswersCommitted DEF ResolvedIsCommitted, Resolved, Code
<1> QED BY <1>1, ConnectionInvariant, PTL

\* A transaction that a peer is said to have rejected is applied by no peer.
THEOREM ConnectionRejectionIsDefinite == Spec => []RejectionIsDefinite
<1>1. ConnectionInv => RejectionIsDefinite
  <2> SUFFICES ASSUME ConnectionInv, NEW t \in Tx, NEW h \in Hub,
                      promise[h][t] = "INVALID",
                      NEW p \in Peer, t \in Committed(p, "VALID")
               PROVE  FALSE
    BY DEF RejectionIsDefinite
  <2>1. PICK i \in DOMAIN chain : chain[i] = <<t, "INVALID">>
    BY AnswersCommitted DEF Code
  <2>2. PICK j \in 1 .. height[p] : chain[j][2] = "VALID" /\ chain[j][1] = t
    BY DEF Committed
  <2>3. j \in DOMAIN chain
    BY DEF ConnectionInv, TypeOK, ChainInv
  <2>4. i = j
    BY <2>1, <2>2, <2>3 DEF ConnectionInv, ChainInv
  <2> QED BY <2>1, <2>2, <2>4
<1> QED BY <1>1, ConnectionInvariant, PTL

-----------------------------------------------------------------------------
\* Only an invocation that waits for notifications has promises, and each of them
\* its timer and its listener.
ListenInv ==
    /\ ListenersAccounted
    /\ \A h \in Hub, t \in Tx : phase[t] # "waiting" => promise[h][t] = "none"

LEMMA ListenInit == Init => ListenInv
BY DEF Init, ListenInv, ListenersAccounted

\* What a transaction is told of: a step of hub h changes what it has for one
\* transaction t that waits, in the order that notifications and timers prescribe.
LEMMA ListenStep ==
    ASSUME TypeOK, ListenInv, NEW h \in Hub, NEW t \in Tx, phase' = phase,
           timers' = [timers EXCEPT ![h] = @ \ {t}],
           \/ listeners' = listeners
           \/ listeners' = [listeners EXCEPT ![h] = @ \ {t}],
           t \in timers[h] \/ t \in listeners[h],
           NEW outcome \in {"TIMEOUT"} \union Code,
           listeners' = listeners => outcome = "TIMEOUT",
           Settle(h, t, outcome)
    PROVE  ListenInv'
<1>1. promise' = [promise EXCEPT ![h][t] = IF promise[h][t] = "pending" THEN outcome ELSE promise[h][t]]
  BY DEF Settle
<1>2. promise[h][t] \in {"pending", "TIMEOUT"} /\ phase[t] = "waiting"
  BY DEF ListenInv, ListenersAccounted
<1>3. /\ promise'[h][t] \in {"TIMEOUT"} \union Code
      /\ listeners' = listeners => promise'[h][t] = "TIMEOUT"
      /\ \A g \in Hub, u \in Tx : g # h \/ u # t => promise'[g][u] = promise[g][u]
  BY <1>1, <1>2 DEF TypeOK
<1>4. promise'[h][t] # "pending" /\ t \notin timers'[h]
  BY <1>3 DEF Code, TypeOK
<1>5. \A g \in Hub, u \in Tx :
         /\ g # h \/ u # t => /\ u \in timers'[g] <=> u \in timers[g]
                              /\ u \in listeners'[g] => u \in listeners[g]
         /\ t \in listeners'[h] => listeners' = listeners
  BY DEF TypeOK
<1>6. ListenersAccounted'
  BY <1>3, <1>4, <1>5 DEF ListenInv, ListenersAccounted
<1> QED BY <1>2, <1>3, <1>6 DEF ListenInv

LEMMA ListenNext == TypeOK /\ ChainInv /\ ListenInv /\ [Next]_vars => ListenInv'
<1> SUFFICES ASSUME TypeOK, ChainInv, ListenInv, [Next]_vars PROVE ListenInv'
  OBVIOUS
<1>1. ASSUME NEW t \in Tx, Invoke(t) PROVE ListenInv'
  <2>1. CASE Endorse(t) \/ EndorsementFails(t) \/ Send(t) \/ SendFails(t)
    <3>1. /\ \A u \in Tx : phase'[u] = phase[u] \/ phase[u] # "waiting"
          /\ \A u \in Tx : phase[u] = "waiting" => phase'[u] = "waiting"
          /\ UNCHANGED hubs
      BY <2>1 DEF Endorse, EndorsementFails, Send, SendFails, TypeOK
    <3> QED BY <3>1 DEF hubs, ListenInv, ListenersAccounted
  <2>2. CASE WaitForEvents(t)
    BY <2>2 DEF WaitForEvents, ListenInv, ListenersAccounted, TypeOK
  <2>3. ASSUME NEW h \in Hub, Timeout(h, t) PROVE ListenInv'
    BY <2>3, ListenStep DEF Timeout
  <2> QED BY <1>1, <2>1, <2>2, <2>3 DEF Invoke
<1>2. ASSUME NEW h \in Hub, Hear(h) PROVE ListenInv'
  <2> DEFINE t == chain[heard[h] + 1][1]
             code == chain[heard[h] + 1][2]
  <2>1. Notify(h, t, code) /\ phase' = phase /\ t \in Tx /\ code \in Code
    <3>1. h \in Peer /\ heard[h] + 1 \in DOMAIN chain
      BY <1>2, HubAssumption DEF Hear, TypeOK, ChainInv
    <3>2. chain[heard[h] + 1] \in Tx \X Code
      BY <3>1 DEF TypeOK
    <3> QED BY <1>2, <3>2 DEF Hear
  <2> HIDE DEF t, code
  <2>2. CASE t \in listeners[h]
    <3>1. listeners' # listeners
      BY <2>1, <2>2 DEF Notify, TypeOK
    <3> QED BY <2>1, <2>2, <3>1, ListenStep DEF Notify
  <2>3. CASE t \notin listeners[h]
    BY <2>1, <2>3 DEF Notify, ListenInv, ListenersAccounted
  <2> QED BY <2>2, <2>3
<1>3. CASE UNCHANGED <<phase, listeners, timers, promise>>
  BY <1>3 DEF ListenInv, ListenersAccounted
<1> QED BY <1>1, <1>2, <1>3
        DEF Next, Order, HubFails, CommitBlock, Disconnect, vars, hubs, ledger

LEMMA ListenInvariant == Spec => [](ConnectionInv /\ ListenInv)
<1>1. ConnectionInv => TypeOK /\ ChainInv
  BY DEF ConnectionInv
<1> QED BY <1>1, ConnectionInvariant, ListenInit, ListenNext, PTL DEF Spec

\* A timer runs as long as its promise is pending, whatever is heard and in which
\* order, and a listener is left only where a timer has gone off.
THEOREM ConnectionListenersAccounted == Spec => []ListenersAccounted
<1>1. ListenInv => ListenersAccounted
  BY DEF ListenInv
<1> QED BY <1>1, ListenInvariant, PTL

LEMMA StepAnswerFinal ==
    ASSUME TypeOK, ListenInv, [Next]_vars, NEW t \in Tx
    PROVE  /\ Resolved(t) => Resolved(t)'
           /\ Rejected(t) => Rejected(t)' /\ ~ Resolved(t)'
<1> DEFINE Settled == {"VALID", "INVALID", "TIMEOUT"}
<1>1. /\ phase[t] \in {"waiting", "failed"} => phase'[t] = phase[t]
      /\ \A h \in Hub : promise[h][t] \in Settled => promise'[h][t] = promise[h][t]
  <2>1. ASSUME NEW u \in Tx, Endorse(u) \/ EndorsementFails(u) \/ Send(u) \/ SendFails(u)
        PROVE  <1>1!1 /\ <1>1!2
    BY <2>1 DEF Endorse, EndorsementFails, Send, SendFails, hubs, TypeOK
  <2>2. ASSUME NEW u \in Tx, WaitForEvents(u) PROVE <1>1!1 /\ <1>1!2
    BY <2>2 DEF WaitForEvents, TypeOK, ListenInv
  <2>3. ASSUME NEW u \in Tx, NEW h \in Hub, Timeout(h, u) PROVE <1>1!1 /\ <1>1!2
    BY <2>3 DEF Timeout, Settle, TypeOK
  <2>4. ASSUME NEW h \in Hub, Hear(h) PROVE <1>1!1 /\ <1>1!2
    <3> DEFINE u == chain[heard[h] + 1][1]
               code == chain[heard[h] + 1][2]
    <3>1. phase' = phase /\ Notify(h, u, code)
      BY <2>4 DEF Hear
    <3> HIDE DEF u, code
    <3>2. CASE u \in listeners[h]
      <4>1. promise' = [promise EXCEPT ![h][u] = IF promise[h][u] = "pending" THEN code ELSE promise[h][u]]
        BY <3>1, <3>2 DEF Notify, Settle
      <4>2. u \in Tx
        BY <3>2 DEF TypeOK
      <4> QED BY <3>1, <4>1, <4>2 DEF TypeOK
    <3>3. CASE u \notin listeners[h]
      BY <3>1, <3>3 DEF Notify
    <3> QED BY <3>2, <3>3
  <2>5. CASE UNCHANGED <<phase, promise>>
    BY <2>5
  <2> QED BY <2>1, <2>2, <2>3, <2>4, <2>5
          DEF Next, Invoke, Order, HubFails, CommitBlock, Disconnect, vars, hubs, ledger
<1> QED BY <1>1 DEF Resolved, Rejected

\* Whatever hubs and timers do after it, the answer to a client does not change.
THEOREM ConnectionAnswerFinal == Spec => AnswerFinal
<1>1. ConnectionInv => TypeOK
  BY DEF ConnectionInv
<1>2. TypeOK /\ ListenInv /\ [Next]_vars =>
        [\A t \in Tx : /\ Resolved(t) => Resolved(t)'
                       /\ Rejected(t) => Rejected(t)' /\ ~ Resolved(t)']_vars
  BY StepAnswerFinal
<1> QED BY <1>1, <1>2, ListenInvariant, PTL DEF Spec, AnswerFinal

-----------------------------------------------------------------------------
Place(c, t) == CHOOSE k \in DOMAIN c : c[k][1] = t

\* Events are those of transactions that the first hub has heard of.
EventInv ==
    /\ EventsOnce
    /\ \A j \in DOMAIN emitted : \E i \in 1 .. heard[EventHub0] : chain[i][1] = emitted[j]

\* In a chain that holds each transaction once, the place of one is found.
LEMMA PlaceFound ==
    ASSUME NEW c, NEW i \in DOMAIN c,
           \A j, k \in DOMAIN c : c[j][1] = c[k][1] => j = k
    PROVE  Place(c, c[i][1]) = i
<1>1. /\ c[Place(c, c[i][1])][1] = c[i][1]
      /\ Place(c, c[i][1]) \in DOMAIN c
  BY DEF Place
<1> QED BY <1>1

\* Events are in the order of the chain.
LEMMA EventsPlaced ==
    ASSUME EventInv
    PROVE  \A i, j \in DOMAIN emitted :
              i < j => Place(chain, emitted[i]) < Place(chain, emitted[j])
BY DEF EventInv, EventsOnce, Position, Place

\* The next state is right when each transaction is found where its event stands.
LEMMA EventsPlacedNext ==
    ASSUME \A i, j \in DOMAIN emitted' :
              i < j => Place(chain', emitted'[i]) < Place(chain', emitted'[j]),
           \A i \in 1 .. heard'[EventHub0] :
              chain'[i][2] = "VALID" => \E j \in DOMAIN emitted' : emitted'[j] = chain'[i][1]
    PROVE  EventsOnce'
BY DEF EventsOnce, Position, Place

LEMMA EventInit == Init => EventInv
BY HubAssumption DEF Init, EventInv, EventsOnce

\* The event hub has heard a part of the chain.
LEMMA HeardPart ==
    ASSUME ConnectionInv
    PROVE  /\ heard[EventHub0] \in Nat /\ Len(chain) \in Nat
           /\ heard[EventHub0] <= height[EventHub0] /\ height[EventHub0] <= Len(chain)
           /\ DOMAIN chain = 1 .. Len(chain)
           /\ height[EventHub0] \in Nat
BY HubAssumption DEF ConnectionInv, TypeOK, ChainInv

\* Every event has its place, and the chain is in the order of the places.
LEMMA EventPlace ==
    ASSUME ConnectionInv, EventInv, NEW j \in DOMAIN emitted
    PROVE  /\ Place(chain, emitted[j]) \in 1 .. heard[EventHub0]
           /\ chain[Place(chain, emitted[j])][1] = emitted[j]
<1>1. PICK i \in 1 .. heard[EventHub0] : chain[i][1] = emitted[j]
  BY DEF EventInv
<1>2. i \in DOMAIN chain
  BY HeardPart
<1>3. Place(chain, emitted[j]) = i
  BY <1>1, <1>2, PlaceFound DEF ConnectionInv, ChainInv
<1> QED BY <1>1, <1>3

LEMMA EventOrder ==
    ASSUME ConnectionInv, ConnectionInv', EventInv, NEW t \in Tx, NEW code \in Code, Order(t, code)
    PROVE  EventInv'
<1>1. /\ chain' = Append(chain, <<t, code>>) /\ heard' = heard /\ emitted' = emitted
      /\ Len(chain') = Len(chain) + 1 /\ DOMAIN chain' = 1 .. Len(chain')
      /\ \A i \in DOMAIN chain : chain'[i] = chain[i] /\ i \in DOMAIN chain'
  BY HeardPart DEF Order, hubs, ConnectionInv, TypeOK
<1>2. \A j \in DOMAIN emitted : Place(chain', emitted'[j]) = Place(chain, emitted[j])
  <2> TAKE j \in DOMAIN emitted
  <2> DEFINE i == Place(chain, emitted[j])
  <2>1. i \in DOMAIN chain /\ chain[i][1] = emitted[j]
    BY EventPlace, HeardPart
  <2> HIDE DEF i
  <2>2. i \in DOMAIN chain' /\ chain'[i][1] = emitted'[j]
    BY <1>1, <2>1
  <2>3. Place(chain', chain'[i][1]) = i
    BY <2>2, PlaceFound DEF ConnectionInv, ChainInv
  <2> QED BY <2>2, <2>3 DEF i
<1>3. \A i \in 1 .. heard[EventHub0] : i \in DOMAIN chain
  BY HeardPart
<1>4. EventsOnce'
  <2>1. \A i, j \in DOMAIN emitted' :
          i < j => Place(chain', emitted'[i]) < Place(chain', emitted'[j])
    BY <1>1, <1>2, EventsPlaced
  <2>2. \A i \in 1 .. heard'[EventHub0] :
          chain'[i][2] = "VALID" => \E j \in DOMAIN emitted' : emitted'[j] = chain'[i][1]
    BY <1>1, <1>3 DEF EventInv, EventsOnce
  <2> QED BY <2>1, <2>2, EventsPlacedNext
<1>5. \A j \in DOMAIN emitted' : \E i \in 1 .. heard'[EventHub0] : chain'[i][1] = emitted'[j]
  BY <1>1, <1>3 DEF EventInv
<1> QED BY <1>4, <1>5 DEF EventInv

\* The next transaction that the first hub hears of comes after all that it has heard of.
LEMMA EventHear ==
    ASSUME ConnectionInv, EventInv, Hear(EventHub0)
    PROVE  EventInv'
<1> DEFINE n == heard[EventHub0] + 1
           t == chain[n][1]
<1>1. /\ heard' = [heard EXCEPT ![EventHub0] = n] /\ chain' = chain
      /\ n \in DOMAIN chain /\ n \in Nat
      /\ chain[n] \in Tx \X Code
      /\ \/ emitted' = Append(emitted, t)
         \/ emitted' = emitted /\ chain[n][2] = "INVALID"
  BY HeardPart, HubAssumption DEF Hear, ledger, ConnectionInv, TypeOK
<1>2. heard'[EventHub0] = n
  BY <1>1, HubAssumption DEF ConnectionInv, TypeOK
<1>3. \A j \in DOMAIN emitted : /\ Place(chain, emitted[j]) < n
                                /\ Place(chain, emitted[j]) \in 1 .. n
                                /\ chain[Place(chain, emitted[j])][1] = emitted[j]
  BY EventPlace, HeardPart
<1>4. Place(chain, t) = n
  BY <1>1, PlaceFound DEF ConnectionInv, ChainInv
<1>5. \A i, j \in DOMAIN emitted : i < j => Place(chain, emitted[i]) < Place(chain, emitted[j])
  BY EventsPlaced
<1>6. \A i \in 1 .. n : i = n \/ i \in 1 .. heard[EventHub0]
  BY HeardPart
<1> HIDE DEF n, t
<1>7. CASE emitted' = emitted /\ chain[n][2] = "INVALID"
  <2>1. \A i, j \in DOMAIN emitted' :
          i < j => Place(chain', emitted'[i]) < Place(chain', emitted'[j])
    BY <1>1, <1>5, <1>7
  <2>2. \A i \in 1 .. n :
          chain'[i][2] = "VALID" => \E j \in DOMAIN emitted' : emitted'[j] = chain'[i][1]
    BY <1>1, <1>6, <1>7 DEF EventInv, EventsOnce
  <2>3. \A j \in DOMAIN emitted' : \E i \in 1 .. n : chain'[i][1] = emitted'[j]
    BY <1>1, <1>3, <1>7
  <2> QED BY <1>2, <2>1, <2>2, <2>3, EventsPlacedNext DEF EventInv
<1>8. CASE emitted' = Append(emitted, t)
  <2>1. emitted \in Seq(Tx) /\ t \in Tx
    BY <1>1 DEF ConnectionInv, TypeOK, t
  <2>2. /\ DOMAIN emitted' = DOMAIN emitted \union {Len(emitted) + 1}
        /\ \A j \in DOMAIN emitted : emitted'[j] = emitted[j] /\ j < Len(emitted) + 1
        /\ emitted'[Len(emitted) + 1] = t
    BY <1>8, <2>1
  <2>3. \A i, j \in DOMAIN emitted' :
          i < j => Place(chain', emitted'[i]) < Place(chain', emitted'[j])
    <3> SUFFICES ASSUME NEW i \in DOMAIN emitted', NEW j \in DOMAIN emitted', i < j
                 PROVE  Place(chain, emitted'[i]) < Place(chain, emitted'[j])
      BY <1>1
    <3>1. i \in DOMAIN emitted
      BY <2>2
    <3>2. CASE j \in DOMAIN emitted
      BY <1>5, <2>2, <3>1, <3>2
    <3>3. CASE j = Len(emitted) + 1
      BY <1>3, <1>4, <2>2, <3>1, <3>3
    <3> QED BY <2>2, <3>2, <3>3
  <2>4. \A i \in 1 .. n :
          chain'[i][2] = "VALID" => \E j \in DOMAIN emitted' : emitted'[j] = chain'[i][1]
    <3> SUFFICES ASSUME NEW i \in 1 .. n, chain[i][2] = "VALID"
                 PROVE  \E j \in DOMAIN emitted' : emitted'[j] = chain[i][1]
      BY <1>1
    <3>1. CASE i = n
      BY <2>2, <3>1 DEF t
    <3>2. CASE i \in 1 .. heard[EventHub0]
      <4>1. PICK j \in DOMAIN emitted : emitted[j] = chain[i][1]
        BY <3>2 DEF EventInv, EventsOnce
      <4> QED BY <2>2, <4>1
    <3> QED BY <1>6, <3>1, <3>2
  <2>5. \A j \in DOMAIN emitted' : \E i \in 1 .. n : chain'[i][1] = emitted'[j]
    <3> SUFFICES ASSUME NEW j \in DOMAIN emitted'
                 PROVE  \E i \in 1 .. n : chain[i][1] = emitted'[j]
      BY <1>1
    <3>1. CASE j \in DOMAIN emitted
      BY <1>3, <2>2, <3>1
    <3>2. CASE j = Len(emitted) + 1
      <4>1. n \in 1 .. n
        BY <1>1, HeardPart
      <4> QED BY <2>2, <3>2, <4>1 DEF t
    <3> QED BY <2>2, <3>1, <3>2
  <2> QED BY <1>2, <2>3, <2>4, <2>5, EventsPlacedNext DEF EventInv
<1> QED BY <1>1, <1>7, <1>8 DEF t

LEMMA EventNext ==
    ConnectionInv /\ ConnectionInv' /\ EventInv /\ [Next]_vars => EventInv'
<1> SUFFICES ASSUME ConnectionInv, ConnectionInv', EventInv, [Next]_vars PROVE EventInv'
  OBVIOUS
<1>1. CASE chain' = chain /\ emitted' = emitted /\ heard'[EventHub0] = heard[EventHub0]
  BY <1>1 DEF EventInv, EventsOnce, Position
<1>2. ASSUME NEW t \in Tx, Invoke(t) PROVE EventInv'
  BY <1>1, <1>2 DEF Invoke, Endorse, EndorsementFails, Send, WaitForEvents, SendFails, Timeout,
                    hubs, ledger
<1>3. ASSUME NEW h \in Hub, Hear(h), h # EventHub0 PROVE EventInv'
  BY <1>1, <1>3, HubAssumption DEF Hear, ledger, ConnectionInv, TypeOK
<1> QED BY <1>1, <1>2, <1>3, EventOrder, EventHear
        DEF Next, HubFails, CommitBlock, Disconnect, vars, hubs, ledger

\* With any number of event hubs, an application gets the events of each transaction
\* once, in the order of the chain, and misses none of a valid one that was heard of.
THEOREM ConnectionEventsOnce == Spec => []EventsOnce
<1>1. EventInv => EventsOnce
  BY DEF EventInv
<1> QED BY <1>1, EventInit, EventNext, ConnectionInvariant, PTL DEF Spec
=============================================================================
