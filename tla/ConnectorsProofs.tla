-------------------------- MODULE ConnectorsProofs --------------------------
(***************************************************************************)
(* Proofs about the connectors, for every value of the constants.          *)
(*                                                                         *)
(* The connections per user of the LoopBack connector (RestConnector): the *)
(* flags of a wrapper agree with its connection, a wrapper logs in once at *)
(* a time, and as long as no connect fails every request is served as its  *)
(* user.  The connections below it that go over a socket                   *)
(* (ProxyConnection): answers and events come once and in order, however   *)
(* often the socket connection is lost.  The identities of the embedded    *)
(* and the web connector (EmbeddedIdentities).                             *)
(***************************************************************************)
EXTENDS Connectors, Sequences, FiniteSetTheorems, TLAPS

Types ==
    /\ settings \in User \union {None}
    /\ cache \in [User -> Wrapper \union {None}]
    /\ made \in 0..WrapperBound
    /\ mode \in [Wrapper -> {"connected", "connecting", "neither"}]
    /\ pending \in [Wrapper -> SUBSET [by : Request, as : User]]
    /\ open \in [Wrapper -> User \union {None}]
    /\ closing \in [Wrapper -> BOOLEAN]
    /\ step \in [Request -> {"new", "waiting", "using", "served", "failed"}]
    /\ user \in [Request -> User]
    /\ wrapper \in [Request -> Wrapper \union {None}]
    /\ servedAs \in [Request -> User \union {None}]

\* Who made a wrapper has written the settings.
Written == made > 0 => settings # None

Cached(w) == \E u \in User : cache[u] = w

\* Of a wrapper there is a login under way or a connection, not both; one whose login is
\* under way is connecting unless its entry has expired, and only an expired one closes.
Wrappers ==
    \A w \in Wrapper :
        /\ mode[w] = "connected" <=> open[w] # None
        /\ mode[w] = "connected" => pending[w] = {}
        /\ \A l, k \in pending[w] : l = k
        /\ pending[w] # {} => mode[w] = "connecting" \/ ~ Cached(w)
        /\ closing[w] => open[w] # None /\ ~ Cached(w)
        /\ w > made => /\ mode[w] = "neither" /\ pending[w] = {} /\ ~ Cached(w)
                       /\ \A r \in Request : wrapper[r] # w

Begun == \A r \in Request : step[r] = "new" <=> wrapper[r] = None

\* No two users have the same wrapper.
OwnWrapper == \A u, v \in User : cache[u] = cache[v] /\ cache[u] # None => u = v

IInv == Types /\ Written /\ Wrappers /\ OwnWrapper /\ Begun

LEMMA Apart ==
    /\ None \notin User /\ None \notin Wrapper /\ Wrapper \subseteq Nat
    /\ WrapperBound \in Nat /\ 0..WrapperBound \subseteq Nat
BY ConnectorAssumption DEF Wrapper

LEMMA InitInv == Init => IInv
BY Apart, ConnectorAssumption
   DEF Init, IInv, Types, Written, Wrappers, OwnWrapper, Begun, Cached, Wrapper

LEMMA CachedMade ==
    ASSUME IInv, NEW w \in Wrapper, Cached(w)
    PROVE  w \in Nat /\ made \in Nat /\ w <= made
<1>1. w \in Nat /\ made \in Nat
  BY Apart DEF IInv, Types
<1> QED BY <1>1 DEF IInv, Wrappers

-----------------------------------------------------------------------------
\* The wrapper that a request gets: that of its user, or a new one.
Got(r) == IF cache[user[r]] # None THEN cache[user[r]] ELSE made + 1

LEMMA GotType ==
    ASSUME IInv, NEW r \in Request, Arrive(r)
    PROVE  /\ Got(r) \in Wrapper /\ step[r] = "new"
           /\ wrapper' = [wrapper EXCEPT ![r] = Got(r)]
           /\ EnsureConnected(r, Got(r))
           /\ UNCHANGED <<open, closing, user, servedAs>>
           /\ settings' \in User
           /\ \/ /\ cache[user[r]] = Got(r) /\ cache[user[r]] # None
                 /\ UNCHANGED <<settings, cache, made>>
              \/ /\ Got(r) = made + 1 /\ made' = Got(r) /\ settings' = user[r]
                 /\ cache[user[r]] = None
                 /\ cache' = [cache EXCEPT ![user[r]] = Got(r)]
<1>1. user[r] \in User
  BY DEF IInv, Types
<1>2. cache[user[r]] # None => made > 0
  BY <1>1, Apart, ConnectorAssumption DEF IInv, Types, Wrappers, Cached, Wrapper
<1> QED BY <1>1, <1>2, Apart DEF Arrive, Got, IInv, Types, Written

LEMMA ArriveInv ==
    ASSUME IInv, NEW r \in Request, Arrive(r)
    PROVE  IInv'
<1> DEFINE w == Got(r)
<1> HIDE DEF w
<1>1. /\ w \in Wrapper /\ step[r] = "new"
      /\ wrapper' = [wrapper EXCEPT ![r] = w]
      /\ EnsureConnected(r, w)
      /\ UNCHANGED <<open, closing, user, servedAs>>
      /\ settings' \in User
      /\ \/ /\ cache[user[r]] = w /\ cache[user[r]] # None
            /\ UNCHANGED <<settings, cache, made>>
         \/ /\ w = made + 1 /\ made' = w /\ settings' = user[r]
            /\ cache[user[r]] = None
            /\ cache' = [cache EXCEPT ![user[r]] = w]
  BY GotType DEF w
<1>2. user[r] \in User /\ made \in Nat /\ made' \in 0..WrapperBound /\ made' >= made /\ w <= made'
  BY <1>1, Apart, ConnectorAssumption DEF IInv, Types, Wrappers, Cached, Wrapper
<1>3. Types'
  BY <1>1, <1>2 DEF EnsureConnected, IInv, Types
<1>4. Written' /\ Begun'
  BY <1>1, Apart DEF EnsureConnected, IInv, Types, Written, Begun
<1>5. mode[w] = "neither" => pending[w] = {}
  BY <1>1, <1>2, Apart DEF IInv, Types, Wrappers, Cached
<1>6. ASSUME NEW x \in Wrapper
      PROVE  /\ x # w => mode'[x] = mode[x] /\ pending'[x] = pending[x] /\ (Cached(x)' <=> Cached(x))
             /\ x = w => \/ /\ mode[x] # "neither" /\ mode'[x] = mode[x] /\ pending'[x] = pending[x]
                         \/ /\ mode[x] = "neither" /\ mode'[x] = "connecting"
                            /\ pending'[x] = {[by |-> r, as |-> settings']}
  <2>1. x # w => (Cached(x)' <=> Cached(x))
    <3>1. CASE UNCHANGED cache
      BY <3>1 DEF Cached
    <3>2. CASE cache[user[r]] = None /\ cache' = [cache EXCEPT ![user[r]] = w]
      BY <3>2, <1>2, Apart DEF Cached, IInv, Types
    <3> QED BY <1>1, <3>1, <3>2
  <2> QED BY <2>1, <1>1, <1>5 DEF EnsureConnected, IInv, Types
<1>7. \/ ~ closing[w] /\ (Cached(w) \/ (w > made /\ mode[w] = "neither"))
  BY <1>1, <1>2, Apart DEF IInv, Types, Wrappers, Cached
<1>8. Wrappers'
  <2> SUFFICES ASSUME NEW x \in Wrapper
               PROVE  /\ mode'[x] = "connected" <=> open'[x] # None
                      /\ mode'[x] = "connected" => pending'[x] = {}
                      /\ \A l, k \in pending'[x] : l = k
                      /\ pending'[x] # {} => mode'[x] = "connecting" \/ ~ Cached(x)'
                      /\ closing'[x] => open'[x] # None /\ ~ Cached(x)'
                      /\ x > made' => /\ mode'[x] = "neither" /\ pending'[x] = {} /\ ~ Cached(x)'
                                      /\ \A q \in Request : wrapper'[q] # x
    BY DEF Wrappers
  <2>1. CASE x = w
    BY <2>1, <1>1, <1>2, <1>6, <1>7, Apart DEF IInv, Types, Wrappers
  <2>2. CASE x # w
    BY <2>2, <1>1, <1>2, <1>6, Apart DEF IInv, Types, Wrappers
  <2> QED BY <2>1, <2>2
<1>9. OwnWrapper'
  <2>1. \A v \in User : cache[v] \in Wrapper => cache[v] <= made
    BY CachedMade DEF Cached
  <2> QED BY <1>1, <1>2, <2>1, Apart DEF IInv, Types, OwnWrapper
<1> QED BY <1>3, <1>4, <1>8, <1>9 DEF IInv

LEMMA ConnectDoneInv ==
    ASSUME IInv, NEW w \in Wrapper, NEW l \in pending[w], ConnectDone(w, l)
    PROVE  IInv'
<1>1. l.as \in User /\ pending[w] = {l} /\ ~ closing[w] /\ made >= w /\ made \in Nat /\ w \in Nat
  BY Apart DEF IInv, Types, Wrappers
<1>2. Types' /\ Written' /\ Begun'
  BY <1>1 DEF ConnectDone, Wake, IInv, Types, Written, Begun
<1>3. Wrappers'
  BY <1>1, Apart DEF ConnectDone, IInv, Types, Wrappers, Cached
<1> QED BY <1>2, <1>3 DEF ConnectDone, IInv, OwnWrapper

LEMMA ConnectFailsInv ==
    ASSUME IInv, NEW w \in Wrapper, NEW l \in pending[w], ConnectFails(w, l)
    PROVE  IInv'
<1>1. pending[w] = {l} /\ open[w] = None /\ made >= w /\ made \in Nat /\ w \in Nat
  BY Apart DEF IInv, Types, Wrappers
<1>2. Types' /\ Written' /\ Begun'
  BY <1>1 DEF ConnectFails, Wake, IInv, Types, Written, Begun
<1>3. Wrappers'
  BY <1>1, Apart DEF ConnectFails, IInv, Types, Wrappers, Cached
<1> QED BY <1>2, <1>3 DEF ConnectFails, IInv, OwnWrapper

LEMMA ServeInv ==
    ASSUME IInv, NEW r \in Request, Serve(r)
    PROVE  IInv'
<1>1. wrapper[r] \in Wrapper
  BY DEF Serve, IInv, Types, Begun
<1> QED BY <1>1 DEF Serve, IInv, Types, Written, Wrappers, OwnWrapper, Begun, Cached

LEMMA ExpireInv ==
    ASSUME IInv, NEW u \in User, Expire(u)
    PROVE  IInv'
<1>1. cache[u] \in Wrapper /\ cache[u] <= made /\ made \in Nat /\ cache[u] \in Nat
  <2>1. cache[u] \in Wrapper
    BY DEF Expire, IInv, Types
  <2> QED BY <2>1, CachedMade DEF Cached
<1>2. Types' /\ Written' /\ Begun'
  BY <1>1 DEF Expire, IInv, Types, Written, Begun
<1>3. \A x \in Wrapper : Cached(x)' <=> Cached(x) /\ x # cache[u]
  <2> SUFFICES ASSUME NEW x \in Wrapper
               PROVE  Cached(x)' <=> Cached(x) /\ x # cache[u]
    OBVIOUS
  <2>1. \A v \in User : cache'[v] = IF v = u THEN None ELSE cache[v]
    BY DEF Expire, IInv, Types
  <2>2. \A v \in User \ {u} : cache[v] # cache[u]
    BY DEF Expire, IInv, OwnWrapper
  <2> QED BY <2>1, <2>2, Apart DEF Cached
<1>4. Wrappers'
  BY <1>1, <1>3, Apart DEF Expire, IInv, Types, Wrappers
<1>5. OwnWrapper'
  BY Apart DEF Expire, IInv, Types, OwnWrapper
<1> QED BY <1>2, <1>4, <1>5 DEF IInv

LEMMA DisconnectedInv ==
    ASSUME IInv, NEW w \in Wrapper, Disconnected(w)
    PROVE  IInv'
<1>1. open[w] # None /\ pending[w] = {} /\ made \in Nat
  BY Apart DEF Disconnected, IInv, Types, Wrappers
<1> QED BY <1>1, Apart
           DEF Disconnected, IInv, Types, Written, Wrappers, OwnWrapper, Begun, Cached

LEMMA NextInv == IInv /\ [Next]_vars => IInv'
<1> SUFFICES ASSUME IInv, [Next]_vars PROVE IInv'  OBVIOUS
<1>1. CASE UNCHANGED vars
  BY <1>1 DEF vars, IInv, Types, Written, Wrappers, OwnWrapper, Begun, Cached
<1> QED BY <1>1, ArriveInv, ServeInv, DisconnectedInv, ConnectDoneInv, ConnectFailsInv, ExpireInv
        DEF Next

LEMMA Invariant == Spec => []IInv
BY InitInv, NextInv, PTL DEF Spec

\* The flags of a wrapper agree with its connection, whatever fails or expires.
THEOREM FlagsAgree == Spec => []TypeOK
<1>1. IInv => TypeOK
  BY DEF IInv, Types, Wrappers, Begun, TypeOK
<1> QED BY <1>1, Invariant, PTL

\* A wrapper has one login or connection at a time, however many requests find none.
THEOREM LoginOnce == Spec => []OneLogin
<1>1. IInv => OneLogin
  <2> SUFFICES ASSUME IInv, NEW w \in Wrapper
               PROVE  Cardinality(pending[w]) + (IF open[w] # None THEN 1 ELSE 0) <= 1
    BY DEF OneLogin
  <2>1. CASE pending[w] = {}
    BY <2>1, FS_EmptySet
  <2>2. CASE pending[w] # {}
    <3>1. PICK l \in pending[w] : pending[w] = {l}
      <4>1. PICK l : l \in pending[w]
        BY <2>2
      <4> QED BY <4>1 DEF IInv, Wrappers
    <3>2. open[w] = None
      BY <2>2 DEF IInv, Wrappers
    <3>3. Cardinality(pending[w]) = 1
      BY <3>1, FS_Singleton
    <3> QED BY <3>2, <3>3
  <2> QED BY <2>1, <2>2
<1> QED BY <1>1, Invariant, PTL

-----------------------------------------------------------------------------
\* While no connect fails, a wrapper has connected, or is about to, as the user it was
\* made for, and so has every request that uses it.
Owned(w, u) == (\A l \in pending[w] : l.as = u) /\ open[w] \in {u, None}

Mine ==
    /\ \A u \in User : cache[u] # None => mode[cache[u]] # "neither" /\ Owned(cache[u], u)
    /\ \A r \in Request : /\ wrapper[r] # None => Owned(wrapper[r], user[r])
                          /\ step[r] = "served" => servedAs[r] = user[r]

LEMMA MineInv ==
    ASSUME ~ Failures, IInv, Mine, [Next]_vars
    PROVE  Mine'
<1>1. CASE UNCHANGED vars
  BY <1>1 DEF vars, Mine, Owned
<1>2. ASSUME NEW r \in Request, Arrive(r) PROVE Mine'
  <2>1. PICK w \in Wrapper :
        /\ step[r] = "new"
        /\ wrapper' = [wrapper EXCEPT ![r] = w]
        /\ EnsureConnected(r, w)
        /\ UNCHANGED <<open, closing, user, servedAs>>
        /\ \/ cache[user[r]] = w /\ cache[user[r]] # None /\ UNCHANGED cache
           \/ /\ w = made + 1 /\ settings' = user[r]
              /\ cache' = [cache EXCEPT ![user[r]] = w]
    BY <1>2, GotType
  <2>2. user[r] \in User /\ made \in Nat /\ w \in Nat
    BY <2>1, Apart DEF IInv, Types
  <2>3. CASE cache[user[r]] = w /\ cache[user[r]] # None /\ UNCHANGED cache
    <3>1. UNCHANGED <<mode, pending>> /\ Owned(w, user[r])
      BY <2>1, <2>2, <2>3 DEF EnsureConnected, Mine
    <3> QED BY <2>1, <2>3, <3>1 DEF EnsureConnected, Mine, Owned, IInv, Types
  <2>4. CASE /\ w = made + 1 /\ settings' = user[r]
             /\ cache' = [cache EXCEPT ![user[r]] = w]
    <3>1. /\ open[w] = None /\ mode[w] = "neither" /\ pending[w] = {} /\ ~ Cached(w)
          /\ \A q \in Request : wrapper[q] # w
      BY <2>1, <2>2, <2>4 DEF IInv, Wrappers
    <3>2. /\ mode' = [mode EXCEPT ![w] = "connecting"]
          /\ pending' = [pending EXCEPT ![w] = {[by |-> r, as |-> user[r]]}]
      BY <2>1, <2>4, <3>1 DEF EnsureConnected, IInv, Types
    <3>3. Owned(w, user[r])'
      BY <2>1, <3>1, <3>2 DEF Owned, IInv, Types
    <3>4. \A x \in Wrapper \ {w} : mode'[x] = mode[x] /\ \A u \in User : Owned(x, u) => Owned(x, u)'
      BY <2>1, <3>2 DEF Owned, IInv, Types
    <3>5. ASSUME NEW u \in User, cache'[u] # None
          PROVE  mode'[cache'[u]] # "neither" /\ Owned(cache[u], u)'
      <4>1. CASE u = user[r]
        BY <4>1, <2>1, <2>2, <2>4, <3>2, <3>3 DEF Owned, IInv, Types
      <4>2. CASE u # user[r]
        <5>1. cache'[u] = cache[u] /\ cache[u] \in Wrapper \ {w}
          BY <3>1, <3>5, <4>2, <2>4 DEF Cached, IInv, Types
        <5>2. mode[cache[u]] # "neither" /\ Owned(cache[u], u)
          BY <3>5, <5>1 DEF Mine
        <5> QED BY <2>1, <3>4, <5>1, <5>2 DEF Owned
      <4> QED BY <4>1, <4>2
    <3>6. ASSUME NEW q \in Request
          PROVE  /\ wrapper'[q] # None => Owned(wrapper[q], user[q])'
                 /\ step'[q] = "served" => servedAs[q] = user[q]
      <4>1. CASE q = r
        BY <4>1, <2>1, <3>3 DEF EnsureConnected, Owned, IInv, Types
      <4>2. CASE q # r
        <5>1. wrapper'[q] = wrapper[q] /\ step'[q] = step[q]
          BY <4>2, <2>1 DEF EnsureConnected, IInv, Types
        <5>2. wrapper[q] # None => wrapper[q] \in Wrapper \ {w} /\ Owned(wrapper[q], user[q])
          BY <3>1 DEF Mine, IInv, Types
        <5>3. user[q] \in User
          BY DEF IInv, Types
        <5> QED BY <2>1, <3>4, <5>1, <5>2, <5>3 DEF Owned, Mine
      <4> QED BY <4>1, <4>2
    <3> QED BY <2>1, <3>5, <3>6 DEF Mine, Owned
  <2> QED BY <2>1, <2>3, <2>4
<1>3. ASSUME NEW w \in Wrapper, NEW l \in pending[w], ConnectDone(w, l) PROVE Mine'
  BY <1>3 DEF ConnectDone, Wake, Mine, Owned, IInv, Types
<1>4. ASSUME NEW r \in Request, Serve(r) PROVE Mine'
  <2>1. wrapper[r] # None /\ user[r] \in User
    BY <1>4 DEF Serve, IInv, Types, Begun
  <2> QED BY <1>4, <2>1, Apart DEF Serve, Mine, Owned, IInv, Types
<1>5. ASSUME NEW u \in User, Expire(u) PROVE Mine'
  <2>1. \A v \in User \ {u} : cache[v] # cache[u]
    BY <1>5 DEF Expire, IInv, OwnWrapper
  <2> QED BY <1>5, <2>1 DEF Expire, Mine, Owned, IInv, Types
<1>6. ASSUME NEW w \in Wrapper, Disconnected(w) PROVE Mine'
  <2>1. ~ Cached(w)
    BY <1>6 DEF Disconnected, IInv, Wrappers
  <2> QED BY <1>6, <2>1 DEF Disconnected, Mine, Owned, Cached, IInv, Types
<1>7. \A w \in Wrapper : \A l \in pending[w] : ~ ConnectFails(w, l)
  BY DEF ConnectFails
<1> QED BY <1>1, <1>2, <1>3, <1>4, <1>5, <1>6, <1>7 DEF Next

\* While no connect fails, every request is served as its user.
THEOREM ServedAsUser ==
    ASSUME ~ Failures
    PROVE  Spec => []ActsAsUser
<1>1. Init => Mine
  BY DEF Init, Mine
<1>2. Mine => ActsAsUser
  BY DEF Mine, ActsAsUser
<1> QED BY <1>1, <1>2, MineInv, Invariant, PTL DEF Spec

-----------------------------------------------------------------------------
(* Connections over a socket that breaks: ProxyConnection *)
\* The steps, without what is assumed to happen.
ProxySteps == Proxy!Init /\ [][Proxy!Next]_(Proxy!vars)

ReplyKind == Proxy!RequestKind \union {"events"}
Phase == {"new", "connecting", "open", "logging in", "ready", "disconnecting",
          "closed", "failed"}

ProxyTypes ==
    /\ phase \in [Conn -> Phase] /\ unanswered \in [Conn -> BOOLEAN]
    /\ up \in Seq(Conn \X Proxy!RequestKind)
    /\ down \in Seq(Conn \X ReplyKind \X BOOLEAN)
    /\ connected \in BOOLEAN /\ session \in Nat \ {0}
    /\ running \subseteq (1..session) \X (Conn \X Proxy!RequestKind)
    /\ connections \subseteq Conn /\ contexts \subseteq Conn
    /\ listening \in [Conn -> Seq(1..session)]
    /\ asked \in [Conn -> Nat] /\ executed \in [Conn -> Nat]
    /\ answered \in [Conn -> Nat] /\ heard \in [Conn -> Nat]

\* Where a request is, and its answer.
InUp(c, k) == \E i \in 1..Len(up) : up[i] = <<c, k>>
InRun(c, k) == \E r \in running : r[2] = <<c, k>>
Fine(c, k) == \E i \in 1..Len(down) : down[i] = <<c, k, TRUE>>
Failed(c, k) == \E i \in 1..Len(down) : down[i] = <<c, k, FALSE>>
InDown(c, k) == Fine(c, k) \/ Failed(c, k)

\* Nothing is in one place twice, and events go ahead of an answer.
OnceUp == \A i, j \in 1..Len(up) : up[i] = up[j] => i = j
OnceRun == \A r, q \in running : r[2] = q[2] => r = q
OnceDown == \A i, j \in 1..Len(down) :
               down[i][1] = down[j][1] /\ down[i][2] = down[j][2] => i = j
EventsAhead == \A i \in 1..Len(down) : down[i][2] = "events" =>
                  \E j \in 1..Len(down) : j > i /\ down[j] = <<down[i][1], "call", TRUE>>
QueueInv == /\ OnceUp /\ OnceRun /\ OnceDown /\ EventsAhead
            /\ ~connected => down = <<>>

\* A request is in one place at most, and the client waits for its answer.
Awaited(c, k) == InUp(c, k) \/ InRun(c, k) \/ InDown(c, k)
TokenInv(c) ==
    /\ \A k \in Proxy!RequestKind :
          /\ ~(InUp(c, k) /\ InRun(c, k))
          /\ InDown(c, k) => ~InUp(c, k) /\ ~InRun(c, k)
    /\ Awaited(c, "connect") => phase[c] = "connecting"
    /\ Awaited(c, "login") => phase[c] = "logging in"
    /\ Awaited(c, "disconnect") => phase[c] = "disconnecting"
    /\ Awaited(c, "call") => unanswered[c]
    /\ ~Failed(c, "events")
    /\ Fine(c, "events") => Fine(c, "call")

\* What is still to be executed, heard of, or answered is not counted yet.
CountInv(c) ==
    /\ executed[c] <= asked[c] /\ heard[c] <= executed[c] /\ answered[c] <= heard[c]
    /\ InUp(c, "call") \/ InRun(c, "call") => executed[c] < asked[c]
    /\ Fine(c, "events") => heard[c] < executed[c]
    /\ Fine(c, "call") /\ ~Fine(c, "events") => answered[c] < heard[c]

\* A connection has one listener, which its one login makes; the server that knows its
\* context has it.
ListenInv(c) ==
    /\ listening[c] # <<>> =>
          /\ Len(listening[c]) = 1
          /\ phase[c] \notin {"new", "connecting", "open"}
          /\ ~InUp(c, "login") /\ ~InRun(c, "login")
    /\ c \in contexts => listening[c] = <<session>>
    /\ InRun(c, "call") => listening[c] # <<>>

\* Until the socket connection is lost, the server knows what the client knows.
ServedInv(c) ==
    session = 1 /\ connected =>
       /\ Fine(c, "connect") \/ phase[c] \in {"open", "logging in", "ready"}
             => c \in connections
       /\ Fine(c, "login") \/ phase[c] = "ready" => c \in contexts

ConnInv == \A c \in Conn : TokenInv(c) /\ CountInv(c) /\ ListenInv(c) /\ ServedInv(c)
ProxyInv == ProxyTypes /\ QueueInv /\ ConnInv

\* What each operation on a queue does to what is in it.
LEMMA Emitted ==
    ASSUME ProxyTypes, OnceUp, NEW c \in Conn, NEW k \in Proxy!RequestKind, ~InUp(c, k),
           Proxy!Emit(c, k)
    PROVE  /\ up' \in Seq(Conn \X Proxy!RequestKind) /\ OnceUp'
           /\ \A d \in Conn, l \in Proxy!RequestKind :
                 InUp(d, l)' <=> InUp(d, l) \/ (d = c /\ l = k)
<1> DEFINE m == <<c, k>>
<1>1. /\ up \in Seq(Conn \X Proxy!RequestKind) /\ m \in Conn \X Proxy!RequestKind
      /\ up' = Append(up, m)
  BY DEF ProxyTypes, Proxy!Emit
<1>2. \A i \in 1..Len(up) : up[i] # m
  BY DEF InUp
<1>3. /\ up' \in Seq(Conn \X Proxy!RequestKind) /\ Len(up') = Len(up) + 1 /\ Len(up) \in Nat
      /\ \A i \in 1..Len(up) : up'[i] = up[i]
      /\ up'[Len(up) + 1] = m
  <2> HIDE DEF m
  <2> QED BY <1>1
<1>4. OnceUp'
  <2> HIDE DEF m
  <2> QED BY <1>2, <1>3 DEF OnceUp
<1>5. ASSUME NEW d \in Conn, NEW l \in Proxy!RequestKind
      PROVE  InUp(d, l)' <=> InUp(d, l) \/ (d = c /\ l = k)
  <2>1. <<d, l>> = m <=> d = c /\ l = k
    OBVIOUS
  <2>2. PICK n : n = <<d, l>>
    OBVIOUS
  <2>3. (\E i \in 1..Len(up') : up'[i] = n) <=> (\E i \in 1..Len(up) : up[i] = n) \/ n = m
    <3> HIDE DEF m
    <3>1. ASSUME NEW i \in 1..Len(up), up[i] = n PROVE i \in 1..Len(up') /\ up'[i] = n
      BY <1>3, <3>1
    <3>2. Len(up) + 1 \in 1..Len(up')
      BY <1>3
    <3>3. ASSUME NEW i \in 1..Len(up'), up'[i] = n, n # m
          PROVE  i \in 1..Len(up) /\ up[i] = n
      BY <1>3, <3>3
    <3> QED BY <1>3, <3>1, <3>2, <3>3
  <2> QED BY <2>1, <2>2, <2>3 DEF InUp
<1> QED BY <1>3, <1>4, <1>5

LEMMA Taken ==
    ASSUME ProxyTypes, OnceUp, Proxy!Deliver
    PROVE  \E c \in Conn, k \in Proxy!RequestKind :
              /\ Head(up) = <<c, k>> /\ Proxy!Sender = c /\ Proxy!Kind = k
              /\ InUp(c, k)
              /\ up' \in Seq(Conn \X Proxy!RequestKind) /\ OnceUp'
              /\ \A d \in Conn, l \in Proxy!RequestKind :
                    InUp(d, l)' <=> InUp(d, l) /\ ~(d = c /\ l = k)
<1>1. /\ up \in Seq(Conn \X Proxy!RequestKind) /\ up # <<>> /\ up' = Tail(up)
      /\ Len(up) \in Nat /\ Len(up) > 0 /\ up[1] \in Conn \X Proxy!RequestKind
      /\ Head(up) = up[1]
  BY DEF ProxyTypes, Proxy!Deliver
<1>2. PICK c \in Conn, k \in Proxy!RequestKind : up[1] = <<c, k>>
  BY <1>1
<1>3. /\ up' \in Seq(Conn \X Proxy!RequestKind) /\ Len(up') = Len(up) - 1
      /\ \A i \in 1..Len(up') : up'[i] = up[i + 1]
  BY <1>1
<1>4. OnceUp'
  BY <1>1, <1>3 DEF OnceUp
<1>5. ASSUME NEW d \in Conn, NEW l \in Proxy!RequestKind
      PROVE  InUp(d, l)' <=> InUp(d, l) /\ ~(d = c /\ l = k)
  <2>1. <<d, l>> = up[1] <=> d = c /\ l = k
    BY <1>2
  <2>2. PICK n : n = <<d, l>>
    OBVIOUS
  <2>3. (\E i \in 1..Len(up') : up'[i] = n) <=> (\E i \in 1..Len(up) : up[i] = n) /\ n # up[1]
    <3>1. ASSUME NEW i \in 1..Len(up), up[i] = n, n # up[1]
          PROVE  i - 1 \in 1..Len(up') /\ up'[i - 1] = n
      BY <1>1, <1>3, <3>1
    <3>2. ASSUME NEW i \in 1..Len(up'), up'[i] = n
          PROVE  i + 1 \in 1..Len(up) /\ up[i + 1] = n /\ n # up[1]
      BY <1>1, <1>3, <3>2 DEF OnceUp
    <3> QED BY <3>1, <3>2
  <2> QED BY <2>1, <2>2, <2>3 DEF InUp
<1>6. InUp(c, k)
  BY <1>1, <1>2 DEF InUp
<1>7. Proxy!Sender = c /\ Proxy!Kind = k
  BY <1>1, <1>2 DEF Proxy!Sender, Proxy!Kind
<1> QED BY <1>1, <1>2, <1>3, <1>4, <1>5, <1>6, <1>7

LEMMA DownThere ==
    ASSUME down \in Seq(Conn \X ReplyKind \X BOOLEAN), NEW c, NEW k, ~InDown(c, k)
    PROVE  \A i \in 1..Len(down) : ~(down[i][1] = c /\ down[i][2] = k)
<1> SUFFICES ASSUME NEW i \in 1..Len(down), down[i][1] = c, down[i][2] = k PROVE FALSE
  OBVIOUS
<1>1. down[i] \in Conn \X ReplyKind \X BOOLEAN
  OBVIOUS
<1>2. PICK d \in Conn, l \in ReplyKind, g \in BOOLEAN : down[i] = <<d, l, g>>
  BY <1>1
<1>3. d = c /\ l = k
  BY <1>2
<1>4. down[i] = <<c, k, TRUE>> \/ down[i] = <<c, k, FALSE>>
  BY <1>2, <1>3
<1> QED BY <1>4 DEF InDown, Fine, Failed

\* One answer more, if it gets to the client at all.
LEMMA Replied ==
    ASSUME ProxyTypes, QueueInv, NEW c \in Conn, NEW k \in Proxy!RequestKind,
           NEW f \in BOOLEAN, ~InDown(c, k),
           down' = down \/ (connected /\ down' = down \o <<<<c, k, f>>>>),
           connected' = connected
    PROVE  /\ down' \in Seq(Conn \X ReplyKind \X BOOLEAN)
           /\ OnceDown' /\ EventsAhead' /\ (~connected' => down' = <<>>)
           /\ \A d \in Conn, l \in ReplyKind :
                 /\ Fine(d, l) => Fine(d, l)'
                 /\ Failed(d, l) => Failed(d, l)'
                 /\ Fine(d, l)' => Fine(d, l) \/ (d = c /\ l = k /\ f)
                 /\ Failed(d, l)' => Failed(d, l) \/ (d = c /\ l = k /\ ~f)
<1> DEFINE m == <<c, k, f>>
<1>1. CASE down' = down
  <2>1. down' = down
    BY <1>1
  <2>2. \A d \in Conn, l \in ReplyKind :
           (Fine(d, l)' <=> Fine(d, l)) /\ (Failed(d, l)' <=> Failed(d, l))
    BY <2>1 DEF Fine, Failed
  <2>3. OnceDown' /\ EventsAhead'
    BY <2>1 DEF QueueInv, OnceDown, EventsAhead
  <2>4. down' \in Seq(Conn \X ReplyKind \X BOOLEAN) /\ (~connected' => down' = <<>>)
    BY <2>1 DEF ProxyTypes, QueueInv
  <2> QED BY <2>2, <2>3, <2>4
<1>2. CASE connected /\ down' = down \o <<m>>
  <2>1. down' = down \o <<m>>
    BY <1>2
  <2>2. /\ down \in Seq(Conn \X ReplyKind \X BOOLEAN) /\ m \in Conn \X ReplyKind \X BOOLEAN
        /\ m[1] = c /\ m[2] = k
    BY DEF ProxyTypes, ReplyKind
  <2>3. /\ down' \in Seq(Conn \X ReplyKind \X BOOLEAN) /\ Len(down') = Len(down) + 1
        /\ Len(down) \in Nat
        /\ \A i \in 1..Len(down) : down'[i] = down[i]
        /\ down'[Len(down) + 1] = m
    <3> HIDE DEF m
    <3> QED BY <2>1, <2>2
  <2>4. \A i \in 1..Len(down) : ~(down[i][1] = c /\ down[i][2] = k)
    BY <2>2, DownThere
  <2>5. OnceDown'
    <3> HIDE DEF m
    <3> SUFFICES ASSUME NEW i \in 1..Len(down'), NEW j \in 1..Len(down'),
                        down'[i][1] = down'[j][1], down'[i][2] = down'[j][2]
                 PROVE  i = j
      BY DEF OnceDown
    <3>1. OnceDown
      BY DEF QueueInv
    <3>2. i \in 1..Len(down) \/ i = Len(down) + 1
      BY <2>3
    <3>3. j \in 1..Len(down) \/ j = Len(down) + 1
      BY <2>3
    <3> QED BY <2>2, <2>3, <2>4, <3>1, <3>2, <3>3 DEF OnceDown
  <2>6. EventsAhead'
    <3>1. m[2] # "events"
      BY <2>2 DEF Proxy!RequestKind
    <3> HIDE DEF m
    <3> SUFFICES ASSUME NEW i \in 1..Len(down'), down'[i][2] = "events"
                 PROVE  \E j \in 1..Len(down') : j > i /\ down'[j] = <<down'[i][1], "call", TRUE>>
      BY DEF EventsAhead
    <3>2. i \in 1..Len(down) /\ down'[i] = down[i]
      BY <2>3, <3>1
    <3>3. PICK j \in 1..Len(down) : j > i /\ down[j] = <<down[i][1], "call", TRUE>>
      BY <3>2 DEF EventsAhead, QueueInv
    <3>4. j \in 1..Len(down') /\ down'[j] = down[j]
      <4>1. j \in 1..Len(down)
        BY <3>3
      <4> QED BY <2>3, <4>1
    <3>5. down'[j] = <<down'[i][1], "call", TRUE>>
      BY <3>2, <3>3, <3>4
    <3> QED BY <3>3, <3>4, <3>5
  <2>7. ASSUME NEW d \in Conn, NEW l \in ReplyKind, NEW g \in BOOLEAN
        PROVE  (\E i \in 1..Len(down') : down'[i] = <<d, l, g>>)
                  <=> (\E i \in 1..Len(down) : down[i] = <<d, l, g>>) \/ <<d, l, g>> = m
    <3>1. PICK n : n = <<d, l, g>>
      OBVIOUS
    <3> HIDE DEF m
    <3>2. (\E i \in 1..Len(down') : down'[i] = n) <=> (\E i \in 1..Len(down) : down[i] = n) \/ n = m
      <4>1. \A i \in 1..Len(down') : i \in 1..Len(down) \/ i = Len(down) + 1
        BY <2>3
      <4>2. Len(down) + 1 \in 1..Len(down') /\ \A i \in 1..Len(down) : i \in 1..Len(down')
        BY <2>3
      <4> QED BY <2>3, <4>1, <4>2
    <3> QED BY <3>1, <3>2
  <2>8. \A d \in Conn, l \in ReplyKind :
            /\ <<d, l, TRUE>> = m <=> d = c /\ l = k /\ f
            /\ <<d, l, FALSE>> = m <=> d = c /\ l = k /\ ~f
    OBVIOUS
  <2>9. \A d \in Conn, l \in ReplyKind :
            /\ Fine(d, l)' <=> Fine(d, l) \/ <<d, l, TRUE>> = m
            /\ Failed(d, l)' <=> Failed(d, l) \/ <<d, l, FALSE>> = m
    BY <2>7 DEF Fine, Failed
  <2>10. ~connected' => down' = <<>>
    BY <1>2
  <2> HIDE DEF m
  <2> QED BY <2>3, <2>5, <2>6, <2>8, <2>9, <2>10
<1> QED BY <1>1, <1>2

\* Events and the answer of a call, likewise together or not at all.
LEMMA RepliedEvents ==
    ASSUME ProxyTypes, QueueInv, NEW s, NEW c \in Conn, ~InDown(c, "call"),
           ~InDown(c, "events"),
           Proxy!Answer(s, <<<<c, "events", TRUE>>>> \o <<<<c, "call", TRUE>>>>),
           connected' = connected
    PROVE  /\ down' \in Seq(Conn \X ReplyKind \X BOOLEAN)
           /\ OnceDown' /\ EventsAhead' /\ (~connected' => down' = <<>>)
           /\ \A d \in Conn, l \in ReplyKind :
                 /\ Failed(d, l)' <=> Failed(d, l)
                 /\ d # c \/ l \notin {"call", "events"} => (Fine(d, l)' <=> Fine(d, l))
           /\ Fine(c, "events")' <=> Fine(c, "call")'
<1> DEFINE e == <<c, "events", TRUE>>
           m == <<c, "call", TRUE>>
<1>1. CASE ~(connected /\ s = session)
  <2>1. down' = down
    BY <1>1 DEF Proxy!Answer
  <2>2. \A d, l : (Fine(d, l)' <=> Fine(d, l)) /\ (Failed(d, l)' <=> Failed(d, l))
    BY <2>1 DEF Fine, Failed
  <2>3. OnceDown' /\ EventsAhead'
    BY <2>1 DEF QueueInv, OnceDown, EventsAhead
  <2>4. down' \in Seq(Conn \X ReplyKind \X BOOLEAN) /\ (~connected' => down' = <<>>)
    BY <2>1 DEF ProxyTypes, QueueInv
  <2> QED BY <2>2, <2>3, <2>4 DEF InDown
<1>2. CASE connected /\ s = session
  <2>1. down' = down \o (<<e>> \o <<m>>)
    BY <1>2 DEF Proxy!Answer
  <2>2. /\ down \in Seq(Conn \X ReplyKind \X BOOLEAN)
        /\ e \in Conn \X ReplyKind \X BOOLEAN /\ m \in Conn \X ReplyKind \X BOOLEAN
        /\ e[1] = c /\ e[2] = "events" /\ m[1] = c /\ m[2] = "call"
    BY DEF ProxyTypes, ReplyKind, Proxy!RequestKind
  <2>3. /\ down' \in Seq(Conn \X ReplyKind \X BOOLEAN) /\ Len(down') = Len(down) + 2
        /\ Len(down) \in Nat
        /\ \A i \in 1..Len(down) : down'[i] = down[i]
        /\ down'[Len(down) + 1] = e /\ down'[Len(down) + 2] = m
    <3> HIDE DEF e, m
    <3> QED BY <2>1, <2>2
  <2>4. \A i \in 1..Len(down) : ~(down[i][1] = c /\ down[i][2] \in {"call", "events"})
    BY <2>2, DownThere
  <2>5. OnceDown'
    <3> HIDE DEF e, m
    <3> SUFFICES ASSUME NEW i \in 1..Len(down'), NEW j \in 1..Len(down'),
                        down'[i][1] = down'[j][1], down'[i][2] = down'[j][2]
                 PROVE  i = j
      BY DEF OnceDown
    <3>1. OnceDown
      BY DEF QueueInv
    <3>2. i \in 1..Len(down) \/ i = Len(down) + 1 \/ i = Len(down) + 2
      BY <2>3
    <3>3. j \in 1..Len(down) \/ j = Len(down) + 1 \/ j = Len(down) + 2
      BY <2>3
    <3>4. i \in 1..Len(down) => ~(down'[i][1] = c /\ down'[i][2] \in {"call", "events"})
      BY <2>3, <2>4
    <3>5. j \in 1..Len(down) => ~(down'[j][1] = c /\ down'[j][2] \in {"call", "events"})
      BY <2>3, <2>4
    <3>6. i \notin 1..Len(down) => down'[i][1] = c /\ down'[i][2] \in {"call", "events"}
      BY <2>2, <2>3, <3>2
    <3>7. j \notin 1..Len(down) => down'[j][1] = c /\ down'[j][2] \in {"call", "events"}
      BY <2>2, <2>3, <3>3
    <3>8. CASE i \in 1..Len(down)
      <4>1. j \in 1..Len(down)
        BY <3>4, <3>7, <3>8
      <4>2. down[i][1] = down[j][1] /\ down[i][2] = down[j][2]
        BY <2>3, <3>8, <4>1
      <4> QED BY <3>1, <3>8, <4>1, <4>2 DEF OnceDown
    <3>9. CASE i \notin 1..Len(down)
      <4>1. j \notin 1..Len(down)
        BY <3>5, <3>6, <3>9
      <4> QED BY <2>2, <2>3, <3>2, <3>3, <3>9, <4>1
    <3> QED BY <3>8, <3>9
  <2>6. EventsAhead'
    <3> SUFFICES ASSUME NEW i \in 1..Len(down'), down'[i][2] = "events"
                 PROVE  \E j \in 1..Len(down') : j > i /\ down'[j] = <<down'[i][1], "call", TRUE>>
      BY DEF EventsAhead
    <3>1. CASE i \in 1..Len(down)
      <4>1. down'[i] = down[i]
        BY <2>3, <3>1
      <4>2. PICK j \in 1..Len(down) : j > i /\ down[j] = <<down[i][1], "call", TRUE>>
        BY <3>1, <4>1 DEF EventsAhead, QueueInv
      <4>3. j \in 1..Len(down') /\ down'[j] = down[j]
        <5>1. j \in 1..Len(down)
          BY <4>2
        <5> HIDE DEF e, m
        <5> QED BY <2>3, <5>1
      <4>4. down'[j] = <<down'[i][1], "call", TRUE>>
        BY <4>1, <4>2, <4>3
      <4> QED BY <4>2, <4>3, <4>4
    <3>2. CASE i = Len(down) + 1
      <4>1. /\ i + 1 \in 1..Len(down') /\ i + 1 > i
            /\ down'[i][1] = e[1] /\ down'[i + 1] = m
        <5> HIDE DEF e, m
        <5> QED BY <2>3, <3>2
      <4>2. m = <<e[1], "call", TRUE>>
        OBVIOUS
      <4>3. down'[i + 1] = <<down'[i][1], "call", TRUE>>
        BY <4>1, <4>2
      <4> QED BY <4>1, <4>3
    <3>3. CASE i = Len(down) + 2
      <4>1. m[2] = "events"
        <5> HIDE DEF e, m
        <5> QED BY <2>3, <3>3
      <4> QED BY <4>1
    <3>4. i \in 1..Len(down) \/ i = Len(down) + 1 \/ i = Len(down) + 2
      <4> HIDE DEF e, m
      <4> QED BY <2>3
    <3> QED BY <3>1, <3>2, <3>3, <3>4
  <2>7. ASSUME NEW d, NEW l, NEW g
        PROVE  (\E i \in 1..Len(down') : down'[i] = <<d, l, g>>)
                  <=> (\E i \in 1..Len(down) : down[i] = <<d, l, g>>) \/ <<d, l, g>> \in {e, m}
    <3>1. PICK n : n = <<d, l, g>>
      OBVIOUS
    <3> HIDE DEF e, m
    <3>2. (\E i \in 1..Len(down') : down'[i] = n)
             <=> (\E i \in 1..Len(down) : down[i] = n) \/ n = e \/ n = m
      <4>1. \A i \in 1..Len(down') :
               i \in 1..Len(down) \/ i = Len(down) + 1 \/ i = Len(down) + 2
        BY <2>3
      <4>2. /\ Len(down) + 1 \in 1..Len(down') /\ Len(down) + 2 \in 1..Len(down')
            /\ \A i \in 1..Len(down) : i \in 1..Len(down')
        BY <2>3
      <4> QED BY <2>3, <4>1, <4>2
    <3> QED BY <3>1, <3>2
  <2>8. \A d, l : /\ <<d, l, TRUE>> \in {e, m} <=> d = c /\ l \in {"call", "events"}
                  /\ <<d, l, FALSE>> \notin {e, m}
    OBVIOUS
  <2>9. \A d, l : /\ Fine(d, l)' <=> Fine(d, l) \/ <<d, l, TRUE>> \in {e, m}
                  /\ Failed(d, l)' <=> Failed(d, l) \/ <<d, l, FALSE>> \in {e, m}
    BY <2>7 DEF Fine, Failed
  <2>10. ~connected' => down' = <<>>
    BY <1>2
  <2> HIDE DEF e, m
  <2> QED BY <2>3, <2>5, <2>6, <2>8, <2>9, <2>10
<1> QED BY <1>1, <1>2

\* The answer or the events that the client gets next.
LEMMA Received ==
    ASSUME ProxyTypes, QueueInv, down # <<>>, down' = Tail(down), connected' = connected
    PROVE  /\ down' \in Seq(Conn \X ReplyKind \X BOOLEAN)
           /\ OnceDown' /\ EventsAhead' /\ (~connected' => down' = <<>>)
           /\ \E c \in Conn, k \in ReplyKind :
                 /\ Head(down)[1] = c /\ Head(down)[2] = k
                 /\ \/ Head(down)[3] = TRUE /\ Fine(c, k)
                    \/ Head(down)[3] = FALSE /\ Failed(c, k)
                 /\ ~InDown(c, k)'
                 /\ k = "call" => ~Fine(c, "events")
                 /\ \A d \in Conn, l \in ReplyKind : d # c \/ l # k =>
                       (Fine(d, l)' <=> Fine(d, l)) /\ (Failed(d, l)' <=> Failed(d, l))
<1>1. /\ down \in Seq(Conn \X ReplyKind \X BOOLEAN) /\ Head(down) = down[1]
      /\ Len(down) \in Nat /\ Len(down) > 0 /\ down[1] \in Conn \X ReplyKind \X BOOLEAN
  BY DEF ProxyTypes
<1>2. PICK c \in Conn, k \in ReplyKind, f \in BOOLEAN : down[1] = <<c, k, f>>
  BY <1>1
<1>3. /\ down' \in Seq(Conn \X ReplyKind \X BOOLEAN) /\ Len(down') = Len(down) - 1
      /\ \A i \in 1..Len(down') : down'[i] = down[i + 1]
  BY <1>1
<1>4. OnceDown'
  BY <1>1, <1>3 DEF OnceDown, QueueInv
<1>5. EventsAhead'
  <2> SUFFICES ASSUME NEW i \in 1..Len(down'), down'[i][2] = "events"
               PROVE  \E j \in 1..Len(down') : j > i /\ down'[j] = <<down'[i][1], "call", TRUE>>
    BY DEF EventsAhead
  <2>1. i + 1 \in 1..Len(down) /\ down[i + 1] = down'[i]
    BY <1>1, <1>3
  <2>2. PICK j \in 1..Len(down) : j > i + 1 /\ down[j] = <<down[i + 1][1], "call", TRUE>>
    BY <2>1 DEF EventsAhead, QueueInv
  <2>3. j - 1 \in 1..Len(down') /\ j - 1 > i
    BY <1>1, <1>3, <2>1, <2>2
  <2>4. j - 1 + 1 = j
    OBVIOUS
  <2>5. down'[j - 1] = down[j]
    BY <1>3, <2>3, <2>4
  <2>6. down'[j - 1] = <<down'[i][1], "call", TRUE>>
    BY <2>1, <2>2, <2>5
  <2> QED BY <2>3, <2>6
<1>6. ASSUME NEW n
      PROVE  (\E i \in 1..Len(down) : down[i] = n)
                <=> (\E i \in 1..Len(down') : down'[i] = n) \/ n = down[1]
  <2>1. ASSUME NEW i \in 1..Len(down), down[i] = n, n # down[1]
        PROVE  i - 1 \in 1..Len(down') /\ down'[i - 1] = n
    BY <1>1, <1>3, <2>1
  <2>2. ASSUME NEW i \in 1..Len(down'), down'[i] = n PROVE i + 1 \in 1..Len(down) /\ down[i + 1] = n
    BY <1>1, <1>3, <2>2
  <2>3. 1 \in 1..Len(down)
    BY <1>1
  <2> QED BY <2>1, <2>2, <2>3
<1>7. ASSUME NEW i \in 1..Len(down') PROVE ~(down'[i][1] = c /\ down'[i][2] = k)
  <2>1. i + 1 \in 1..Len(down) /\ down'[i] = down[i + 1] /\ 1 \in 1..Len(down) /\ i + 1 # 1
    BY <1>1, <1>3
  <2>2. down[1][1] = c /\ down[1][2] = k
    BY <1>2
  <2> QED BY <2>1, <2>2 DEF OnceDown, QueueInv
<1>8. ~InDown(c, k)'
  <2>1. ASSUME NEW i \in 1..Len(down'), NEW g, down'[i] = <<c, k, g>> PROVE FALSE
    BY <1>7, <2>1
  <2> QED BY <2>1 DEF InDown, Fine, Failed
<1>9. ASSUME k = "call" PROVE ~Fine(c, "events")
  <2> SUFFICES ASSUME NEW i \in 1..Len(down), down[i] = <<c, "events", TRUE>> PROVE FALSE
    BY DEF Fine
  <2>1. down[i][1] = c /\ down[i][2] = "events"
    OBVIOUS
  <2>2. PICK j \in 1..Len(down) : j > i /\ down[j] = <<c, "call", TRUE>>
    BY <2>1 DEF EventsAhead, QueueInv
  <2>3. j = 1
    <3>1. OnceDown /\ 1 \in 1..Len(down)
      BY <1>1 DEF QueueInv
    <3>2. down[j][1] = down[1][1] /\ down[j][2] = down[1][2]
      BY <1>2, <1>9, <2>2
    <3> QED BY <3>1, <3>2 DEF OnceDown
  <2> QED BY <2>2, <2>3
<1>10. ASSUME NEW d \in Conn, NEW l \in ReplyKind, d # c \/ l # k
       PROVE  (Fine(d, l)' <=> Fine(d, l)) /\ (Failed(d, l)' <=> Failed(d, l))
  <2>1. <<d, l, TRUE>> # <<c, k, f>> /\ <<d, l, FALSE>> # <<c, k, f>>
    BY <1>10
  <2>2. <<d, l, TRUE>> # down[1] /\ <<d, l, FALSE>> # down[1]
    BY <1>2, <2>1
  <2> QED BY <1>6, <2>2 DEF Fine, Failed
<1>11. /\ Head(down)[1] = c /\ Head(down)[2] = k
       /\ \/ Head(down)[3] = TRUE /\ Fine(c, k)
          \/ Head(down)[3] = FALSE /\ Failed(c, k)
  <2>1. 1 \in 1..Len(down)
    BY <1>1
  <2>2. Head(down)[1] = c /\ Head(down)[2] = k /\ Head(down)[3] = f
    BY <1>1, <1>2
  <2>3. CASE f = TRUE
    BY <1>2, <2>1, <2>2, <2>3 DEF Fine
  <2>4. CASE f = FALSE
    BY <1>2, <2>1, <2>2, <2>4 DEF Failed
  <2> QED BY <2>2, <2>3, <2>4
<1>12. ~connected' => down' = <<>>
  BY DEF QueueInv
<1> QED BY <1>3, <1>4, <1>5, <1>8, <1>9, <1>10, <1>11, <1>12

LEMMA UpKept ==
    ASSUME up' = up
    PROVE  /\ OnceUp => OnceUp'
           /\ \A c, k : InUp(c, k)' <=> InUp(c, k)
BY DEF OnceUp, InUp

LEMMA RunKept ==
    ASSUME running' = running
    PROVE  /\ OnceRun => OnceRun'
           /\ \A c, k : InRun(c, k)' <=> InRun(c, k)
BY DEF OnceRun, InRun

LEMMA DownKept ==
    ASSUME down' = down, connected' = connected
    PROVE  /\ OnceDown => OnceDown'
           /\ EventsAhead => EventsAhead'
           /\ (~connected => down = <<>>) => (~connected' => down' = <<>>)
           /\ \A c, k : (Fine(c, k)' <=> Fine(c, k)) /\ (Failed(c, k)' <=> Failed(c, k))
BY DEF OnceDown, EventsAhead, Fine, Failed

\* A request that is accepted, and one that is done.
LEMMA Accepted ==
    ASSUME ProxyTypes, OnceRun, NEW c \in Conn, NEW k \in Proxy!RequestKind, ~InRun(c, k),
           running' = running \union {<<session, <<c, k>>>>}
    PROVE  /\ running' \subseteq (1..session) \X (Conn \X Proxy!RequestKind) /\ OnceRun'
           /\ \A d \in Conn, l \in Proxy!RequestKind :
                 InRun(d, l)' <=> InRun(d, l) \/ (d = c /\ l = k)
<1>1. session \in 1..session
  BY DEF ProxyTypes
<1>2. running' \subseteq (1..session) \X (Conn \X Proxy!RequestKind)
  BY <1>1 DEF ProxyTypes
<1>3. OnceRun'
  BY DEF OnceRun, InRun
<1>4. \A d \in Conn, l \in Proxy!RequestKind :
         InRun(d, l)' <=> InRun(d, l) \/ <<d, l>> = <<c, k>>
  <2>1. PICK q : q = <<session, <<c, k>>>>
    OBVIOUS
  <2>2. q[2] = <<c, k>>
    BY <2>1
  <2>3. running' = running \union {q}
    BY <2>1
  <2> QED BY <2>2, <2>3 DEF InRun
<1> QED BY <1>2, <1>3, <1>4

LEMMA Finished ==
    ASSUME ProxyTypes, OnceRun, NEW r \in running, Proxy!Done(r)
    PROVE  /\ running' \subseteq (1..session) \X (Conn \X Proxy!RequestKind) /\ OnceRun'
           /\ r[1] \in 1..session
           /\ \E c \in Conn, k \in Proxy!RequestKind :
                 /\ r[2] = <<c, k>> /\ r[2][1] = c /\ r[2][2] = k
                 /\ InRun(c, k)
                 /\ \A d \in Conn, l \in Proxy!RequestKind :
                       InRun(d, l)' <=> InRun(d, l) /\ ~(d = c /\ l = k)
<1>1. running' = running \ {r} /\ r \in (1..session) \X (Conn \X Proxy!RequestKind)
  BY DEF ProxyTypes, Proxy!Done
<1>2. PICK c \in Conn, k \in Proxy!RequestKind : r[2] = <<c, k>>
  BY <1>1
<1>3. \A d \in Conn, l \in Proxy!RequestKind :
         InRun(d, l)' <=> InRun(d, l) /\ <<d, l>> # <<c, k>>
  BY <1>1, <1>2 DEF InRun, OnceRun
<1>4. \A d \in Conn, l \in Proxy!RequestKind :
         InRun(d, l)' <=> InRun(d, l) /\ ~(d = c /\ l = k)
  BY <1>3
<1>5. OnceRun' /\ running' \subseteq (1..session) \X (Conn \X Proxy!RequestKind)
  BY <1>1 DEF OnceRun, ProxyTypes
<1>6. InRun(c, k)
  BY <1>2 DEF InRun
<1> QED BY <1>1, <1>2, <1>4, <1>5, <1>6

\* The client sends a request.
LEMMA Sends ==
    ASSUME ProxyInv, NEW c \in Conn, NEW k \in Proxy!RequestKind, ~InUp(c, k),
           Proxy!Emit(c, k),
           UNCHANGED <<answered, heard, down, connected, session, Proxy!server>>
    PROVE  /\ up' \in Seq(Conn \X Proxy!RequestKind) /\ QueueInv'
           /\ UNCHANGED <<answered, heard, down, connected, session,
                          connections, contexts, running, listening, executed>>
           /\ \A d \in Conn, l \in Proxy!RequestKind :
                 InUp(d, l)' <=> InUp(d, l) \/ (d = c /\ l = k)
           /\ \A d, l : (InRun(d, l)' <=> InRun(d, l)) /\ (Fine(d, l)' <=> Fine(d, l))
                        /\ (Failed(d, l)' <=> Failed(d, l))
<1>1. UNCHANGED <<answered, heard, down, connected, session,
                  connections, contexts, running, listening, executed>>
  BY DEF Proxy!server
<1>2. /\ up' \in Seq(Conn \X Proxy!RequestKind) /\ OnceUp'
      /\ \A d \in Conn, l \in Proxy!RequestKind :
            InUp(d, l)' <=> InUp(d, l) \/ (d = c /\ l = k)
  BY Emitted DEF ProxyInv, QueueInv
<1>3. QueueInv'
  BY <1>1, <1>2, RunKept, DownKept DEF ProxyInv, QueueInv
<1> QED BY <1>1, <1>2, <1>3, RunKept, DownKept

LEMMA ConnectKeeps ==
    ASSUME ProxyInv, NEW c \in Conn, Proxy!Connect(c)
    PROVE  ProxyInv'
<1>1. phase[c] = "new" /\ Proxy!Emit(c, "connect")
      /\ phase' = [phase EXCEPT ![c] = "connecting"] /\ unanswered' = unanswered /\ asked' = asked
      /\ UNCHANGED <<answered, heard, down, connected, session, Proxy!server>>
  BY DEF Proxy!Connect
<1>2. ~InUp(c, "connect") /\ "connect" \in Proxy!RequestKind
  BY <1>1 DEF ProxyInv, ConnInv, TokenInv, Awaited, Proxy!RequestKind
<1>3. /\ up' \in Seq(Conn \X Proxy!RequestKind) /\ QueueInv'
      /\ UNCHANGED <<answered, heard, down, connected, session,
                     connections, contexts, running, listening, executed>>
      /\ \A d \in Conn, l \in Proxy!RequestKind :
            InUp(d, l)' <=> InUp(d, l) \/ (d = c /\ l = "connect")
      /\ \A d, l : (InRun(d, l)' <=> InRun(d, l)) /\ (Fine(d, l)' <=> Fine(d, l))
                   /\ (Failed(d, l)' <=> Failed(d, l))
  BY <1>1, <1>2, Sends
<1>4. \A d \in Conn : phase'[d] = IF d = c THEN "connecting" ELSE phase[d]
  BY <1>1 DEF ProxyInv, ProxyTypes
<1>5. ProxyTypes'
  BY <1>1, <1>3 DEF ProxyInv, ProxyTypes, Phase
<1>6. ASSUME NEW d \in Conn
      PROVE  TokenInv(d)' /\ CountInv(d)' /\ ListenInv(d)' /\ ServedInv(d)'
  <2>1. TokenInv(d) /\ CountInv(d) /\ ListenInv(d) /\ ServedInv(d)
    BY DEF ProxyInv, ConnInv
  <2>2. TokenInv(d)'
    BY <1>1, <1>3, <1>4, <2>1 DEF TokenInv, Awaited, InDown, Proxy!RequestKind
  <2>3. CountInv(d)'
    BY <1>1, <1>3, <2>1 DEF CountInv, Proxy!RequestKind
  <2>4. ListenInv(d)'
    BY <1>1, <1>3, <1>4, <2>1 DEF ListenInv, Proxy!RequestKind
  <2>5. ServedInv(d)'
    <3>1. phase'[d] \in {"open", "logging in", "ready"} => phase[d] = phase'[d]
      BY <1>4
    <3> QED BY <1>3, <2>1, <3>1 DEF ServedInv
  <2> QED BY <2>2, <2>3, <2>4, <2>5
<1> QED BY <1>3, <1>5, <1>6 DEF ProxyInv, ConnInv

LEMMA LoginKeeps ==
    ASSUME ProxyInv, NEW c \in Conn, Proxy!Login(c)
    PROVE  ProxyInv'
<1>1. phase[c] = "open" /\ Proxy!Emit(c, "login")
      /\ phase' = [phase EXCEPT ![c] = "logging in"] /\ unanswered' = unanswered /\ asked' = asked
      /\ UNCHANGED <<answered, heard, down, connected, session, Proxy!server>>
  BY DEF Proxy!Login
<1>2. ~InUp(c, "login") /\ "login" \in Proxy!RequestKind
  BY <1>1 DEF ProxyInv, ConnInv, TokenInv, Awaited, Proxy!RequestKind
<1>3. /\ up' \in Seq(Conn \X Proxy!RequestKind) /\ QueueInv'
      /\ UNCHANGED <<answered, heard, down, connected, session,
                     connections, contexts, running, listening, executed>>
      /\ \A d \in Conn, l \in Proxy!RequestKind :
            InUp(d, l)' <=> InUp(d, l) \/ (d = c /\ l = "login")
      /\ \A d, l : (InRun(d, l)' <=> InRun(d, l)) /\ (Fine(d, l)' <=> Fine(d, l))
                   /\ (Failed(d, l)' <=> Failed(d, l))
  BY <1>1, <1>2, Sends
<1>4. \A d \in Conn : phase'[d] = IF d = c THEN "logging in" ELSE phase[d]
  BY <1>1 DEF ProxyInv, ProxyTypes
<1>5. ProxyTypes'
  BY <1>1, <1>3 DEF ProxyInv, ProxyTypes, Phase
<1>6. ASSUME NEW d \in Conn
      PROVE  TokenInv(d)' /\ CountInv(d)' /\ ListenInv(d)' /\ ServedInv(d)'
  <2>1. TokenInv(d) /\ CountInv(d) /\ ListenInv(d) /\ ServedInv(d)
    BY DEF ProxyInv, ConnInv
  <2>2. TokenInv(d)'
    BY <1>1, <1>3, <1>4, <2>1 DEF TokenInv, Awaited, InDown, Proxy!RequestKind
  <2>3. CountInv(d)'
    BY <1>1, <1>3, <2>1 DEF CountInv, Proxy!RequestKind
  <2>4. ListenInv(d)'
    BY <1>1, <1>3, <1>4, <2>1 DEF ListenInv, Proxy!RequestKind
  <2>5. ServedInv(d)'
    <3>1. /\ phase'[d] \in {"open", "logging in", "ready"} =>
                phase[d] \in {"open", "logging in", "ready"}
          /\ phase'[d] = "ready" => phase[d] = "ready"
      <4>1. phase[c] = "open"
        BY <1>1
      <4>2. CASE d = c
        BY <1>4, <4>1, <4>2
      <4>3. CASE d # c
        BY <1>4, <4>3
      <4> QED BY <4>2, <4>3
    <3> QED BY <1>3, <2>1, <3>1 DEF ServedInv
  <2> QED BY <2>2, <2>3, <2>4, <2>5
<1> QED BY <1>3, <1>5, <1>6 DEF ProxyInv, ConnInv

LEMMA DisconnectKeeps ==
    ASSUME ProxyInv, NEW c \in Conn, Proxy!Disconnect(c)
    PROVE  ProxyInv'
<1>1. phase[c] = "ready" /\ Proxy!Emit(c, "disconnect")
      /\ phase' = [phase EXCEPT ![c] = "disconnecting"]
      /\ unanswered' = unanswered /\ asked' = asked
      /\ UNCHANGED <<answered, heard, down, connected, session, Proxy!server>>
  BY DEF Proxy!Disconnect
<1>2. ~InUp(c, "disconnect") /\ "disconnect" \in Proxy!RequestKind
  BY <1>1 DEF ProxyInv, ConnInv, TokenInv, Awaited, Proxy!RequestKind
<1>3. /\ up' \in Seq(Conn \X Proxy!RequestKind) /\ QueueInv'
      /\ UNCHANGED <<answered, heard, down, connected, session,
                     connections, contexts, running, listening, executed>>
      /\ \A d \in Conn, l \in Proxy!RequestKind :
            InUp(d, l)' <=> InUp(d, l) \/ (d = c /\ l = "disconnect")
      /\ \A d, l : (InRun(d, l)' <=> InRun(d, l)) /\ (Fine(d, l)' <=> Fine(d, l))
                   /\ (Failed(d, l)' <=> Failed(d, l))
  BY <1>1, <1>2, Sends
<1>4. \A d \in Conn : phase'[d] = IF d = c THEN "disconnecting" ELSE phase[d]
  BY <1>1 DEF ProxyInv, ProxyTypes
<1>5. ProxyTypes'
  BY <1>1, <1>3 DEF ProxyInv, ProxyTypes, Phase
<1>6. ASSUME NEW d \in Conn
      PROVE  TokenInv(d)' /\ CountInv(d)' /\ ListenInv(d)' /\ ServedInv(d)'
  <2>1. TokenInv(d) /\ CountInv(d) /\ ListenInv(d) /\ ServedInv(d)
    BY DEF ProxyInv, ConnInv
  <2>2. TokenInv(d)'
    BY <1>1, <1>3, <1>4, <2>1 DEF TokenInv, Awaited, InDown, Proxy!RequestKind
  <2>3. CountInv(d)'
    BY <1>1, <1>3, <2>1 DEF CountInv, Proxy!RequestKind
  <2>4. ListenInv(d)'
    BY <1>1, <1>3, <1>4, <2>1 DEF ListenInv, Proxy!RequestKind
  <2>5. ServedInv(d)'
    <3>1. phase'[d] \in {"open", "logging in", "ready"} => phase[d] = phase'[d]
      BY <1>4
    <3> QED BY <1>3, <2>1, <3>1 DEF ServedInv
  <2> QED BY <2>2, <2>3, <2>4, <2>5
<1> QED BY <1>3, <1>5, <1>6 DEF ProxyInv, ConnInv

LEMMA CallKeeps ==
    ASSUME ProxyInv, NEW c \in Conn, Proxy!Invoke(c)
    PROVE  ProxyInv'
<1>1. phase[c] = "ready" /\ ~unanswered[c] /\ Proxy!Emit(c, "call")
      /\ unanswered' = [unanswered EXCEPT ![c] = TRUE]
      /\ asked' = [asked EXCEPT ![c] = asked[c] + 1] /\ phase' = phase
      /\ UNCHANGED <<answered, heard, down, connected, session, Proxy!server>>
  BY DEF Proxy!Invoke
<1>2. ~Awaited(c, "call") /\ ~InUp(c, "call") /\ "call" \in Proxy!RequestKind
  BY <1>1 DEF ProxyInv, ConnInv, TokenInv, Awaited, Proxy!RequestKind
<1>3. /\ up' \in Seq(Conn \X Proxy!RequestKind) /\ QueueInv'
      /\ UNCHANGED <<answered, heard, down, connected, session,
                     connections, contexts, running, listening, executed>>
      /\ \A d \in Conn, l \in Proxy!RequestKind :
            InUp(d, l)' <=> InUp(d, l) \/ (d = c /\ l = "call")
      /\ \A d, l : (InRun(d, l)' <=> InRun(d, l)) /\ (Fine(d, l)' <=> Fine(d, l))
                   /\ (Failed(d, l)' <=> Failed(d, l))
  BY <1>1, <1>2, Sends
<1>4. /\ \A d \in Conn : asked'[d] = IF d = c THEN asked[d] + 1 ELSE asked[d]
      /\ unanswered'[c] /\ \A d \in Conn \ {c} : unanswered'[d] = unanswered[d]
  BY <1>1 DEF ProxyInv, ProxyTypes
<1>5. ProxyTypes'
  <2>1. asked' \in [Conn -> Nat] /\ unanswered' \in [Conn -> BOOLEAN]
    BY <1>1 DEF ProxyInv, ProxyTypes
  <2> QED BY <1>1, <1>3, <2>1 DEF ProxyInv, ProxyTypes
<1>6. ASSUME NEW d \in Conn
      PROVE  TokenInv(d)' /\ CountInv(d)' /\ ListenInv(d)' /\ ServedInv(d)'
  <2>1. TokenInv(d) /\ CountInv(d) /\ ListenInv(d) /\ ServedInv(d)
    BY DEF ProxyInv, ConnInv
  <2>2. TokenInv(d)'
    BY <1>1, <1>2, <1>3, <1>4, <2>1 DEF TokenInv, Awaited, InDown, Proxy!RequestKind
  <2>3. CountInv(d)'
    <3>1. asked[d] \in Nat /\ executed[d] \in Nat
      BY DEF ProxyInv, ProxyTypes
    <3> QED BY <1>3, <1>4, <2>1, <3>1 DEF CountInv, Proxy!RequestKind
  <2>4. ListenInv(d)'
    BY <1>1, <1>3, <2>1 DEF ListenInv, Proxy!RequestKind
  <2>5. ServedInv(d)'
    <3>1. phase'[d] = phase[d]
      BY <1>1
    <3> QED BY <1>3, <2>1, <3>1 DEF ServedInv
  <2> QED BY <2>2, <2>3, <2>4, <2>5
<1> QED BY <1>3, <1>5, <1>6 DEF ProxyInv, ConnInv

\* The client gets an answer or an event.
LEMMA ReceiveKeeps ==
    ASSUME ProxyInv, Proxy!Receive
    PROVE  ProxyInv'
<1>1. /\ down # <<>> /\ down' = Tail(down) /\ connected' = connected
      /\ UNCHANGED <<asked, up, session, connections, contexts, running, listening, executed>>
  BY DEF Proxy!Receive, Proxy!server
<1>2. /\ down' \in Seq(Conn \X ReplyKind \X BOOLEAN)
      /\ OnceDown' /\ EventsAhead' /\ (~connected' => down' = <<>>)
  BY <1>1, Received DEF ProxyInv
<1>3. PICK c \in Conn, k \in ReplyKind :
         /\ Head(down)[1] = c /\ Head(down)[2] = k
         /\ \/ Head(down)[3] = TRUE /\ Fine(c, k)
            \/ Head(down)[3] = FALSE /\ Failed(c, k)
         /\ ~InDown(c, k)'
         /\ k = "call" => ~Fine(c, "events")
         /\ \A d \in Conn, l \in ReplyKind : d # c \/ l # k =>
               (Fine(d, l)' <=> Fine(d, l)) /\ (Failed(d, l)' <=> Failed(d, l))
  BY <1>1, Received DEF ProxyInv
<1>4. Head(down)[1] = c /\ Head(down)[2] = k
  BY <1>3
<1>5. QueueInv'
  BY <1>1, <1>2, UpKept, RunKept DEF ProxyInv, QueueInv
<1>6. /\ \A d, l : (InUp(d, l)' <=> InUp(d, l)) /\ (InRun(d, l)' <=> InRun(d, l))
  BY <1>1, UpKept, RunKept
<1>7. ProxyTypes
  BY DEF ProxyInv
<1>8. \A d \in Conn : TokenInv(d) /\ CountInv(d) /\ ListenInv(d) /\ ServedInv(d)
  BY DEF ProxyInv, ConnInv
<1>9. CASE k = "events"
  <2>1. heard' = [heard EXCEPT ![c] = heard[c] + 1] /\ UNCHANGED <<phase, unanswered, answered>>
    BY <1>4, <1>9 DEF Proxy!Receive
  <2>2. ProxyTypes'
    <3>1. heard' \in [Conn -> Nat]
      BY <1>7, <2>1 DEF ProxyTypes
    <3> QED BY <1>1, <1>2, <1>7, <2>1, <3>1 DEF ProxyTypes
  <2>3. \A d \in Conn : heard'[d] = IF d = c THEN heard[d] + 1 ELSE heard[d]
    BY <1>7, <2>1 DEF ProxyTypes
  <2>4. ~Failed(c, "events") /\ Fine(c, "events")
    BY <1>3, <1>8, <1>9 DEF TokenInv
  <2>5. ASSUME NEW d \in Conn
        PROVE  TokenInv(d)' /\ CountInv(d)' /\ ListenInv(d)' /\ ServedInv(d)'
    <3>1. TokenInv(d) /\ CountInv(d) /\ ListenInv(d) /\ ServedInv(d)
      BY <1>8
    <3>2. /\ \A l \in Proxy!RequestKind :
                (Fine(d, l)' <=> Fine(d, l)) /\ (Failed(d, l)' <=> Failed(d, l))
          /\ Fine(d, "events")' => Fine(d, "events") /\ d # c
          /\ d # c => (Fine(d, "events")' <=> Fine(d, "events"))
          /\ Failed(d, "events")' => Failed(d, "events")
      BY <1>3, <1>9 DEF InDown, ReplyKind, Proxy!RequestKind
    <3>3. TokenInv(d)'
      BY <1>6, <2>1, <3>1, <3>2 DEF TokenInv, Awaited, InDown, Proxy!RequestKind
    <3>4. CountInv(d)'
      <4>1. /\ heard[d] \in Nat /\ answered[d] \in Nat /\ executed[d] \in Nat
            /\ asked' = asked /\ executed' = executed /\ answered' = answered
        BY <1>1, <1>7, <2>1 DEF ProxyTypes
      <4>2. Fine(d, "call")' <=> Fine(d, "call")
        BY <3>2 DEF Proxy!RequestKind
      <4> QED BY <1>6, <2>3, <2>4, <3>1, <3>2, <4>1, <4>2 DEF CountInv
    <3>5. ListenInv(d)'
      BY <1>1, <1>6, <2>1, <3>1 DEF ListenInv
    <3>6. ServedInv(d)'
      BY <1>1, <2>1, <3>1, <3>2 DEF ServedInv, Proxy!RequestKind
    <3> QED BY <3>3, <3>4, <3>5, <3>6
  <2> QED BY <1>5, <2>2, <2>5 DEF ProxyInv, ConnInv
<1>10. CASE k = "call"
  <2>1. /\ heard' = heard /\ phase' = phase
        /\ unanswered' = [unanswered EXCEPT ![c] = FALSE]
        /\ answered' = [answered EXCEPT ![c] = answered[c] + IF Head(down)[3] THEN 1 ELSE 0]
    BY <1>4, <1>10 DEF Proxy!Receive
  <2>2. ~Fine(c, "events") /\ InDown(c, "call")
    BY <1>3, <1>10 DEF InDown
  <2>3. \/ Fine(c, "call") /\ answered' = [answered EXCEPT ![c] = answered[c] + 1]
        \/ answered' = answered
    <3>1. CASE Head(down)[3] = TRUE /\ Fine(c, k)
      BY <1>10, <2>1, <3>1
    <3>2. CASE Head(down)[3] = FALSE
      <4>1. answered' = [answered EXCEPT ![c] = answered[c] + 0]
        BY <2>1, <3>2
      <4> QED BY <1>7, <4>1 DEF ProxyTypes
    <3> QED BY <1>3, <3>1, <3>2
  <2>4. ProxyTypes'
    <3>1. unanswered' \in [Conn -> BOOLEAN] /\ answered' \in [Conn -> Nat]
      <4>1. unanswered' \in [Conn -> BOOLEAN]
        BY <1>7, <2>1 DEF ProxyTypes
      <4>2. answered \in [Conn -> Nat] /\ answered[c] + 1 \in Nat
        BY <1>7 DEF ProxyTypes
      <4>3. answered' \in [Conn -> Nat]
        BY <2>3, <4>2
      <4> QED BY <4>1, <4>3
    <3> QED BY <1>1, <1>2, <1>7, <2>1, <3>1 DEF ProxyTypes
  <2>5. /\ \A d \in Conn \ {c} : unanswered'[d] = unanswered[d] /\ answered'[d] = answered[d]
        /\ \/ Fine(c, "call") /\ answered'[c] = answered[c] + 1
           \/ answered'[c] = answered[c]
    BY <1>7, <2>1, <2>3 DEF ProxyTypes
  <2>6. ASSUME NEW d \in Conn
        PROVE  TokenInv(d)' /\ CountInv(d)' /\ ListenInv(d)' /\ ServedInv(d)'
    <3>1. TokenInv(d) /\ CountInv(d) /\ ListenInv(d) /\ ServedInv(d)
      BY <1>8
    <3>2. /\ \A l \in ReplyKind \ {"call"} :
                (Fine(d, l)' <=> Fine(d, l)) /\ (Failed(d, l)' <=> Failed(d, l))
          /\ d # c => /\ Fine(d, "call")' <=> Fine(d, "call")
                      /\ Failed(d, "call")' <=> Failed(d, "call")
          /\ d = c => ~Fine(d, "call")' /\ ~Failed(d, "call")' /\ ~Fine(d, "events")
      BY <1>3, <1>10 DEF InDown, ReplyKind, Proxy!RequestKind
    <3>3. \A l \in {"connect", "login", "disconnect", "events"} :
             (Fine(d, l)' <=> Fine(d, l)) /\ (Failed(d, l)' <=> Failed(d, l))
      BY <3>2 DEF ReplyKind, Proxy!RequestKind
    <3>4. TokenInv(d)'
      <4>1. d = c => ~InUp(d, "call") /\ ~InRun(d, "call")
        BY <2>2, <3>1 DEF TokenInv, Proxy!RequestKind
      <4> QED BY <1>6, <2>1, <2>5, <3>1, <3>2, <3>3, <4>1
           DEF TokenInv, Awaited, InDown, Proxy!RequestKind
    <3>5. CountInv(d)'
      <4>1. /\ heard[d] \in Nat /\ answered[d] \in Nat /\ executed[d] \in Nat
            /\ asked' = asked /\ executed' = executed /\ heard' = heard
        BY <1>1, <1>7, <2>1 DEF ProxyTypes
      <4> QED BY <1>6, <2>2, <2>5, <3>1, <3>2, <3>3, <4>1 DEF CountInv
    <3>6. ListenInv(d)'
      BY <1>1, <1>6, <2>1, <3>1 DEF ListenInv
    <3>7. ServedInv(d)'
      BY <1>1, <2>1, <3>1, <3>3 DEF ServedInv
    <3> QED BY <3>4, <3>5, <3>6, <3>7
  <2> QED BY <1>5, <2>4, <2>6 DEF ProxyInv, ConnInv
<1>11. CASE k \notin {"events", "call"}
  <2>1. /\ UNCHANGED <<unanswered, answered, heard>>
        /\ phase' = [phase EXCEPT ![c] = Proxy!After(c, k, Head(down)[3])]
    BY <1>4, <1>11 DEF Proxy!Receive
  <2>2. k \in {"connect", "login", "disconnect"}
    BY <1>11 DEF ReplyKind, Proxy!RequestKind
  <2>3. /\ phase' = [phase EXCEPT ![c] = phase'[c]]
        /\ \/ phase'[c] = "failed"
           \/ k = "connect" /\ Fine(c, k) /\ phase'[c] = "open"
           \/ k = "login" /\ Fine(c, k) /\ phase'[c] = "ready"
           \/ k = "disconnect" /\ phase'[c] = "closed"
    <3>1. phase'[c] = Proxy!After(c, k, Head(down)[3])
      BY <1>7, <2>1 DEF ProxyTypes
    <3>2. CASE Head(down)[3] = TRUE /\ Fine(c, k)
      BY <2>1, <2>2, <3>1, <3>2 DEF Proxy!After
    <3>3. CASE Head(down)[3] = FALSE
      BY <2>1, <2>2, <3>1, <3>3 DEF Proxy!After
    <3> QED BY <1>3, <3>2, <3>3
  <2>4. ProxyTypes'
    <3>1. phase' \in [Conn -> Phase]
      BY <1>7, <2>3 DEF ProxyTypes, Phase
    <3> QED BY <1>1, <1>2, <1>7, <2>1, <3>1 DEF ProxyTypes
  <2>5. \A d \in Conn \ {c} : phase'[d] = phase[d]
    BY <1>7, <2>1 DEF ProxyTypes
  <2>6. /\ k = "connect" => phase[c] = "connecting"
        /\ k = "login" => phase[c] = "logging in"
        /\ k = "disconnect" => phase[c] = "disconnecting"
    <3>1. TokenInv(c) /\ InDown(c, k)
      BY <1>3, <1>8 DEF InDown
    <3> QED BY <3>1 DEF TokenInv, Awaited
  <2>7. ASSUME NEW d \in Conn
        PROVE  TokenInv(d)' /\ CountInv(d)' /\ ListenInv(d)' /\ ServedInv(d)'
    <3>1. TokenInv(d) /\ CountInv(d) /\ ListenInv(d) /\ ServedInv(d)
      BY <1>8
    <3>2. /\ \A l \in ReplyKind : d # c \/ l # k =>
                (Fine(d, l)' <=> Fine(d, l)) /\ (Failed(d, l)' <=> Failed(d, l))
          /\ d = c => ~Fine(d, k)' /\ ~Failed(d, k)'
          /\ {"connect", "login", "call", "disconnect", "events"} = ReplyKind
      BY <1>3 DEF InDown, ReplyKind, Proxy!RequestKind
    <3>3. TokenInv(d)'
      <4>1. d = c => InDown(c, k)
        BY <1>3 DEF InDown
      <4>2. d = c => ~InUp(d, k) /\ ~InRun(d, k)
        BY <2>2, <3>1, <4>1 DEF TokenInv, Proxy!RequestKind
      <4>3. \A l \in ReplyKind : InDown(d, l)' => InDown(d, l) /\ (d # c \/ l # k)
        BY <3>2 DEF InDown
      <4>4. Awaited(d, "connect")' => Awaited(d, "connect") /\ (d # c \/ "connect" # k)
        BY <1>6, <3>2, <4>2, <4>3 DEF Awaited
      <4>5. Awaited(d, "login")' => Awaited(d, "login") /\ (d # c \/ "login" # k)
        BY <1>6, <3>2, <4>2, <4>3 DEF Awaited
      <4>6. Awaited(d, "disconnect")' => Awaited(d, "disconnect") /\ (d # c \/ "disconnect" # k)
        BY <1>6, <3>2, <4>2, <4>3 DEF Awaited
      <4>7. Awaited(d, "call")' => Awaited(d, "call")
        BY <1>6, <3>2, <4>3 DEF Awaited
      <4>8. /\ Awaited(d, "connect")' => phase'[d] = "connecting"
            /\ Awaited(d, "login")' => phase'[d] = "logging in"
            /\ Awaited(d, "disconnect")' => phase'[d] = "disconnecting"
        <5>1. CASE d # c
          BY <2>5, <3>1, <4>4, <4>5, <4>6, <5>1 DEF TokenInv
        <5>2. CASE d = c
          BY <2>2, <2>6, <3>1, <4>4, <4>5, <4>6, <5>2 DEF TokenInv
        <5> QED BY <5>1, <5>2
      <4>9. Awaited(d, "call")' => unanswered'[d]
        BY <2>1, <3>1, <4>7 DEF TokenInv
      <4>10. \A l \in Proxy!RequestKind :
                /\ ~(InUp(d, l) /\ InRun(d, l))'
                /\ InDown(d, l)' => ~InUp(d, l)' /\ ~InRun(d, l)'
        BY <1>6, <3>1, <4>3 DEF TokenInv, ReplyKind
      <4>11. ~Failed(d, "events")' /\ (Fine(d, "events")' => Fine(d, "call")')
        BY <1>11, <3>1, <3>2 DEF TokenInv
      <4> QED BY <4>8, <4>9, <4>10, <4>11 DEF TokenInv
    <3>4. CountInv(d)'
      <4>1. (Fine(d, "events")' <=> Fine(d, "events")) /\ (Fine(d, "call")' <=> Fine(d, "call"))
        BY <1>11, <3>2
      <4> QED BY <1>1, <1>6, <2>1, <3>1, <4>1 DEF CountInv
    <3>5. ListenInv(d)'
      <4>1. d = c => (listening[d] # <<>> => phase'[d] \notin {"new", "connecting", "open"})
        BY <2>3, <2>6, <3>1 DEF ListenInv
      <4>2. d # c => phase'[d] = phase[d]
        BY <2>5
      <4> QED BY <1>1, <1>6, <3>1, <4>1, <4>2 DEF ListenInv
    <3>6. ServedInv(d)'
      <4>1. CASE d # c
        BY <1>1, <2>5, <3>1, <3>2, <4>1 DEF ServedInv
      <4>2. CASE d = c
        <5>1. /\ Fine(d, "connect")' => Fine(d, "connect")
              /\ Fine(d, "login")' => Fine(d, "login")
          BY <3>2, <4>2
        <5>2. phase'[d] \in {"open", "logging in", "ready"} =>
                 Fine(d, "connect") \/ phase[d] = "logging in"
          BY <2>3, <2>6, <4>2
        <5>3. phase'[d] = "ready" => Fine(d, "login")
          BY <2>3, <4>2
        <5> QED BY <1>1, <3>1, <5>1, <5>2, <5>3 DEF ServedInv
      <4> QED BY <4>1, <4>2
    <3> QED BY <3>3, <3>4, <3>5, <3>6
  <2> QED BY <1>5, <2>4, <2>7 DEF ProxyInv, ConnInv
<1> QED BY <1>9, <1>10, <1>11

\* The server answers a request: no more than that it was refused, or has done without
\* an execution.
LEMMA ReplyKeeps ==
    ASSUME ProxyInv, NEW c \in Conn, NEW k \in Proxy!RequestKind, NEW f \in BOOLEAN,
           InUp(c, k) \/ InRun(c, k), f => k # "call",
           \A d \in Conn, l \in Proxy!RequestKind :
              /\ (InUp(d, l)' => InUp(d, l)) /\ (InRun(d, l)' => InRun(d, l))
              /\ d = c /\ l = k => ~InUp(d, l)' /\ ~InRun(d, l)',
           \A d \in Conn, l \in ReplyKind :
              /\ (Fine(d, l) => Fine(d, l)') /\ (Failed(d, l) => Failed(d, l)')
              /\ Fine(d, l)' => Fine(d, l) \/ (d = c /\ l = k /\ f)
              /\ Failed(d, l)' => Failed(d, l) \/ (d = c /\ l = k /\ ~f),
           UNCHANGED <<phase, unanswered, asked, answered, heard, executed>>
    PROVE  \A d \in Conn : TokenInv(d)' /\ CountInv(d)'
<1> SUFFICES ASSUME NEW d \in Conn PROVE TokenInv(d)' /\ CountInv(d)'
  OBVIOUS
<1>1. TokenInv(d) /\ CountInv(d) /\ TokenInv(c)
  BY DEF ProxyInv, ConnInv
<1>2. {"connect", "login", "call", "disconnect"} = Proxy!RequestKind
      /\ {"connect", "login", "call", "disconnect", "events"} = ReplyKind
  BY DEF ReplyKind, Proxy!RequestKind
<1>3. \A l \in Proxy!RequestKind : InDown(d, l)' => InDown(d, l) \/ (d = c /\ l = k)
  BY <1>2 DEF InDown
<1>4. \A l \in Proxy!RequestKind : Awaited(d, l)' => Awaited(d, l)
  BY <1>3 DEF Awaited
<1>5. /\ Awaited(d, "connect")' => phase'[d] = "connecting"
      /\ Awaited(d, "login")' => phase'[d] = "logging in"
      /\ Awaited(d, "disconnect")' => phase'[d] = "disconnecting"
      /\ Awaited(d, "call")' => unanswered'[d]
  BY <1>1, <1>2, <1>4 DEF TokenInv
<1>6. \A l \in Proxy!RequestKind :
         ~(InUp(d, l) /\ InRun(d, l))' /\ (InDown(d, l)' => ~InUp(d, l)' /\ ~InRun(d, l)')
  BY <1>1, <1>3 DEF TokenInv
<1>7. ~Failed(d, "events")' /\ (Fine(d, "events")' => Fine(d, "call")' /\ Fine(d, "events"))
  BY <1>1, <1>2 DEF TokenInv
<1>8. TokenInv(d)'
  BY <1>5, <1>6, <1>7 DEF TokenInv
<1>9. CountInv(d)'
  <2>1. /\ Fine(d, "events")' <=> Fine(d, "events")
        /\ Fine(d, "call")' => Fine(d, "call")
    BY <1>2, <1>7
  <2>2. InUp(d, "call")' \/ InRun(d, "call")' => InUp(d, "call") \/ InRun(d, "call")
    BY <1>2
  <2> QED BY <1>1, <2>1, <2>2 DEF CountInv
<1> QED BY <1>8, <1>9

LEMMA RefuseKeeps ==
    ASSUME ProxyInv, Proxy!Refuse
    PROVE  ProxyInv'
<1>1. /\ Proxy!Deliver
      /\ Proxy!Answer(session, <<<<Proxy!Sender, Proxy!Kind, FALSE>>>>)
      /\ UNCHANGED <<phase, unanswered, asked, answered, heard, connected, session,
                     connections, contexts, running, listening, executed>>
  BY DEF Proxy!Refuse, Proxy!client, Proxy!server
<1>2. PICK c \in Conn, k \in Proxy!RequestKind :
              /\ Head(up) = <<c, k>> /\ Proxy!Sender = c /\ Proxy!Kind = k
              /\ InUp(c, k)
              /\ up' \in Seq(Conn \X Proxy!RequestKind) /\ OnceUp'
              /\ \A d \in Conn, l \in Proxy!RequestKind :
                    InUp(d, l)' <=> InUp(d, l) /\ ~(d = c /\ l = k)
  BY <1>1, Taken DEF ProxyInv, QueueInv
<1>3. \A d \in Conn : TokenInv(d) /\ CountInv(d) /\ ListenInv(d) /\ ServedInv(d)
  BY DEF ProxyInv, ConnInv
<1>4. ~InDown(c, k) /\ ~InRun(c, k)
  BY <1>2, <1>3 DEF TokenInv
<1> PICK f \in BOOLEAN : f = FALSE
  OBVIOUS
<1>5. /\ down' = down \/ (connected /\ down' = down \o <<<<c, k, f>>>>)
      /\ connected' = connected
  <2>1. Proxy!Answer(session, <<<<c, k, f>>>>)
    BY <1>1, <1>2
  <2> QED BY <1>1, <2>1 DEF Proxy!Answer
<1>6. /\ down' \in Seq(Conn \X ReplyKind \X BOOLEAN)
      /\ OnceDown' /\ EventsAhead' /\ (~connected' => down' = <<>>)
      /\ \A d \in Conn, l \in ReplyKind :
            /\ Fine(d, l) => Fine(d, l)'
            /\ Failed(d, l) => Failed(d, l)'
            /\ Fine(d, l)' => Fine(d, l) \/ (d = c /\ l = k /\ f)
            /\ Failed(d, l)' => Failed(d, l) \/ (d = c /\ l = k /\ ~f)
  BY <1>4, <1>5, Replied DEF ProxyInv
<1>7. ProxyTypes'
  BY <1>1, <1>2, <1>6 DEF ProxyInv, ProxyTypes
<1>8. QueueInv'
  BY <1>1, <1>2, <1>6, RunKept DEF ProxyInv, QueueInv
<1>9. \A d, l : InRun(d, l)' <=> InRun(d, l)
  BY <1>1, RunKept
<1>10. \A d \in Conn : TokenInv(d)' /\ CountInv(d)'
  <2>1. \A d \in Conn, l \in Proxy!RequestKind :
           /\ (InUp(d, l)' => InUp(d, l)) /\ (InRun(d, l)' => InRun(d, l))
           /\ d = c /\ l = k => ~InUp(d, l)' /\ ~InRun(d, l)'
    BY <1>2, <1>4, <1>9
  <2>2. f => k # "call"
    OBVIOUS
  <2>3. UNCHANGED <<phase, unanswered, asked, answered, heard, executed>>
    BY <1>1
  <2>4. InUp(c, k) \/ InRun(c, k)
    BY <1>2
  <2> QED BY <1>6, <2>1, <2>2, <2>3, <2>4, ReplyKeeps
<1>11. ASSUME NEW d \in Conn PROVE ListenInv(d)' /\ ServedInv(d)'
  <2>1. /\ Fine(d, "connect")' => Fine(d, "connect")
        /\ Fine(d, "login")' => Fine(d, "login")
        /\ InUp(d, "login")' => InUp(d, "login")
    BY <1>2, <1>6 DEF ReplyKind, Proxy!RequestKind
  <2>2. ListenInv(d)'
    BY <1>1, <1>3, <1>9, <2>1 DEF ListenInv
  <2>3. ServedInv(d)'
    BY <1>1, <1>3, <2>1 DEF ServedInv
  <2> QED BY <2>2, <2>3
<1> QED BY <1>7, <1>8, <1>10, <1>11 DEF ProxyInv, ConnInv

LEMMA AcceptKeeps ==
    ASSUME ProxyInv, Proxy!Accept
    PROVE  ProxyInv'
<1>1. /\ Proxy!Deliver /\ Proxy!Known
      /\ running' = running \union {<<session, Head(up)>>}
      /\ connections' = IF Proxy!Kind = "disconnect" THEN connections \ {Proxy!Sender}
                        ELSE connections
      /\ UNCHANGED <<phase, unanswered, asked, answered, heard, down, connected, session,
                     contexts, listening, executed>>
  BY DEF Proxy!Accept, Proxy!client
<1>2. PICK c \in Conn, k \in Proxy!RequestKind :
              /\ Head(up) = <<c, k>> /\ Proxy!Sender = c /\ Proxy!Kind = k
              /\ InUp(c, k)
              /\ up' \in Seq(Conn \X Proxy!RequestKind) /\ OnceUp'
              /\ \A d \in Conn, l \in Proxy!RequestKind :
                    InUp(d, l)' <=> InUp(d, l) /\ ~(d = c /\ l = k)
  BY <1>1, Taken DEF ProxyInv, QueueInv
<1>3. \A d \in Conn : TokenInv(d) /\ CountInv(d) /\ ListenInv(d) /\ ServedInv(d)
  BY DEF ProxyInv, ConnInv
<1>4. ~InDown(c, k) /\ ~InRun(c, k)
  BY <1>2, <1>3 DEF TokenInv
<1>5. /\ running' = running \union {<<session, <<c, k>>>>}
      /\ connections' = IF k = "disconnect" THEN connections \ {c} ELSE connections
      /\ k = "call" => c \in connections /\ c \in contexts
  BY <1>1, <1>2 DEF Proxy!Known
<1>6. /\ running' \subseteq (1..session) \X (Conn \X Proxy!RequestKind) /\ OnceRun'
      /\ \A d \in Conn, l \in Proxy!RequestKind :
            InRun(d, l)' <=> InRun(d, l) \/ (d = c /\ l = k)
  BY <1>4, <1>5, Accepted DEF ProxyInv, QueueInv
<1>7. ProxyTypes'
  BY <1>1, <1>2, <1>5, <1>6 DEF ProxyInv, ProxyTypes
<1>8. QueueInv'
  BY <1>1, <1>2, <1>6, DownKept DEF ProxyInv, QueueInv
<1>9. \A d, l : (Fine(d, l)' <=> Fine(d, l)) /\ (Failed(d, l)' <=> Failed(d, l))
  BY <1>1, DownKept
<1>10. ASSUME NEW d \in Conn
       PROVE  TokenInv(d)' /\ CountInv(d)' /\ ListenInv(d)' /\ ServedInv(d)'
  <2>1. \A l \in Proxy!RequestKind : Awaited(d, l)' => Awaited(d, l)
    BY <1>2, <1>6, <1>9 DEF Awaited, InDown
  <2>2. TokenInv(d)'
    <3>1. TokenInv(d)
      BY <1>3
    <3>2. \A l \in Proxy!RequestKind :
             /\ ~(InUp(d, l)' /\ InRun(d, l)')
             /\ InDown(d, l)' => ~InUp(d, l)' /\ ~InRun(d, l)'
      BY <1>2, <1>4, <1>6, <1>9, <3>1 DEF TokenInv, InDown
    <3>3. {"connect", "login", "call", "disconnect"} = Proxy!RequestKind
      BY DEF Proxy!RequestKind
    <3>4. /\ Awaited(d, "connect")' => phase'[d] = "connecting"
          /\ Awaited(d, "login")' => phase'[d] = "logging in"
          /\ Awaited(d, "disconnect")' => phase'[d] = "disconnecting"
          /\ Awaited(d, "call")' => unanswered'[d]
      BY <1>1, <2>1, <3>1, <3>3 DEF TokenInv
    <3> QED BY <1>9, <3>1, <3>2, <3>4 DEF TokenInv
  <2>3. CountInv(d)'
    BY <1>1, <1>2, <1>3, <1>6, <1>9 DEF CountInv, Proxy!RequestKind
  <2>4. ListenInv(d)'
    <3>1. /\ InUp(d, "login")' \/ InRun(d, "login")' => InUp(d, "login") \/ InRun(d, "login")
          /\ InRun(d, "call")' => InRun(d, "call") \/ d \in contexts
      BY <1>2, <1>5, <1>6 DEF Proxy!RequestKind
    <3> QED BY <1>1, <1>3, <3>1 DEF ListenInv
  <2>5. ServedInv(d)'
    <3>1. d \in connections /\ d \notin connections' => d = c /\ k = "disconnect"
      BY <1>5
    <3>2. d = c /\ k = "disconnect" => phase[d] = "disconnecting" /\ ~Awaited(d, "connect")
      BY <1>2, <1>3 DEF TokenInv, Awaited
    <3> QED BY <1>1, <1>3, <1>9, <3>1, <3>2 DEF ServedInv, Awaited, InDown
  <2> QED BY <2>2, <2>3, <2>4, <2>5
<1> QED BY <1>7, <1>8, <1>10 DEF ProxyInv, ConnInv

\* The connector is done with a request, whose answer says no more than that.
LEMMA AnsweredKeeps ==
    ASSUME ProxyInv, NEW r \in running, Proxy!Done(r), NEW f \in BOOLEAN,
           Proxy!Answer(r[1], <<<<r[2][1], r[2][2], f>>>>), f => r[2][2] # "call",
           UNCHANGED <<phase, unanswered, asked, answered, heard, executed, up, connected>>
    PROVE  /\ QueueInv'
           /\ running' \subseteq (1..session) \X (Conn \X Proxy!RequestKind)
           /\ down' \in Seq(Conn \X ReplyKind \X BOOLEAN)
           /\ r[1] \in 1..session
           /\ r[2][1] \in Conn /\ InRun(r[2][1], r[2][2])
           /\ \A d, l : InUp(d, l)' <=> InUp(d, l)
           /\ \A d \in Conn, l \in Proxy!RequestKind :
                 InRun(d, l)' <=> InRun(d, l) /\ ~(d = r[2][1] /\ l = r[2][2])
           /\ \A d \in Conn, l \in ReplyKind :
                 Fine(d, l)' => Fine(d, l) \/ (d = r[2][1] /\ l = r[2][2] /\ f)
           /\ \A d \in Conn : TokenInv(d)' /\ CountInv(d)'
<1>1. /\ running' \subseteq (1..session) \X (Conn \X Proxy!RequestKind) /\ OnceRun'
      /\ r[1] \in 1..session
  BY Finished DEF ProxyInv, QueueInv
<1>2. PICK c \in Conn, k \in Proxy!RequestKind :
                 /\ r[2] = <<c, k>> /\ r[2][1] = c /\ r[2][2] = k
                 /\ InRun(c, k)
                 /\ \A d \in Conn, l \in Proxy!RequestKind :
                       InRun(d, l)' <=> InRun(d, l) /\ ~(d = c /\ l = k)
  BY Finished DEF ProxyInv, QueueInv
<1>3. ~InDown(c, k) /\ ~InUp(c, k)
  <2>1. TokenInv(c)
    BY DEF ProxyInv, ConnInv
  <2> QED BY <1>2, <2>1 DEF TokenInv
<1>4. /\ down' = down \/ (connected /\ down' = down \o <<<<c, k, f>>>>)
      /\ connected' = connected
  <2>1. Proxy!Answer(r[1], <<<<c, k, f>>>>)
    BY <1>2
  <2> QED BY <2>1 DEF Proxy!Answer
<1>5. /\ down' \in Seq(Conn \X ReplyKind \X BOOLEAN)
      /\ OnceDown' /\ EventsAhead' /\ (~connected' => down' = <<>>)
      /\ \A d \in Conn, l \in ReplyKind :
            /\ Fine(d, l) => Fine(d, l)'
            /\ Failed(d, l) => Failed(d, l)'
            /\ Fine(d, l)' => Fine(d, l) \/ (d = c /\ l = k /\ f)
            /\ Failed(d, l)' => Failed(d, l) \/ (d = c /\ l = k /\ ~f)
  <2>1. ProxyTypes
    BY DEF ProxyInv
  <2>2. QueueInv
    BY DEF ProxyInv
  <2>3. ~InDown(c, k)
    BY <1>3
  <2>4. down' = down \/ (connected /\ down' = down \o <<<<c, k, f>>>>)
    BY <1>4
  <2>5. connected' = connected
    BY <1>4
  <2> QED BY <2>1, <2>2, <2>3, <2>4, <2>5, Replied
<1>6. QueueInv'
  BY <1>1, <1>5, UpKept DEF ProxyInv, QueueInv
<1>7. \A d, l : InUp(d, l)' <=> InUp(d, l)
  BY UpKept
<1>8. \A d \in Conn : TokenInv(d)' /\ CountInv(d)'
  <2>1. \A d \in Conn, l \in Proxy!RequestKind :
           /\ (InUp(d, l)' => InUp(d, l)) /\ (InRun(d, l)' => InRun(d, l))
           /\ d = c /\ l = k => ~InUp(d, l)' /\ ~InRun(d, l)'
    BY <1>2, <1>3, <1>7
  <2>2. f => k # "call"
    BY <1>2
  <2>3. InUp(c, k) \/ InRun(c, k)
    BY <1>2
  <2> QED BY <1>5, <2>1, <2>2, <2>3, ReplyKeeps
<1> QED BY <1>1, <1>2, <1>5, <1>6, <1>7, <1>8

LEMMA ErrsKeeps ==
    ASSUME ProxyInv, NEW r \in running, Proxy!Errs(r) \/ Proxy!Disconnected(r)
    PROVE  ProxyInv'
<1>1. /\ Proxy!Done(r)
      /\ UNCHANGED <<phase, unanswered, asked, answered, heard, up, connected, session,
                     connections, contexts, listening, executed>>
      /\ \/ Proxy!Answer(r[1], <<<<r[2][1], r[2][2], FALSE>>>>)
         \/ r[2][2] = "disconnect" /\ Proxy!Answer(r[1], <<<<r[2][1], "disconnect", TRUE>>>>)
  BY DEF Proxy!Errs, Proxy!Disconnected, Proxy!client
<1>2. PICK f \in BOOLEAN : /\ Proxy!Answer(r[1], <<<<r[2][1], r[2][2], f>>>>)
                           /\ f => r[2][2] = "disconnect"
  <2>1. CASE Proxy!Answer(r[1], <<<<r[2][1], r[2][2], FALSE>>>>)
    BY <2>1
  <2>2. CASE r[2][2] = "disconnect" /\ Proxy!Answer(r[1], <<<<r[2][1], "disconnect", TRUE>>>>)
    <3>1. Proxy!Answer(r[1], <<<<r[2][1], r[2][2], TRUE>>>>)
      BY <2>2
    <3> QED BY <2>2, <3>1
  <2> QED BY <1>1, <2>1, <2>2
<1>3. /\ QueueInv'
      /\ running' \subseteq (1..session) \X (Conn \X Proxy!RequestKind)
      /\ down' \in Seq(Conn \X ReplyKind \X BOOLEAN)
      /\ \A d, l : InUp(d, l)' <=> InUp(d, l)
      /\ \A d \in Conn, l \in Proxy!RequestKind :
            InRun(d, l)' <=> InRun(d, l) /\ ~(d = r[2][1] /\ l = r[2][2])
      /\ \A d \in Conn, l \in ReplyKind :
            Fine(d, l)' => Fine(d, l) \/ (d = r[2][1] /\ l = r[2][2] /\ f)
      /\ \A d \in Conn : TokenInv(d)' /\ CountInv(d)'
  BY <1>1, <1>2, AnsweredKeeps
<1>4. ProxyTypes'
  BY <1>1, <1>3 DEF ProxyInv, ProxyTypes
<1>5. ASSUME NEW d \in Conn PROVE ListenInv(d)' /\ ServedInv(d)'
  <2>1. ListenInv(d) /\ ServedInv(d)
    BY DEF ProxyInv, ConnInv
  <2>2. /\ Fine(d, "connect")' => Fine(d, "connect")
        /\ Fine(d, "login")' => Fine(d, "login")
        /\ InRun(d, "login")' => InRun(d, "login")
        /\ InRun(d, "call")' => InRun(d, "call")
    BY <1>2, <1>3 DEF ReplyKind, Proxy!RequestKind
  <2>3. ListenInv(d)'
    BY <1>1, <1>3, <2>1, <2>2 DEF ListenInv
  <2>4. ServedInv(d)'
    BY <1>1, <2>1, <2>2 DEF ServedInv
  <2> QED BY <2>3, <2>4
<1> QED BY <1>3, <1>4, <1>5 DEF ProxyInv, ConnInv

LEMMA ConnectedKeeps ==
    ASSUME ProxyInv, NEW r \in running, Proxy!Connected(r)
    PROVE  ProxyInv'
<1>1. /\ Proxy!Done(r) /\ r[2][2] = "connect"
      /\ UNCHANGED <<phase, unanswered, asked, answered, heard, up, connected, session,
                     contexts, listening, executed>>
      /\ connections' = IF r[1] = session THEN connections \union {r[2][1]} ELSE connections
      /\ Proxy!Answer(r[1], <<<<r[2][1], "connect", TRUE>>>>)
  BY DEF Proxy!Connected, Proxy!client
<1>2. PICK f \in BOOLEAN : f = TRUE
  OBVIOUS
<1>3. /\ Proxy!Answer(r[1], <<<<r[2][1], r[2][2], f>>>>)
      /\ f => r[2][2] # "call"
  BY <1>1, <1>2
<1>4. /\ QueueInv'
      /\ running' \subseteq (1..session) \X (Conn \X Proxy!RequestKind)
      /\ down' \in Seq(Conn \X ReplyKind \X BOOLEAN)
      /\ r[1] \in 1..session
      /\ r[2][1] \in Conn /\ InRun(r[2][1], r[2][2])
      /\ \A d, l : InUp(d, l)' <=> InUp(d, l)
      /\ \A d \in Conn, l \in Proxy!RequestKind :
            InRun(d, l)' <=> InRun(d, l) /\ ~(d = r[2][1] /\ l = r[2][2])
      /\ \A d \in Conn, l \in ReplyKind :
            Fine(d, l)' => Fine(d, l) \/ (d = r[2][1] /\ l = r[2][2] /\ f)
      /\ \A d \in Conn : TokenInv(d)' /\ CountInv(d)'
  BY <1>1, <1>3, AnsweredKeeps
<1>5. ProxyTypes'
  BY <1>1, <1>4 DEF ProxyInv, ProxyTypes
<1>6. ASSUME NEW d \in Conn PROVE ListenInv(d)' /\ ServedInv(d)'
  <2>1. ListenInv(d) /\ ServedInv(d)
    BY DEF ProxyInv, ConnInv
  <2>2. /\ Fine(d, "connect")' => Fine(d, "connect") \/ d = r[2][1]
        /\ Fine(d, "login")' => Fine(d, "login")
        /\ InRun(d, "login")' => InRun(d, "login")
        /\ InRun(d, "call")' => InRun(d, "call")
    BY <1>1, <1>4 DEF ReplyKind, Proxy!RequestKind
  <2>3. ListenInv(d)'
    BY <1>1, <1>4, <2>1, <2>2 DEF ListenInv
  <2>4. ServedInv(d)'
    <3>1. session = 1 => connections' = connections \union {r[2][1]}
      BY <1>1, <1>4
    <3> QED BY <1>1, <2>1, <2>2, <3>1 DEF ServedInv
  <2> QED BY <2>3, <2>4
<1> QED BY <1>4, <1>5, <1>6 DEF ProxyInv, ConnInv

\* The login is done: the connection has its one listener.
LEMMA LoggedInKeeps ==
    ASSUME ProxyInv, NEW r \in running, Proxy!LoggedIn(r)
    PROVE  ProxyInv'
<1>1. /\ Proxy!Done(r) /\ r[2][2] = "login"
      /\ UNCHANGED <<phase, unanswered, asked, answered, heard, up, connected, session,
                     connections, executed>>
      /\ contexts' = IF r[1] = session THEN contexts \union {r[2][1]} ELSE contexts
      /\ listening' = [listening EXCEPT ![r[2][1]] = Append(listening[r[2][1]], r[1])]
      /\ Proxy!Answer(r[1], <<<<r[2][1], "login", TRUE>>>>)
  BY DEF Proxy!LoggedIn, Proxy!client
<1>2. PICK f \in BOOLEAN : f = TRUE
  OBVIOUS
<1>3. /\ Proxy!Answer(r[1], <<<<r[2][1], r[2][2], f>>>>)
      /\ f => r[2][2] # "call"
  BY <1>1, <1>2
<1>4. /\ QueueInv'
      /\ running' \subseteq (1..session) \X (Conn \X Proxy!RequestKind)
      /\ down' \in Seq(Conn \X ReplyKind \X BOOLEAN)
      /\ r[1] \in 1..session
      /\ r[2][1] \in Conn /\ InRun(r[2][1], r[2][2])
      /\ \A d, l : InUp(d, l)' <=> InUp(d, l)
      /\ \A d \in Conn, l \in Proxy!RequestKind :
            InRun(d, l)' <=> InRun(d, l) /\ ~(d = r[2][1] /\ l = r[2][2])
      /\ \A d \in Conn, l \in ReplyKind :
            Fine(d, l)' => Fine(d, l) \/ (d = r[2][1] /\ l = r[2][2] /\ f)
      /\ \A d \in Conn : TokenInv(d)' /\ CountInv(d)'
  BY <1>1, <1>3, AnsweredKeeps
<1> PICK c \in Conn : c = r[2][1]
  BY <1>4
<1>5. TokenInv(c) /\ ListenInv(c) /\ InRun(c, "login")
  BY <1>1, <1>4 DEF ProxyInv, ConnInv
<1>6. phase[c] = "logging in" /\ listening[c] = <<>> /\ ~InUp(c, "login")
  BY <1>5 DEF TokenInv, Awaited, ListenInv, Proxy!RequestKind
<1>7. listening' = [listening EXCEPT ![c] = <<r[1]>>]
  <2>1. Append(<<>>, r[1]) = <<r[1]>>
    OBVIOUS
  <2>2. listening' = [listening EXCEPT ![c] = Append(listening[c], r[1])]
    BY <1>1
  <2> QED BY <1>6, <2>1, <2>2
<1>8. ProxyTypes'
  <2>1. listening' \in [Conn -> Seq(1..session)]
    BY <1>4, <1>7 DEF ProxyInv, ProxyTypes
  <2>2. contexts' \subseteq Conn
    BY <1>1 DEF ProxyInv, ProxyTypes
  <2> QED BY <1>1, <1>4, <2>1, <2>2 DEF ProxyInv, ProxyTypes
<1>9. ASSUME NEW d \in Conn PROVE ListenInv(d)' /\ ServedInv(d)'
  <2>1. ListenInv(d) /\ ServedInv(d)
    BY DEF ProxyInv, ConnInv
  <2>2. /\ Fine(d, "connect")' => Fine(d, "connect")
        /\ Fine(d, "login")' => Fine(d, "login") \/ d = c
        /\ InRun(d, "login")' => InRun(d, "login") /\ d # c
        /\ InRun(d, "call")' => InRun(d, "call")
    BY <1>1, <1>4 DEF ReplyKind, Proxy!RequestKind
  <2>3. listening'[c] = <<r[1]>> /\ \A e \in Conn \ {c} : listening'[e] = listening[e]
    BY <1>7 DEF ProxyInv, ProxyTypes
  <2>4. ListenInv(d)'
    <3>1. CASE d = c
      <4>1. d \in contexts' => r[1] = session
        <5>1. <<session>> # <<>>
          OBVIOUS
        <5>2. d \notin contexts
          BY <1>6, <2>1, <3>1, <5>1 DEF ListenInv
        <5> QED BY <1>1, <5>2
      <4>2. /\ listening'[d] = <<r[1]>> /\ <<r[1]>> # <<>> /\ Len(<<r[1]>>) = 1
            /\ d \in contexts' => listening'[d] = <<session>>
        BY <2>3, <3>1, <4>1
      <4>3. phase'[d] = "logging in" /\ ~InUp(d, "login")' /\ ~InRun(d, "login")'
        BY <1>1, <1>4, <1>6, <2>2, <3>1
      <4>4. session' = session
        BY <1>1
      <4> QED BY <4>2, <4>3, <4>4 DEF ListenInv
    <3>2. CASE d # c
      <4>1. listening'[d] = listening[d] /\ (d \in contexts' => d \in contexts)
        BY <1>1, <2>3, <3>2
      <4> QED BY <1>1, <1>4, <2>1, <2>2, <4>1 DEF ListenInv
    <3> QED BY <3>1, <3>2
  <2>5. ServedInv(d)'
    <3>1. session = 1 => contexts' = contexts \union {c}
      BY <1>1, <1>4
    <3> QED BY <1>1, <2>1, <2>2, <3>1 DEF ServedInv
  <2> QED BY <2>4, <2>5
<1> QED BY <1>4, <1>8, <1>9 DEF ProxyInv, ConnInv

\* A transaction is executed.  The one listener of its connection gets the events.
LEMMA CalledKeeps ==
    ASSUME ProxyInv, NEW r \in running, Proxy!Called(r)
    PROVE  ProxyInv'
<1>1. /\ Proxy!Done(r) /\ r[2][2] = "call"
      /\ UNCHANGED <<phase, unanswered, asked, answered, heard, up, connected, session,
                     connections, contexts, listening>>
  BY DEF Proxy!Called, Proxy!client
<1>2. running' \subseteq (1..session) \X (Conn \X Proxy!RequestKind) /\ OnceRun'
  BY <1>1, Finished DEF ProxyInv, QueueInv
<1>3. PICK c \in Conn, k \in Proxy!RequestKind :
                 /\ r[2] = <<c, k>> /\ r[2][1] = c /\ r[2][2] = k
                 /\ InRun(c, k)
                 /\ \A d \in Conn, l \in Proxy!RequestKind :
                       InRun(d, l)' <=> InRun(d, l) /\ ~(d = c /\ l = k)
  BY <1>1, Finished DEF ProxyInv, QueueInv
<1>4. k = "call"
  BY <1>1, <1>3
<1>5. TokenInv(c) /\ CountInv(c) /\ ListenInv(c) /\ ProxyTypes /\ QueueInv
  BY DEF ProxyInv, ConnInv
<1>6. ~InDown(c, "call") /\ ~InUp(c, "call") /\ ~InDown(c, "events")
  BY <1>3, <1>4, <1>5 DEF TokenInv, InDown, Proxy!RequestKind
<1>7. /\ executed' = [executed EXCEPT ![c] = executed[c] + 1]
      /\ Proxy!Answer(r[1], [i \in DOMAIN listening[c] |-> <<c, "events", TRUE>>]
                               \o <<<<c, "call", TRUE>>>>)
  BY <1>3 DEF Proxy!Called
<1>8. [i \in DOMAIN listening[c] |-> <<c, "events", TRUE>>] = <<<<c, "events", TRUE>>>>
  <2>1. listening[c] \in Seq(1..session) /\ Len(listening[c]) = 1
    BY <1>3, <1>4, <1>5 DEF ListenInv, ProxyTypes
  <2>2. DOMAIN listening[c] = 1..1
    BY <2>1
  <2>3. PICK e : e = <<c, "events", TRUE>>
    OBVIOUS
  <2>4. [i \in 1..1 |-> e] = <<e>>
    OBVIOUS
  <2> QED BY <2>2, <2>3, <2>4
<1> PICK s : s = r[1]
  OBVIOUS
<1>9. /\ Proxy!Answer(s, <<<<c, "events", TRUE>>>> \o <<<<c, "call", TRUE>>>>)
      /\ connected' = connected
  BY <1>1, <1>7, <1>8
<1>10. /\ down' \in Seq(Conn \X ReplyKind \X BOOLEAN)
       /\ OnceDown' /\ EventsAhead' /\ (~connected' => down' = <<>>)
       /\ \A d \in Conn, l \in ReplyKind :
             /\ Failed(d, l)' <=> Failed(d, l)
             /\ d # c \/ l \notin {"call", "events"} => (Fine(d, l)' <=> Fine(d, l))
       /\ Fine(c, "events")' <=> Fine(c, "call")'
  BY <1>5, <1>6, <1>9, RepliedEvents
<1>11. ProxyTypes'
  <2>1. executed' \in [Conn -> Nat]
    <3>1. executed \in [Conn -> Nat]
      BY <1>5 DEF ProxyTypes
    <3>2. executed' = [executed EXCEPT ![c] = executed[c] + 1]
      BY <1>7
    <3>3. executed[c] + 1 \in Nat
      BY <3>1
    <3> QED BY <3>1, <3>2, <3>3
  <2>2. /\ phase' \in [Conn -> Phase] /\ unanswered' \in [Conn -> BOOLEAN]
        /\ up' \in Seq(Conn \X Proxy!RequestKind)
        /\ session' \in Nat \ {0} /\ connections' \subseteq Conn /\ contexts' \subseteq Conn
    BY <1>1, <1>5 DEF ProxyTypes
  <2>3. listening' = listening /\ session' = session
    BY <1>1
  <2>4. listening' \in [Conn -> Seq(1..session')]
    BY <1>5, <2>3 DEF ProxyTypes
  <2>5. asked' \in [Conn -> Nat] /\ answered' \in [Conn -> Nat] /\ heard' \in [Conn -> Nat]
    BY <1>1, <1>5 DEF ProxyTypes
  <2>6. running' \subseteq (1..session') \X (Conn \X Proxy!RequestKind)
    BY <1>2, <2>3
  <2>7. connected' \in BOOLEAN
    BY <1>5, <1>9 DEF ProxyTypes
  <2> QED BY <1>10, <2>1, <2>2, <2>4, <2>5, <2>6, <2>7 DEF ProxyTypes
<1>12. QueueInv'
  BY <1>1, <1>2, <1>5, <1>10, UpKept DEF QueueInv
<1>13. \A d, l : InUp(d, l)' <=> InUp(d, l)
  BY <1>1, UpKept
<1>14. {"connect", "login", "call", "disconnect"} = Proxy!RequestKind
       /\ {"connect", "login", "call", "disconnect", "events"} = ReplyKind
  BY DEF ReplyKind, Proxy!RequestKind
<1>15. /\ executed[c] \in Nat /\ executed'[c] = executed[c] + 1
       /\ asked[c] \in Nat /\ heard[c] \in Nat /\ answered[c] \in Nat
       /\ \A d \in Conn \ {c} : executed'[d] = executed[d]
  BY <1>5, <1>7 DEF ProxyTypes
<1>16. ASSUME NEW d \in Conn, d = c
       PROVE  TokenInv(d)' /\ CountInv(d)'
  <2>1. \A l \in Proxy!RequestKind \ {"call"} :
           (InDown(c, l)' <=> InDown(c, l)) /\ (InRun(c, l)' <=> InRun(c, l))
    BY <1>3, <1>4, <1>10, <1>14 DEF InDown
  <2>2. ~InRun(c, "call")' /\ ~InUp(c, "call")' /\ ~Failed(c, "events")'
    BY <1>3, <1>4, <1>5, <1>6, <1>10, <1>13, <1>14 DEF TokenInv
  <2>3. \A l \in Proxy!RequestKind : Awaited(c, l)' => Awaited(c, l)
    BY <1>3, <1>4, <1>13, <2>1 DEF Awaited
  <2>4. \A l \in Proxy!RequestKind :
           /\ ~(InUp(c, l)' /\ InRun(c, l)')
           /\ InDown(c, l)' => ~InUp(c, l)' /\ ~InRun(c, l)'
    BY <1>3, <1>5, <1>13, <2>1, <2>2 DEF TokenInv
  <2>5. TokenInv(c)'
    BY <1>1, <1>5, <1>10, <1>14, <2>2, <2>3, <2>4 DEF TokenInv
  <2>6. CountInv(c)'
    <3>1. executed[c] < asked[c]
      BY <1>3, <1>4, <1>5 DEF CountInv
    <3> QED BY <1>1, <1>5, <1>10, <1>15, <2>2, <3>1 DEF CountInv
  <2> QED BY <1>16, <2>5, <2>6
<1>17. ASSUME NEW d \in Conn, d # c
       PROVE  TokenInv(d)' /\ CountInv(d)'
  <2>1. TokenInv(d) /\ CountInv(d)
    BY DEF ProxyInv, ConnInv
  <2>2. \A l \in ReplyKind :
           (Fine(d, l)' <=> Fine(d, l)) /\ (Failed(d, l)' <=> Failed(d, l))
    BY <1>10, <1>17
  <2>3. \A l \in Proxy!RequestKind : InRun(d, l)' <=> InRun(d, l)
    BY <1>3, <1>17
  <2>4. TokenInv(d)'
    BY <1>1, <1>13, <1>14, <2>1, <2>2, <2>3 DEF TokenInv, Awaited, InDown
  <2>5. CountInv(d)'
    BY <1>1, <1>13, <1>14, <1>15, <1>17, <2>1, <2>2, <2>3 DEF CountInv
  <2> QED BY <2>4, <2>5
<1>18. ASSUME NEW d \in Conn PROVE ListenInv(d)' /\ ServedInv(d)'
  <2>1. ListenInv(d) /\ ServedInv(d)
    BY DEF ProxyInv, ConnInv
  <2>2. /\ Fine(d, "connect")' => Fine(d, "connect")
        /\ Fine(d, "login")' => Fine(d, "login")
        /\ InRun(d, "login")' => InRun(d, "login")
        /\ InRun(d, "call")' => InRun(d, "call")
    BY <1>3, <1>10, <1>14
  <2>3. ListenInv(d)'
    BY <1>1, <1>13, <2>1, <2>2 DEF ListenInv
  <2>4. ServedInv(d)'
    BY <1>1, <2>1, <2>2 DEF ServedInv
  <2> QED BY <2>3, <2>4
<1> QED BY <1>11, <1>12, <1>16, <1>17, <1>18 DEF ProxyInv, ConnInv

LEMMA DropKeeps ==
    ASSUME ProxyInv, Proxy!Drop
    PROVE  ProxyInv'
<1>1. /\ connected' = FALSE /\ up' = <<>> /\ down' = <<>>
      /\ UNCHANGED <<phase, unanswered, asked, answered, heard, session, connections,
                     contexts, running, listening, executed>>
  BY DEF Proxy!Drop, Proxy!client, Proxy!server
<1>2. \A d, l : ~InUp(d, l)' /\ ~Fine(d, l)' /\ ~Failed(d, l)'
  BY <1>1 DEF InUp, Fine, Failed
<1>3. \A d, l : InRun(d, l)' <=> InRun(d, l)
  BY <1>1, RunKept
<1>4. ProxyTypes'
  <2>1. up' \in Seq(Conn \X Proxy!RequestKind) /\ down' \in Seq(Conn \X ReplyKind \X BOOLEAN)
    BY <1>1
  <2> QED BY <1>1, <2>1 DEF ProxyInv, ProxyTypes
<1>5. QueueInv'
  <2>1. OnceRun'
    BY <1>1, RunKept DEF ProxyInv, QueueInv
  <2>2. OnceUp' /\ OnceDown' /\ EventsAhead'
    BY <1>1 DEF OnceUp, OnceDown, EventsAhead
  <2> QED BY <1>1, <2>1, <2>2 DEF QueueInv
<1>6. ASSUME NEW d \in Conn
      PROVE  TokenInv(d)' /\ CountInv(d)' /\ ListenInv(d)' /\ ServedInv(d)'
  <2>1. TokenInv(d) /\ CountInv(d) /\ ListenInv(d) /\ ServedInv(d)
    BY DEF ProxyInv, ConnInv
  <2>2. TokenInv(d)'
    BY <1>1, <1>2, <1>3, <2>1 DEF TokenInv, Awaited, InDown
  <2>3. CountInv(d)'
    BY <1>1, <1>2, <1>3, <2>1 DEF CountInv
  <2>4. ListenInv(d)'
    BY <1>1, <1>2, <1>3, <2>1 DEF ListenInv
  <2>5. ServedInv(d)'
    BY <1>1 DEF ServedInv
  <2> QED BY <2>2, <2>3, <2>4, <2>5
<1> QED BY <1>4, <1>5, <1>6 DEF ProxyInv, ConnInv

LEMMA WiderSeq ==
    ASSUME NEW S, NEW T, S \subseteq T, NEW s \in Seq(S)
    PROVE  s \in Seq(T)
<1>1. /\ Len(s) \in Nat /\ s = [i \in 1..Len(s) |-> s[i]]
      /\ \A i \in 1..Len(s) : s[i] \in T
  OBVIOUS
<1>2. s \in [1..Len(s) -> T]
  BY <1>1
<1> QED BY <1>1, <1>2

LEMMA ReconnectKeeps ==
    ASSUME ProxyInv, Proxy!Reconnect
    PROVE  ProxyInv'
<1>1. /\ ~connected /\ connected' = TRUE /\ session' = session + 1
      /\ connections' = {} /\ contexts' = {}
      /\ UNCHANGED <<phase, unanswered, asked, answered, heard, up, down, running, listening,
                     executed>>
  BY DEF Proxy!Reconnect, Proxy!client
<1>2. down = <<>> /\ ProxyTypes
  BY <1>1 DEF ProxyInv, QueueInv
<1>3. /\ \A d, l : (InUp(d, l)' <=> InUp(d, l)) /\ (InRun(d, l)' <=> InRun(d, l))
      /\ \A d, l : /\ ~Fine(d, l)' /\ ~Failed(d, l)'
                   /\ ~Fine(d, l) /\ ~Failed(d, l)
  BY <1>1, <1>2, UpKept, RunKept DEF Fine, Failed
<1>4. ProxyTypes'
  <2>1. session' \in Nat \ {0} /\ 1..session \subseteq 1..session'
    BY <1>1, <1>2 DEF ProxyTypes
  <2>2. listening' \in [Conn -> Seq(1..session')]
    <3>1. \A d \in Conn : listening'[d] \in Seq(1..session')
      <4> SUFFICES ASSUME NEW d \in Conn PROVE listening'[d] \in Seq(1..session')
        OBVIOUS
      <4>1. PICK s \in Seq(1..session) : s = listening'[d]
        BY <1>1, <1>2 DEF ProxyTypes
      <4> QED BY <2>1, <4>1, WiderSeq
    <3> QED BY <1>1, <1>2, <3>1 DEF ProxyTypes
  <2>3. running' \subseteq (1..session') \X (Conn \X Proxy!RequestKind)
    BY <1>1, <1>2, <2>1 DEF ProxyTypes
  <2> QED BY <1>1, <1>2, <2>1, <2>2, <2>3 DEF ProxyTypes
<1>5. QueueInv'
  <2>1. OnceUp' /\ OnceRun'
    BY <1>1, UpKept, RunKept DEF ProxyInv, QueueInv
  <2>2. OnceDown' /\ EventsAhead'
    BY <1>1, <1>2 DEF OnceDown, EventsAhead
  <2> QED BY <1>1, <2>1, <2>2 DEF QueueInv
<1>6. ASSUME NEW d \in Conn
      PROVE  TokenInv(d)' /\ CountInv(d)' /\ ListenInv(d)' /\ ServedInv(d)'
  <2>1. TokenInv(d) /\ CountInv(d) /\ ListenInv(d)
    BY DEF ProxyInv, ConnInv
  <2>2. TokenInv(d)'
    BY <1>1, <1>3, <2>1 DEF TokenInv, Awaited, InDown
  <2>3. CountInv(d)'
    BY <1>1, <1>3, <2>1 DEF CountInv
  <2>4. ListenInv(d)'
    BY <1>1, <1>3, <2>1 DEF ListenInv
  <2>5. ServedInv(d)'
    <3>1. session' # 1
      BY <1>1, <1>2 DEF ProxyTypes
    <3> QED BY <3>1 DEF ServedInv
  <2> QED BY <2>2, <2>3, <2>4, <2>5
<1> QED BY <1>4, <1>5, <1>6 DEF ProxyInv, ConnInv

LEMMA ProxyInit == Proxy!Init => ProxyInv
<1> SUFFICES ASSUME Proxy!Init PROVE ProxyInv
  OBVIOUS
<1>1. ProxyTypes
  <2>1. <<>> \in Seq(1..session)
    OBVIOUS
  <2>2. up \in Seq(Conn \X Proxy!RequestKind) /\ down \in Seq(Conn \X ReplyKind \X BOOLEAN)
    BY DEF Proxy!Init
  <2> QED BY <2>1, <2>2 DEF Proxy!Init, ProxyTypes, Phase
<1>2. up = <<>> /\ down = <<>> /\ running = {}
  BY DEF Proxy!Init
<1>3. QueueInv
  BY <1>2 DEF QueueInv, OnceUp, OnceRun, OnceDown, EventsAhead
<1>4. \A c, k : ~InUp(c, k) /\ ~InRun(c, k) /\ ~Fine(c, k) /\ ~Failed(c, k)
  BY <1>2 DEF InUp, InRun, Fine, Failed
<1>5. ConnInv
  BY <1>4
     DEF ConnInv, TokenInv, Awaited, InDown, CountInv, ListenInv, ServedInv, Proxy!Init
<1> QED BY <1>1, <1>3, <1>5 DEF ProxyInv

LEMMA ProxyNext == ProxyInv /\ [Proxy!Next]_(Proxy!vars) => ProxyInv'
<1> SUFFICES ASSUME ProxyInv, [Proxy!Next]_(Proxy!vars) PROVE ProxyInv'
  OBVIOUS
<1>1. CASE UNCHANGED Proxy!vars
  <2>1. UNCHANGED <<phase, unanswered, up, down, connected, session, connections, contexts,
                    running, listening, asked, executed, answered, heard>>
    BY <1>1 DEF Proxy!vars
  <2>2. ProxyTypes'
    BY <2>1 DEF ProxyInv, ProxyTypes
  <2>3. QueueInv'
    BY <2>1, UpKept, RunKept, DownKept DEF ProxyInv, QueueInv
  <2>4. /\ \A c, k : (InUp(c, k)' <=> InUp(c, k)) /\ (InRun(c, k)' <=> InRun(c, k))
        /\ \A c, k : (Fine(c, k)' <=> Fine(c, k)) /\ (Failed(c, k)' <=> Failed(c, k))
    BY <2>1, UpKept, RunKept, DownKept
  <2>5. ASSUME NEW c \in Conn
        PROVE  TokenInv(c)' /\ CountInv(c)' /\ ListenInv(c)' /\ ServedInv(c)'
    <3>1. TokenInv(c) /\ CountInv(c) /\ ListenInv(c) /\ ServedInv(c)
      BY DEF ProxyInv, ConnInv
    <3>2. TokenInv(c)'
      BY <2>1, <2>4, <3>1 DEF TokenInv, Awaited, InDown
    <3>3. CountInv(c)'
      BY <2>1, <2>4, <3>1 DEF CountInv
    <3>4. ListenInv(c)'
      BY <2>1, <2>4, <3>1 DEF ListenInv
    <3>5. ServedInv(c)'
      BY <2>1, <2>4, <3>1 DEF ServedInv
    <3> QED BY <3>2, <3>3, <3>4, <3>5
  <2> QED BY <2>2, <2>3, <2>5 DEF ProxyInv, ConnInv
<1>2. ASSUME NEW c \in Conn,
             Proxy!Connect(c) \/ Proxy!Login(c) \/ Proxy!Invoke(c) \/ Proxy!Disconnect(c)
      PROVE  ProxyInv'
  BY <1>2, ConnectKeeps, LoginKeeps, CallKeeps, DisconnectKeeps
<1>3. CASE Proxy!Receive
  BY <1>3, ReceiveKeeps
<1>4. CASE Proxy!Refuse \/ Proxy!Accept
  BY <1>4, RefuseKeeps, AcceptKeeps
<1>5. ASSUME NEW r \in running,
             Proxy!Connected(r) \/ Proxy!LoggedIn(r) \/ Proxy!Called(r)
                \/ Proxy!Errs(r) \/ Proxy!Disconnected(r)
      PROVE  ProxyInv'
  BY <1>5, ConnectedKeeps, LoggedInKeeps, CalledKeeps, ErrsKeeps
<1>6. CASE Proxy!Drop \/ Proxy!Reconnect
  BY <1>6, DropKeeps, ReconnectKeeps
<1> QED BY <1>1, <1>2, <1>3, <1>4, <1>5, <1>6 DEF Proxy!Next

\* Theorem (ProxyInvariant): a request is in one place at most, on its way, with the
\* connector, or answered, and the client waits for it, however often the socket
\* connection is lost (proxyconnection.js, connectorserver.js).
THEOREM ProxyInvariant == ProxySteps => []ProxyInv
BY ProxyInit, ProxyNext, PTL DEF ProxySteps

\* Theorem (ProxyAnswers): what is answered was executed, and once; its events came before,
\* and once.  No drop comes between: what was heard of an execution whose answer is lost is
\* not counted as answered (connectorserver.js, connectionInvokeChainCode).
THEOREM ProxyAnswers ==
    ProxySteps => [](Proxy!AnsweredExecuted /\ Proxy!EventsOnce /\ Proxy!EventsFirst)
<1>1. ProxyInv => Proxy!AnsweredExecuted /\ Proxy!EventsOnce /\ Proxy!EventsFirst
  <2> SUFFICES ASSUME ProxyInv, NEW c \in Conn
               PROVE  /\ answered[c] <= executed[c] /\ executed[c] <= asked[c]
                      /\ heard[c] <= executed[c] /\ answered[c] <= heard[c]
    BY DEF Proxy!AnsweredExecuted, Proxy!EventsOnce, Proxy!EventsFirst
  <2>1. /\ asked[c] \in Nat /\ executed[c] \in Nat /\ answered[c] \in Nat /\ heard[c] \in Nat
    BY DEF ProxyInv, ProxyTypes
  <2> QED BY <2>1 DEF ProxyInv, ConnInv, CountInv
<1> QED BY <1>1, ProxyInvariant, PTL

\* Theorem (ProxyOrderlyServed): until the socket connection is lost the server knows each
\* connection of the client, and its security context (connectorserver.js,
\* connectionManagerConnect, connectionLogin, connectionDisconnect).
THEOREM ProxyOrderlyServed == ProxySteps => []Proxy!OrderlyServed
<1>1. ProxyInv => Proxy!OrderlyServed
  BY DEF ProxyInv, ConnInv, ServedInv, Proxy!OrderlyServed
<1> QED BY <1>1, ProxyInvariant, PTL

\* Theorem (ProxyStaleRefused): a call that the server accepts is of a connection that was
\* made and logged in over the same socket connection, whose events it gets
\* (connectorserver.js, connectionInvokeChainCode).
THEOREM ProxyStaleRefused == ProxySteps => Proxy!StaleRefused
<1>1. ProxyInv /\ [Proxy!Next]_(Proxy!vars) =>
         [\A r \in running' \ running :
             r[2][2] = "call" => r[2][1] \in connections \intersect contexts
                                 /\ session \in Proxy!ToSet(listening[r[2][1]])]_(Proxy!vars)
  <2> SUFFICES ASSUME ProxyInv, Proxy!Next, NEW r \in running' \ running, r[2][2] = "call"
               PROVE  /\ r[2][1] \in connections \intersect contexts
                      /\ session \in Proxy!ToSet(listening[r[2][1]])
    OBVIOUS
  <2>1. Proxy!Accept
    BY
       DEF Proxy!Next, Proxy!Connect, Proxy!Login, Proxy!Invoke, Proxy!Disconnect,
           Proxy!Receive,
           Proxy!Refuse, Proxy!Connected, Proxy!LoggedIn, Proxy!Called, Proxy!Errs,
           Proxy!Disconnected, Proxy!Done, Proxy!Drop, Proxy!Reconnect, Proxy!server
  <2>2. r = <<session, Head(up)>> /\ Proxy!Known /\ Proxy!Deliver
    BY <2>1 DEF Proxy!Accept
  <2>3. PICK c \in Conn, k \in Proxy!RequestKind :
           Head(up) = <<c, k>> /\ Proxy!Sender = c /\ Proxy!Kind = k
    BY <2>2, Taken DEF ProxyInv, QueueInv
  <2>4. r[2] = <<c, k>>
    BY <2>2, <2>3
  <2>5. r[2][1] = c /\ k = "call"
    BY <2>4
  <2>6. c \in connections /\ c \in contexts
    BY <2>2, <2>3, <2>5 DEF Proxy!Known
  <2>7. listening[c] = <<session>>
    BY <2>6 DEF ProxyInv, ConnInv, ListenInv
  <2>8. session \in Proxy!ToSet(listening[c])
    BY <2>7 DEF Proxy!ToSet
  <2> QED BY <2>5, <2>6, <2>8
<1> QED BY <1>1, ProxyInvariant, PTL DEF ProxySteps, Proxy!StaleRefused

\* Theorem (ProxyAsPromised): the server knows the connections of the client while the
\* socket connection lasts, and through any losses of it what is answered was executed,
\* once, with its events before.
THEOREM ProxyAsPromised == ProxySteps => []Proxy!ProxySound
<1>1. ProxyInv => Proxy!TypeOK
  <2> SUFFICES ASSUME ProxyInv PROVE Proxy!TypeOK
    OBVIOUS
  <2>1. ProxyTypes
    BY DEF ProxyInv
  <2>2. \A m \in Proxy!ToSet(up) : m \in Conn \X Proxy!RequestKind
    BY <2>1 DEF ProxyTypes, Proxy!ToSet
  <2>3. \A m \in Proxy!ToSet(down) :
           m \in Conn \X (Proxy!RequestKind \union {"events"}) \X BOOLEAN
    BY <2>1 DEF ProxyTypes, ReplyKind, Proxy!ToSet
  <2> QED BY <2>1, <2>2, <2>3 DEF ProxyTypes, Phase, Proxy!TypeOK
<1> QED BY <1>1, ProxyInvariant, ProxyAnswers, ProxyOrderlyServed, PTL DEF Proxy!ProxySound
-----------------------------------------------------------------------------
(***************************************************************************)
(* The identities of the embedded and the web connector                    *)
(* (EmbeddedIdentities): one call at most makes the identity of a name,    *)
(* however calls overlap; without overlap its secret serves, and the       *)
(* administrator always logs in.                                           *)
(***************************************************************************)
IdentityTypes ==
    /\ byName \in [Name -> (Call \X BOOLEAN) \union {None}]
    /\ byId \subseteq Call \union {Admin}
    /\ rev \in [Name -> Nat]
    /\ idStep \in [Call -> {"new", "create", "login", "import", "get", "rev", "put", "putid",
                          "done", "failed"}]
    /\ op \in [Call -> {"none", "create", "login", "import"} \X Name]
    /\ seen \in [Call -> Nat]
    /\ answer \in [Call -> Call \union {None}]

\* Calls that have put an entry that nobody has put before.
FirstPut(c) == (idStep[c] = "putid" \/ answer[c] = c) /\ seen[c] = 0

\* An entry, an identifier and an answer are of a call that has come so far.
MakerInv ==
    /\ \A c \in Call : answer[c] # None => idStep[c] = "done"
    /\ \A c \in Call : c \in byId => idStep[c] = "done"
    /\ \A n \in Name : byName[n] # None => idStep[byName[n][1]] \in {"putid", "done", "failed"}
    /\ \A c \in Call : idStep[c] = "get" => byName[op[c][2]] # None

\* Who has put the first revision of a name is alone; who is answered with what it has
\* created has put the first, or the entry by identifier would have been refused.
FirstOf(c) == FirstPut(c) => rev[op[c][2]] > 0
FirstAlone(c, d) == FirstPut(c) /\ FirstPut(d) /\ op[c][2] = op[d][2] => c = d
FirstCreates(c) == op[c][1] = "create" /\ answer[c] = c => seen[c] = 0
FirstInv ==
    /\ \A c \in Call : FirstOf(c) /\ FirstCreates(c)
    /\ \A c, d \in Call : FirstAlone(c, d)

IdentityInv == IdentityTypes /\ MakerInv /\ FirstInv

LEMMA IdentityInit ==
    ASSUME Identities!NameAssumption
    PROVE  Identities!Init => IdentityInv
<1> SUFFICES ASSUME Identities!NameAssumption, Identities!Init PROVE IdentityInv  OBVIOUS
<1>1. IdentityTypes
  BY DEF Identities!NameAssumption, Identities!Init, IdentityTypes
<1>2. MakerInv
  BY DEF Identities!NameAssumption, Identities!Init, MakerInv
<1>3. \A c \in Call : ~ FirstPut(c) /\ answer[c] # c
  BY DEF Identities!NameAssumption, Identities!Init, FirstPut
<1>4. FirstInv
  BY <1>3 DEF FirstInv, FirstOf, FirstCreates, FirstAlone
<1> QED BY <1>1, <1>2, <1>4 DEF IdentityInv

\* A call that has not put, or is not answered with its own, changes nothing of that.
LEMMA FirstFrame ==
    ASSUME FirstInv, NEW c \in Call, ~ FirstPut(c)', answer'[c] # c, UNCHANGED rev,
           \A d \in Call \ {c} : /\ idStep'[d] = idStep[d] /\ answer'[d] = answer[d]
                                /\ op'[d] = op[d] /\ seen'[d] = seen[d]
    PROVE  FirstInv'
<1>1. \A d \in Call \ {c} : FirstPut(d)' <=> FirstPut(d)
  BY DEF FirstPut
<1>2. ASSUME NEW d \in Call PROVE FirstOf(d)' /\ FirstCreates(d)'
  BY <1>1, <1>2 DEF FirstInv, FirstOf, FirstCreates
<1>3. ASSUME NEW d \in Call, NEW e \in Call PROVE FirstAlone(d, e)'
  BY <1>1, <1>3 DEF FirstInv, FirstAlone
<1> QED BY <1>2, <1>3 DEF FirstInv

\* Steps that write nothing and answer nobody.
LEMMA LookupStep ==
    ASSUME Identities!NameAssumption, IdentityInv, NEW c \in Call,
           \/ \E n \in Name : \/ Identities!Begin(c, "login", n)
                              \/ Identities!Begin(c, "import", n)
                              \/ Identities!Begin(c, "create", n)
           \/ Identities!Exists(c) \/ Identities!AddCheck(c) \/ Identities!PutGet(c)
           \/ Identities!Conflict(c) \/ Identities!PutIdFails(c)
    PROVE  IdentityInv'
<1> USE DEF IdentityInv
<1>1. /\ UNCHANGED <<byName, byId, rev, answer>>
      /\ idStep[c] \in {"new", "create", "import", "rev", "put", "putid"}
      /\ \E s \in {"create", "login", "import", "get", "rev", "put", "failed"} :
            idStep' = [idStep EXCEPT ![c] = s]
      /\ \/ UNCHANGED op
         \/ idStep[c] = "new" /\ \E o \in {"create", "login", "import"} \X Name :
               op' = [op EXCEPT ![c] = o]
      /\ \/ UNCHANGED seen
         \/ seen' = [seen EXCEPT ![c] = rev[Identities!NameOf(c)]]
      /\ idStep[c] = "putid" => \E s \in {"failed"} : idStep' = [idStep EXCEPT ![c] = s]
  BY DEF Identities!Begin, Identities!Exists, Identities!AddCheck, Identities!PutGet,
         Identities!Conflict, Identities!PutIdFails, Identities!Goto, IdentityTypes
<1>2. Identities!NameOf(c) \in Name
  BY DEF IdentityTypes, Identities!NameOf
<1>3. IdentityTypes'
  <2>1. idStep' \in [Call -> {"new", "create", "login", "import", "get", "rev", "put", "putid",
                           "done", "failed"}]
    BY <1>1 DEF IdentityTypes
  <2>2. op' \in [Call -> {"none", "create", "login", "import"} \X Name]
    BY <1>1 DEF IdentityTypes
  <2>3. rev[Identities!NameOf(c)] \in Nat
    BY <1>2 DEF IdentityTypes
  <2>4. seen' \in [Call -> Nat]
    BY <1>1, <2>3 DEF IdentityTypes
  <2> QED BY <1>1, <2>1, <2>2, <2>4 DEF IdentityTypes
<1>4. answer[c] = None /\ c \notin byId
  BY <1>1 DEF MakerInv
<1>5. \A n \in Name : byName[n] # None => byName[n][1] \in Call
  BY DEF IdentityTypes
<1>6. MakerInv'
  <2>1. \A n \in Name : byName[n] # None /\ byName[n][1] = c => idStep[c] = "putid"
    BY <1>1 DEF MakerInv
  <2>2. \A d \in Call \ {c} : idStep'[d] = idStep[d]
    BY <1>1 DEF IdentityTypes
  <2>3. idStep[c] = "putid" => idStep'[c] = "failed"
    BY <1>1 DEF IdentityTypes
  <2>4. \A n \in Name : byName'[n] # None => idStep'[byName'[n][1]] \in {"putid", "done", "failed"}
    BY <1>1, <1>5, <2>1, <2>2, <2>3 DEF MakerInv
  <2>5. \A d \in Call \ {c} : op'[d] = op[d]
    BY <1>1 DEF IdentityTypes
  <2>6. idStep'[c] = "get" => byName[op'[c][2]] # None
    BY <1>1
       DEF Identities!Begin, Identities!Exists, Identities!AddCheck, Identities!PutGet,
         Identities!Conflict, Identities!PutIdFails, Identities!Goto, Identities!There,
         Identities!NameOf, IdentityTypes
  <2>7. \A d \in Call : idStep'[d] = "get" => byName'[op'[d][2]] # None
    BY <1>1, <2>2, <2>5, <2>6 DEF MakerInv
  <2> QED BY <1>1, <1>4, <2>2, <2>4, <2>7 DEF MakerInv
<1>7. FirstInv'
  <2>1. ~ FirstPut(c)'
    BY <1>1, <1>4 DEF FirstPut, IdentityTypes, Identities!NameAssumption
  <2>2. \A d \in Call \ {c} : /\ idStep'[d] = idStep[d] /\ answer'[d] = answer[d]
                              /\ op'[d] = op[d] /\ seen'[d] = seen[d]
    BY <1>1 DEF IdentityTypes
  <2>3. answer'[c] # c
    BY <1>1, <1>4 DEF Identities!NameAssumption
  <2> QED BY <1>1, <2>1, <2>2, <2>3, FirstFrame
<1> QED BY <1>3, <1>6, <1>7

\* A call that is answered with what was there is answered with the work of another.
LEMMA FoundStep ==
    ASSUME Identities!NameAssumption, IdentityInv, NEW c \in Call,
           Identities!Existing(c) \/ Identities!Get(c)
    PROVE  IdentityInv'
<1> USE DEF IdentityInv
<1> DEFINE n == Identities!NameOf(c)
<1>1. /\ UNCHANGED <<byName, byId, rev, op, seen>>
      /\ idStep[c] \in {"get", "login"}
      /\ \/ /\ answer' = [answer EXCEPT ![c] = byName[n][1]] /\ byName[n] # None
            /\ idStep' = [idStep EXCEPT ![c] = "done"]
         \/ /\ UNCHANGED answer
            /\ idStep' = [idStep EXCEPT ![c] = "import"] \/ idStep' = [idStep EXCEPT ![c] = "failed"]
  BY DEF Identities!Existing, Identities!Get, Identities!Goto, Identities!Answer,
         Identities!There, Identities!NameOf, MakerInv
<1>2. n \in Name
  BY DEF IdentityTypes, Identities!NameOf
<1>3. byName[n] # None => byName[n][1] \in Call \ {c}
  BY <1>1, <1>2 DEF IdentityTypes, MakerInv
<1>4. IdentityTypes'
  BY <1>1, <1>2, <1>3 DEF IdentityTypes
<1>5. answer[c] = None /\ c \notin byId
  BY <1>1 DEF MakerInv
<1>6. answer'[c] # c /\ idStep'[c] # "putid"
      /\ (answer'[c] # None => idStep'[c] = "done")
  BY <1>1, <1>3, <1>5 DEF IdentityTypes, Identities!NameAssumption
<1>7. \A d \in Call \ {c} : idStep'[d] = idStep[d] /\ answer'[d] = answer[d]
  BY <1>1 DEF IdentityTypes
<1>8. MakerInv'
  <2>1. \A m \in Name : byName[m] # None => byName[m][1] \in Call \ {c}
    BY <1>1 DEF IdentityTypes, MakerInv
  <2>2. idStep'[c] # "get"
    BY <1>1 DEF IdentityTypes
  <2> QED BY <1>1, <1>5, <1>6, <1>7, <2>1, <2>2 DEF MakerInv
<1>9. FirstInv'
  <2>1. ~ FirstPut(c)'
    BY <1>6 DEF FirstPut
  <2> QED BY <1>1, <1>6, <1>7, <2>1, FirstFrame
<1> QED BY <1>4, <1>8, <1>9

\* The first put of a name finds the first revision, and it is the last to do so.
LEMMA PutStep ==
    ASSUME Identities!NameAssumption, IdentityInv, NEW c \in Call, Identities!Put(c)
    PROVE  IdentityInv'
<1> USE DEF IdentityInv
<1> DEFINE n == Identities!NameOf(c)
           imported == op[c][1] = "import"
<1>1. /\ idStep[c] = "put" /\ seen[c] = rev[n]
      /\ byName' = [byName EXCEPT ![n] = <<c, imported>>]
      /\ rev' = [rev EXCEPT ![n] = @ + 1]
      /\ UNCHANGED <<byId, op, seen>>
      /\ \/ /\ imported /\ answer' = [answer EXCEPT ![c] = c]
            /\ idStep' = [idStep EXCEPT ![c] = "done"]
         \/ ~ imported /\ UNCHANGED answer /\ idStep' = [idStep EXCEPT ![c] = "putid"]
  BY DEF Identities!Put, Identities!Answer, Identities!Goto
<1>2. n \in Name /\ <<c, imported>> \in Call \X BOOLEAN
  BY DEF IdentityTypes, Identities!NameOf
<1>3. IdentityTypes'
  <2>1. idStep' \in [Call -> {"new", "create", "login", "import", "get", "rev", "put", "putid",
                           "done", "failed"}]
    BY <1>1 DEF IdentityTypes
  <2>2. byName' \in [Name -> (Call \X BOOLEAN) \union {None}]
    BY <1>1, <1>2 DEF IdentityTypes
  <2>3. rev' \in [Name -> Nat]
    BY <1>1, <1>2 DEF IdentityTypes
  <2>4. answer' \in [Call -> Call \union {None}]
    BY <1>1 DEF IdentityTypes
  <2> QED BY <1>1, <2>1, <2>2, <2>3, <2>4 DEF IdentityTypes
<1>4. answer[c] = None /\ c \notin byId
  BY <1>1 DEF MakerInv
<1>5. \A d \in Call \ {c} : idStep'[d] = idStep[d] /\ answer'[d] = answer[d]
  BY <1>1 DEF IdentityTypes
<1>6. idStep'[c] \in {"putid", "done"} /\ (answer'[c] # None => idStep'[c] = "done")
  BY <1>1, <1>4 DEF IdentityTypes
<1>7. \A m \in Name : byName'[m] = <<c, imported>> \/ byName'[m] = byName[m]
  BY <1>1, <1>2 DEF IdentityTypes
<1>8. MakerInv'
  <2>1. \A m \in Name : byName[m] # None => byName[m][1] \in Call \ {c}
    BY <1>1 DEF IdentityTypes, MakerInv
  <2>2. \A m \in Name : byName'[m] # None =>
           idStep'[byName'[m][1]] \in {"putid", "done", "failed"}
    BY <1>5, <1>6, <1>7, <2>1 DEF MakerInv
  <2>3. \A d \in Call : idStep'[d] = "get" => byName'[op'[d][2]] # None
    <3> SUFFICES ASSUME NEW d \in Call, idStep'[d] = "get" PROVE byName'[op[d][2]] # None
      BY <1>1
    <3>1. idStep[d] = "get" /\ op[d][2] \in Name
      BY <1>5, <1>6 DEF IdentityTypes
    <3> QED BY <1>2, <1>7, <3>1 DEF MakerInv, Identities!NameAssumption
  <2> QED BY <1>1, <1>4, <1>5, <1>6, <2>2, <2>3 DEF MakerInv
<1>9. FirstInv'
  <2>1. n = op[c][2] /\ \A d \in Call : op[d][2] \in Name
    BY DEF Identities!NameOf, IdentityTypes
  <2> HIDE DEF n
  <2>2. \A d \in Call \ {c} : FirstPut(d)' <=> FirstPut(d)
    BY <1>1, <1>5 DEF FirstPut
  <2>3. \A m \in Name : /\ rev[m] \in Nat /\ rev'[m] \in Nat /\ rev'[m] >= rev[m]
                        /\ m = n => rev'[m] > 0
    BY <1>1, <1>2 DEF IdentityTypes
  <2>4. FirstPut(c)' => rev[n] = 0
    BY <1>1 DEF FirstPut
  <2>5. ASSUME NEW d \in Call PROVE FirstOf(d)'
    BY <1>1, <2>1, <2>2, <2>3 DEF FirstInv, FirstOf
  <2>6. ASSUME NEW d \in Call, FirstPut(c)', FirstPut(d)', op[d][2] = n PROVE d = c
    BY <2>1, <2>2, <2>3, <2>4, <2>6 DEF FirstInv, FirstOf
  <2>7. ASSUME NEW d \in Call, NEW e \in Call PROVE FirstAlone(d, e)'
    BY <1>1, <2>1, <2>2, <2>6 DEF FirstInv, FirstAlone
  <2>8. ASSUME NEW d \in Call PROVE FirstCreates(d)'
    <3>1. d = c => op[d][1] # "create" \/ answer'[d] # d
      BY <1>1, <1>4 DEF Identities!NameAssumption
    <3> QED BY <1>1, <1>5, <3>1 DEF FirstInv, FirstCreates
  <2> QED BY <2>5, <2>7, <2>8 DEF FirstInv
<1> QED BY <1>3, <1>8, <1>9

\* The entry by identifier is only made with the first put, but for the administrator.
LEMMA PutIdStep ==
    ASSUME Identities!NameAssumption, IdentityInv, NEW c \in Call, Identities!PutId(c)
    PROVE  IdentityInv'
<1> USE DEF IdentityInv
<1>1. /\ idStep[c] = "putid" /\ (seen[c] = 0 \/ Identities!Identifier(c) \in byId)
      /\ byId' = byId \union {Identities!Identifier(c)}
      /\ answer' = [answer EXCEPT ![c] = c]
      /\ idStep' = [idStep EXCEPT ![c] = "done"]
      /\ UNCHANGED <<byName, rev, op, seen>>
  BY DEF Identities!PutId, Identities!Answer, Identities!Goto
<1>2. Identities!Identifier(c) \in {c, Admin}
      /\ (op[c][1] = "create" => Identities!Identifier(c) = c)
  BY DEF Identities!Identifier
<1>3. IdentityTypes'
  BY <1>1, <1>2 DEF IdentityTypes
<1>4. c \notin byId
  BY <1>1 DEF MakerInv
<1>5. op[c][1] = "create" => seen[c] = 0
  BY <1>1, <1>2, <1>4
<1>6. /\ \A d \in Call \ {c} : idStep'[d] = idStep[d] /\ answer'[d] = answer[d]
      /\ idStep'[c] = "done" /\ answer'[c] = c
  BY <1>1 DEF IdentityTypes
<1>7. MakerInv'
  <2>1. \A d \in Call \ {c} : d \in byId' => d \in byId
    BY <1>1, <1>2 DEF Identities!NameAssumption
  <2>2. \A m \in Name : byName[m] # None => byName[m][1] \in Call
    BY DEF IdentityTypes
  <2> QED BY <1>1, <1>6, <2>1, <2>2 DEF MakerInv
<1>8. FirstInv'
  <2>1. \A d \in Call : FirstPut(d)' => FirstPut(d)
    BY <1>1, <1>6 DEF FirstPut
  <2>2. ASSUME NEW d \in Call PROVE FirstOf(d)' /\ FirstCreates(d)'
    BY <1>1, <1>5, <1>6, <2>1 DEF FirstInv, FirstOf, FirstCreates
  <2>3. ASSUME NEW d \in Call, NEW e \in Call PROVE FirstAlone(d, e)'
    BY <1>1, <2>1 DEF FirstInv, FirstAlone
  <2> QED BY <2>2, <2>3 DEF FirstInv
<1> QED BY <1>3, <1>7, <1>8

THEOREM EmbeddedIdentityInvariant ==
    ASSUME Identities!NameAssumption
    PROVE  Identities!Spec => []IdentityInv
<1>1. IdentityInv /\ [Identities!Next]_(Identities!vars) => IdentityInv'
  <2> SUFFICES ASSUME IdentityInv, [Identities!Next]_(Identities!vars) PROVE IdentityInv'
    OBVIOUS
  <2>1. CASE UNCHANGED Identities!vars
    BY <2>1 DEF Identities!vars, IdentityInv, IdentityTypes, MakerInv, FirstInv, FirstOf,
                FirstCreates, FirstAlone, FirstPut
  <2>2. ASSUME NEW c \in Call,
               \/ \E n \in Name : Identities!Begin(c, "login", n) \/ Identities!Begin(c, "import", n)
               \/ \E n \in Name \ {Admin} : Identities!Begin(c, "create", n)
               \/ Identities!Exists(c) \/ Identities!AddCheck(c) \/ Identities!PutGet(c)
               \/ Identities!Conflict(c) \/ Identities!PutIdFails(c)
        PROVE  IdentityInv'
    BY <2>2, LookupStep
  <2>3. ASSUME NEW c \in Call, Identities!Existing(c) \/ Identities!Get(c) PROVE IdentityInv'
    BY <2>3, FoundStep
  <2>4. ASSUME NEW c \in Call, Identities!Put(c) PROVE IdentityInv'
    BY <2>4, PutStep
  <2>5. ASSUME NEW c \in Call, Identities!PutId(c) PROVE IdentityInv'
    BY <2>5, PutIdStep
  <2> QED BY <2>1, <2>2, <2>3, <2>4, <2>5 DEF Identities!Next
<1> QED BY <1>1, IdentityInit, PTL DEF Identities!Spec

\* However calls of createIdentity overlap, one of them at most is answered with an
\* identity that it has made (embeddedconnection.js:425): whoever has put the second
\* revision of the entry by name cannot make the entry by identifier.
THEOREM IdentityCreatedOnce ==
    ASSUME Identities!NameAssumption
    PROVE  Identities!Spec => []Identities!OneCreated
<1>1. ASSUME IdentityInv PROVE Identities!OneCreated
  <2> SUFFICES ASSUME NEW c \in Call, NEW d \in Call, op[c][1] = "create", op[d] = op[c],
                      answer[c] = c, answer[d] = d
               PROVE  c = d
    BY DEF Identities!OneCreated
  <2>1. FirstPut(c) /\ FirstPut(d)
    BY <1>1 DEF IdentityInv, FirstInv, FirstCreates, FirstPut
  <2> QED BY <1>1, <2>1 DEF IdentityInv, FirstInv, FirstAlone
<1> QED BY <1>1, EmbeddedIdentityInvariant, PTL

\* Without overlap an entry is made once, by a call that has found none.
Idle(c) == idStep[c] \in {"new", "done", "failed"}
StoreInv ==
    /\ \A n \in Name : byName[n] = None => rev[n] = 0
    /\ byName[Admin] = None => Admin \notin byId
    /\ \A c, d \in Call : ~ Idle(c) /\ ~ Idle(d) => c = d
MadeBy(c) == byName[op[c][2]] = <<c, FALSE>>
Secret(c) == byName[op[c][2]] = <<answer[c], FALSE>> \/ byName[op[c][2]][2] = TRUE
Looked(c) ==
    /\ idStep[c] = "login" => op[c][1] = "login"
    /\ idStep[c] \in {"create", "get"} => op[c][1] = "create"
    /\ idStep[c] \in {"rev", "put"} => byName[op[c][2]] = None
    /\ idStep[c] = "import" /\ op[c][1] # "import" => byName[op[c][2]] = None
    /\ idStep[c] = "put" => seen[c] = 0
    /\ idStep[c] = "putid" => /\ seen[c] = 0 /\ Identities!Identifier(c) \notin byId
                            /\ op[c][1] # "import" /\ MadeBy(c)
Served(c) ==
    /\ op[c] = <<"login", Admin>> => idStep[c] # "failed"
    /\ idStep[c] = "done" /\ op[c][1] = "create" =>
          byName[op[c][2]] # None /\ Secret(c)

StoredInv == StoreInv /\ \A c \in Call : Looked(c) /\ Served(c)

LEMMA StoredInit == Identities!Init => StoredInv
BY DEF Identities!Init, StoredInv, StoreInv, Looked, Served, Idle

LEMMA LookedNone ==
    ASSUME NEW c \in Call, Looked(c)
    PROVE  /\ idStep[c] \in {"rev", "put"} => byName[op[c][2]] = None
           /\ idStep[c] = "import" /\ op[c][1] # "import" => byName[op[c][2]] = None
           /\ idStep[c] = "put" => seen[c] = 0
           /\ idStep[c] = "putid" => seen[c] = 0 /\ Identities!Identifier(c) \notin byId
BY DEF Looked

\* The others are idle when a call takes a idStep.
LEMMA OthersIdle ==
    ASSUME ~ overlap, IdentityInv, StoredInv, NEW c \in Call,
           ~ Idle(c) \/ \E k, n : Identities!Begin(c, k, n)
    PROVE  \A d \in Call \ {c} : Idle(d)
BY DEF StoredInv, StoreInv, Idle, Identities!Begin

\* They keep what they have, when no entry is replaced.
LEMMA IdleFrame ==
    ASSUME StoredInv, NEW d \in Call, Idle(d), idStep'[d] = idStep[d], op'[d] = op[d],
           answer'[d] = answer[d],
           byName[op[d][2]] # None => byName'[op[d][2]] = byName[op[d][2]]
    PROVE  Idle(d)' /\ Looked(d)' /\ Served(d)'
<1>1. Looked(d)' /\ Idle(d)'
  BY DEF Looked, Idle
<1>2. byName[op[d][2]] # None /\ Secret(d) => Secret(d)'
  BY DEF Secret
<1>3. Served(d)'
  BY <1>2 DEF StoredInv, Served
<1> QED BY <1>1, <1>3

LEMMA EntryParts ==
    ASSUME NEW e \in Call \X BOOLEAN
    PROVE  e = <<e[1], FALSE>> \/ e[2] = TRUE
<1>1. PICK c \in Call, i \in BOOLEAN : e = <<c, i>>
  OBVIOUS
<1>2. e[1] = c /\ e[2] = i
  BY <1>1
<1>3. CASE i = TRUE
  BY <1>2, <1>3
<1>4. CASE i = FALSE
  BY <1>1, <1>2, <1>4
<1> QED BY <1>3, <1>4

LEMMA EntryThere ==
    ASSUME Identities!NameAssumption, NEW c \in Call, NEW i \in BOOLEAN
    PROVE  <<c, i>> # None
BY DEF Identities!NameAssumption

LEMMA StoredLook ==
    ASSUME Identities!NameAssumption, ~ overlap, IdentityInv, StoredInv, NEW c \in Call,
           \/ \E n \in Name : \/ Identities!Begin(c, "login", n)
                              \/ Identities!Begin(c, "import", n)
                              \/ n # Admin /\ Identities!Begin(c, "create", n)
           \/ Identities!Exists(c) \/ Identities!AddCheck(c) \/ Identities!PutGet(c)
           \/ Identities!Conflict(c) \/ Identities!PutIdFails(c)
           \/ Identities!Existing(c) \/ Identities!Get(c)
    PROVE  StoredInv'
<1> USE DEF IdentityInv, IdentityTypes
<1>1. /\ UNCHANGED <<byName, byId, rev>>
      /\ \A d \in Call \ {c} : /\ idStep'[d] = idStep[d] /\ answer'[d] = answer[d]
                              /\ op'[d] = op[d] /\ seen'[d] = seen[d]
  BY DEF Identities!Begin, Identities!Exists, Identities!AddCheck, Identities!PutGet,
         Identities!Conflict, Identities!PutIdFails, Identities!Existing, Identities!Get,
         Identities!Goto, Identities!Answer
<1>2. ~ Idle(c) \/ \E k, n : Identities!Begin(c, k, n)
  BY DEF Idle, Identities!Exists, Identities!AddCheck, Identities!PutGet,
         Identities!Conflict, Identities!PutIdFails, Identities!Existing, Identities!Get
<1>3. \A d \in Call \ {c} : Idle(d)
  BY <1>2, OthersIdle
<1>4. \A d \in Call \ {c} : Idle(d)' /\ Looked(d)' /\ Served(d)'
  BY <1>1, <1>3, IdleFrame
<1>5. StoreInv'
  BY <1>1, <1>4 DEF StoredInv, StoreInv
<1>6. /\ op[c][2] \in Name /\ byName[op[c][2]] \in (Call \X BOOLEAN) \union {None}
      /\ rev[op[c][2]] \in Nat
  OBVIOUS
<1>7. Looked(c) /\ Served(c)
  BY DEF StoredInv
<1>8. CASE \E n \in Name : \/ Identities!Begin(c, "login", n)
                           \/ Identities!Begin(c, "import", n)
                           \/ n # Admin /\ Identities!Begin(c, "create", n)
  <2>1. PICK k \in {"login", "import", "create"}, n \in Name :
           /\ op' = [op EXCEPT ![c] = <<k, n>>] /\ idStep' = [idStep EXCEPT ![c] = k]
           /\ UNCHANGED answer
    BY <1>8 DEF Identities!Begin, Identities!Goto
  <2>2. op'[c] = <<k, n>> /\ op'[c][1] = k /\ idStep'[c] = k
    BY <2>1
  <2>3. Looked(c)' /\ Served(c)'
    BY <2>2 DEF Looked, Served
  <2> QED BY <1>4, <1>5, <2>3 DEF StoredInv
<1>9. CASE Identities!Exists(c) \/ Identities!AddCheck(c) \/ Identities!PutGet(c)
  <2>1. /\ op' = op
        /\ \/ idStep[c] = "create" /\ idStep'[c] = "get"
           \/ idStep[c] = "create" /\ idStep'[c] = "import" /\ byName[op[c][2]] = None
           \/ idStep[c] = "import" /\ idStep'[c] = "failed" /\ byName[op[c][2]] # None
           \/ idStep[c] = "import" /\ idStep'[c] = "rev" /\ byName[op[c][2]] = None
           \/ idStep[c] = "rev" /\ idStep'[c] = "put" /\ seen'[c] = rev[op[c][2]]
    BY <1>9
       DEF Identities!Exists, Identities!AddCheck, Identities!PutGet, Identities!Goto,
                Identities!There, Identities!NameOf
  <2>4. idStep[c] = "rev" => byName[op[c][2]] = None /\ rev[op[c][2]] = 0
    BY <1>6, <1>7, LookedNone DEF StoredInv, StoreInv
  <2>2. Looked(c)'
    <3>1. idStep'[c] \in {"get", "import", "failed", "rev", "put"}
      BY <2>1
    <3>2. idStep'[c] = "get" => op[c][1] = "create"
      BY <1>7, <2>1 DEF Looked
    <3>3. idStep'[c] \in {"import", "rev", "put"} => byName[op[c][2]] = None
      BY <2>1, <2>4
    <3>4. idStep'[c] = "put" => seen'[c] = 0
      BY <2>1, <2>4
    <3> QED BY <1>1, <2>1, <3>1, <3>2, <3>3, <3>4 DEF Looked
  <2>3. Served(c)'
    BY <1>7, <2>1 DEF Looked, Served
  <2> QED BY <1>4, <1>5, <2>2, <2>3 DEF StoredInv
<1>10. ~ Identities!Conflict(c) /\ ~ Identities!PutIdFails(c)
  <2>1. idStep[c] = "put" => seen[c] = 0 /\ rev[op[c][2]] = 0
    BY <1>6, <1>7, LookedNone DEF StoredInv, StoreInv
  <2>2. idStep[c] = "putid" => seen[c] = 0 /\ Identities!Identifier(c) \notin byId
    BY <1>7, LookedNone
  <2> QED BY <2>1, <2>2 DEF Identities!Conflict, Identities!PutIdFails, Identities!NameOf
<1>11. CASE Identities!Existing(c) \/ Identities!Get(c)
  <2>1. /\ op' = op
        /\ \/ /\ idStep[c] = "get" /\ idStep'[c] = "done" /\ answer'[c] = byName[op[c][2]][1]
              /\ byName[op[c][2]] # None
           \/ idStep[c] = "login" /\ idStep'[c] = "done"
           \/ idStep[c] = "login" /\ idStep'[c] = "import" /\ byName[op[c][2]] = None
           \/ idStep[c] = "login" /\ idStep'[c] = "failed" /\ op[c][2] # Admin
    BY <1>11 DEF Identities!Existing, Identities!Get, Identities!Goto, Identities!Answer,
                 Identities!There, Identities!NameOf, MakerInv
  <2>2. Looked(c)'
    BY <1>1, <2>1 DEF Looked
  <2>3. byName[op[c][2]] # None /\ answer'[c] = byName[op[c][2]][1] => Secret(c)'
    BY <1>1, <1>6, <2>1, EntryParts DEF Secret
  <2>4. Served(c)'
    BY <1>1, <1>7, <2>1, <2>3 DEF Looked, Served
  <2> QED BY <1>4, <1>5, <2>2, <2>4 DEF StoredInv
<1> QED BY <1>8, <1>9, <1>10, <1>11

LEMMA StoredPut ==
    ASSUME Identities!NameAssumption, ~ overlap, IdentityInv, StoredInv, NEW c \in Call,
           Identities!Put(c) \/ Identities!PutId(c)
    PROVE  StoredInv'
<1> USE DEF IdentityInv, IdentityTypes
<1>1. /\ UNCHANGED <<op, seen>>
      /\ \A d \in Call \ {c} : idStep'[d] = idStep[d] /\ answer'[d] = answer[d]
  BY DEF Identities!Put, Identities!PutId, Identities!Goto, Identities!Answer
<1>2. \A d \in Call \ {c} : Idle(d)
  BY OthersIdle DEF Idle, Identities!Put, Identities!PutId
<1>3. Looked(c) /\ Served(c) /\ op[c][2] \in Name
  BY DEF StoredInv
<1>4. CASE Identities!Put(c)
  <2> DEFINE n == op[c][2]
             entry == <<c, op[c][1] = "import">>
  <2>1. /\ byName' = [byName EXCEPT ![n] = entry]
        /\ rev' = [rev EXCEPT ![n] = @ + 1] /\ byId' = byId
        /\ \/ op[c][1] = "import" /\ idStep'[c] = "done"
           \/ op[c][1] # "import" /\ idStep'[c] = "putid"
        /\ idStep[c] = "put"
    BY <1>4 DEF Identities!Put, Identities!NameOf, Identities!Goto, Identities!Answer
  <2>9. byName[n] = None /\ seen[c] = 0
    BY <1>3, <2>1, LookedNone
  <2>2. entry # None
    BY EntryThere
  <2>10. idStep'[c] = "putid" => MadeBy(c)'
    <3> SUFFICES ASSUME idStep'[c] = "putid" PROVE MadeBy(c)'  OBVIOUS
    <3>1. op[c][1] # "import"
      BY <2>1
    <3>2. entry = <<c, FALSE>>
      BY <3>1
    <3>3. byName'[n] = entry
      BY <1>3, <2>1
    <3> QED BY <1>1, <3>2, <3>3 DEF MadeBy
  <2> HIDE DEF entry
  <2>3. \A d \in Call \ {c} : Idle(d)' /\ Looked(d)' /\ Served(d)'
    BY <1>1, <1>2, <2>1, <2>9, IdleFrame
  <2>4. StoreInv'
    <3>1. \A m \in Name : byName'[m] = None => byName[m] = None /\ m # n
      BY <2>1, <2>2
    <3>2. \A m \in Name : byName'[m] = None => rev'[m] = 0
      BY <2>1, <3>1 DEF StoredInv, StoreInv
    <3>3. byName'[Admin] = None => Admin \notin byId'
      BY <2>1, <3>1 DEF StoredInv, StoreInv, Identities!NameAssumption
    <3> QED BY <2>3, <3>2, <3>3 DEF StoreInv
  <2>5. Identities!Identifier(c) \notin byId
    <3>1. c \notin byId
      BY <2>1 DEF MakerInv
    <3>2. op[c] = <<"login", Admin>> => Admin \notin byId
      BY <2>9 DEF StoredInv, StoreInv
    <3> QED BY <3>1, <3>2 DEF Identities!Identifier
  <2>6. Identities!Identifier(c)' = Identities!Identifier(c)
    BY <1>1 DEF Identities!Identifier
  <2>7. Looked(c)'
    BY <1>1, <2>1, <2>5, <2>6, <2>9, <2>10 DEF Looked
  <2>8. Served(c)'
    BY <1>1, <1>3, <2>1, <2>9 DEF Served, Looked
  <2> QED BY <2>3, <2>4, <2>7, <2>8 DEF StoredInv
<1>5. CASE Identities!PutId(c)
  <2>1. /\ idStep[c] = "putid" /\ idStep'[c] = "done" /\ answer'[c] = c
        /\ byId' = byId \union {Identities!Identifier(c)} /\ UNCHANGED <<byName, rev>>
    BY <1>5 DEF Identities!PutId, Identities!Answer, Identities!Goto
  <2>2. \A d \in Call \ {c} : Idle(d)' /\ Looked(d)' /\ Served(d)'
    BY <1>1, <1>2, <2>1, IdleFrame
  <2>3. MadeBy(c)
    BY <1>3, <2>1 DEF Looked
  <2>6. byName[op[c][2]] # None
    BY <2>3, EntryThere DEF MadeBy
  <2>7. Secret(c)'
    BY <1>1, <2>1, <2>3 DEF Secret, MadeBy
  <2>4. StoreInv'
    <3>1. Identities!Identifier(c) = Admin => byName[Admin] # None
      BY <2>6 DEF Identities!Identifier, Identities!NameAssumption
    <3> QED BY <2>1, <2>2, <3>1 DEF StoredInv, StoreInv
  <2>5. Looked(c)' /\ Served(c)'
    BY <1>1, <2>1, <2>6, <2>7 DEF Looked, Served
  <2> QED BY <2>2, <2>4, <2>5 DEF StoredInv
<1> QED BY <1>4, <1>5

\* One call at a time: the secret that createIdentity has answered serves, or a
\* certificate does, and the administrator logs in (embeddedconnectionmanager.js).
THEOREM IdentitySecretServes ==
    ASSUME Identities!NameAssumption
    PROVE  Identities!Spec => [](overlap \/ (Identities!SecretServes /\ Identities!AdminLogsIn))
<1>1. ASSUME ~ overlap, IdentityInv, StoredInv, [Identities!Next]_(Identities!vars)
      PROVE  StoredInv'
  <2>1. CASE UNCHANGED Identities!vars
    BY <1>1, <2>1 DEF Identities!vars, StoredInv, StoreInv, Looked, Served, Idle,
                MadeBy, Secret, Identities!Identifier
  <2>2. ASSUME NEW c \in Call, Identities!Put(c) \/ Identities!PutId(c) PROVE StoredInv'
    BY <1>1, <2>2, StoredPut
  <2>3. ASSUME NEW c \in Call,
               \/ \E n \in Name : Identities!Begin(c, "login", n) \/ Identities!Begin(c, "import", n)
               \/ \E n \in Name \ {Admin} : Identities!Begin(c, "create", n)
               \/ Identities!Exists(c) \/ Identities!AddCheck(c) \/ Identities!PutGet(c)
               \/ Identities!Conflict(c) \/ Identities!PutIdFails(c)
               \/ Identities!Existing(c) \/ Identities!Get(c)
        PROVE  StoredInv'
    BY <1>1, <2>3, StoredLook
  <2> QED BY <1>1, <2>1, <2>2, <2>3 DEF Identities!Next
<1>2. ASSUME [Identities!Next]_(Identities!vars) PROVE overlap' = overlap
  BY <1>2 DEF Identities!Next, Identities!vars
<1> DEFINE Alone == overlap \/ StoredInv
           Promised == overlap \/ (Identities!SecretServes /\ Identities!AdminLogsIn)
<1>3. Identities!Init => Alone
  BY StoredInit
<1>4. IdentityInv /\ Alone /\ [Identities!Next]_(Identities!vars) => Alone'
  BY <1>1, <1>2
<1>5. Alone => Promised
  BY DEF StoredInv, Served, Secret, Identities!SecretServes, Identities!AdminLogsIn,
         Identities!NameOf
<1> HIDE DEF Alone
<1> QED BY <1>3, <1>4, <1>5, EmbeddedIdentityInvariant, PTL DEF Identities!Spec

\* One call at most makes the identity of a name; one call at a time, its secret serves and
\* the administrator logs in (embeddedconnection.js, createIdentity, testIdentity).
THEOREM IdentitiesAsPromised ==
    ASSUME Identities!NameAssumption
    PROVE  Identities!Spec => []Identities!IdentitiesSound
<1>1. IdentityInv => Identities!TypeOK
  BY DEF IdentityInv, IdentityTypes, Identities!TypeOK
<1> DEFINE Promised == overlap \/ (Identities!SecretServes /\ Identities!AdminLogsIn)
<1>2. Identities!TypeOK /\ Identities!OneCreated /\ Promised => Identities!IdentitiesSound
  BY DEF Identities!IdentitiesSound
<1>3. Identities!Spec => []Promised
  BY IdentitySecretServes
<1> HIDE DEF Promised
<1> QED BY <1>1, <1>2, <1>3, EmbeddedIdentityInvariant, IdentityCreatedOnce, PTL

-----------------------------------------------------------------------------
(***************************************************************************)
(* The parts together.  Each part takes its own steps and stays as it is   *)
(* in those of the others.                                                 *)
(***************************************************************************)
LEMMA PartsTaken ==
    ASSUME [PartsNext]_everything
    PROVE  /\ part = "proxy" => [Proxy!Next]_(Proxy!vars)
           /\ [Identities!Next]_(Identities!vars)
           /\ [Next]_vars
           /\ part' = part
<1> USE DEF everything, proxyVars, identityVars, Proxy!vars, Identities!vars
<1>1. CASE UNCHANGED everything
  BY <1>1 DEF vars
<1>2. CASE PartsNext
  BY <1>2 DEF PartsNext
<1> QED BY <1>1, <1>2

\* In the run of all connectors: what the server of a proxy knows and answers
\* (connectorserver.js, proxyconnection.js).
THEOREM ProxiesKeepOrder == PartsSpec => []ProxySound
<1> DEFINE Here == part = "proxy"
<1>1. PartsInit => Proxy!Init
  BY DEF PartsInit
<1>2. Here /\ [PartsNext]_everything => Here' /\ [Proxy!Next]_(Proxy!vars)
  BY PartsTaken
<1>3. ~Here /\ [PartsNext]_everything => ~Here'
  BY PartsTaken
<1>4. (~Here \/ Proxy!ProxySound) => ProxySound
  BY DEF ProxySound
<1> HIDE DEF Here
<1> QED BY <1>1, <1>2, <1>3, <1>4, ProxyAsPromised, PTL DEF PartsSpec, ProxySteps

\* In the run of all connectors: one call at most makes the identity of a name; one call
\* at a time, its secret serves (embeddedconnection.js, createIdentity).
THEOREM IdentitiesMadeOnce == PartsSpec => []IdentitiesSound
<1>1. PartsInit => Identities!Init
  BY DEF PartsInit
<1>2. [PartsNext]_everything => [Identities!Next]_(Identities!vars)
  BY PartsTaken
<1>3. PartsSpec => Identities!Spec
  BY <1>1, <1>2, PTL DEF PartsSpec, Identities!Spec
<1>4. Identities!IdentitiesSound => IdentitiesSound
  BY DEF IdentitiesSound
<1> QED BY <1>3, <1>4, IdentitiesAsPromised, ConnectorsAssumption, PTL
=============================================================================
