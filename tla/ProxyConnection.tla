--------------------------- MODULE ProxyConnection ---------------------------
(***************************************************************************)
(* Connections over a socket: proxyconnectionmanager.js and                *)
(* proxyconnection.js at the client, connectorserver.js at the server,     *)
(* which makes one ConnectorServer with its own maps per socket.           *)
(*                                                                         *)
(* socket.io keeps messages in order and calls an acknowledgement when the *)
(* answer comes; what is on its way when the connection drops is lost, and *)
(* what the client emits while there is none is sent after it is back.     *)
(***************************************************************************)
EXTENDS Naturals, Sequences, FiniteSets, SequencesExt

CONSTANTS
    Conn,       \* the connections that the client makes
    MaxCalls,   \* bound: calls per connection
    MaxDrops    \* bound: how often the socket is disconnected

VARIABLES
    phase,       \* what the client has come to with each connection
    pending,     \* whether a call of it is without answer
    up, down,    \* messages on their way: connection, kind, and if it is fine
    connected,   \* whether there is a socket connection
    session,     \* the ConnectorServer: one for each time that it was made
    connections, \* its connections, by their identifiers
    contexts,    \* its security contexts, by the connection that logged in
    running,     \* requests that wait for the connector: session and message
    listening,   \* per connection the sessions whose socket gets its events,
                 \* one for each listener
    asked,       \* how many calls the client has made on each connection
    executed,    \* how many calls of each connection the connector has executed
    answered,    \* how many of them were answered without an error
    heard,       \* how many events of it the client's listeners were given
    late         \* whether events came after disconnect

vars == <<phase, pending, up, down, connected, session, connections, contexts,
          running, listening, asked, executed, answered, heard, late>>
client == <<phase, pending, asked, answered, heard, late>>
server == <<connections, contexts, running, listening, executed>>

RequestKind == {"connect", "login", "call", "disconnect"}

Init ==
    /\ phase = [c \in Conn |-> "new"]
    /\ pending = [c \in Conn |-> FALSE]
    /\ up = <<>> /\ down = <<>>
    /\ connected = TRUE
    /\ session = 1
    /\ connections = {} /\ contexts = {} /\ running = {}
    /\ listening = [c \in Conn |-> <<>>]
    /\ asked = [c \in Conn |-> 0]
    /\ executed = [c \in Conn |-> 0]
    /\ answered = [c \in Conn |-> 0]
    /\ heard = [c \in Conn |-> 0]
    /\ late = FALSE

-----------------------------------------------------------------------------
\* The client.
Emit(c, kind) == up' = Append(up, <<c, kind>>)

\* connect waits for a socket connection, the other requests do not.
Connect(c) ==
    /\ phase[c] = "new" /\ connected
    /\ Emit(c, "connect")
    /\ phase' = [phase EXCEPT ![c] = "connecting"]
    /\ UNCHANGED <<pending, asked, answered, heard, late, down, connected, session, server>>

Login(c) ==
    /\ phase[c] = "open"
    /\ Emit(c, "login")
    /\ phase' = [phase EXCEPT ![c] = "logging in"]
    /\ UNCHANGED <<pending, asked, answered, heard, late, down, connected, session, server>>

\* A transaction is submitted, a query made ...: the calls of the connector that
\* take a security context.
Invoke(c) ==
    /\ phase[c] = "ready" /\ ~pending[c]
    /\ asked[c] < MaxCalls
    /\ asked' = [asked EXCEPT ![c] = @ + 1]
    /\ Emit(c, "call")
    /\ pending' = [pending EXCEPT ![c] = TRUE]
    /\ UNCHANGED <<phase, answered, heard, late, down, connected, session, server>>

Disconnect(c) ==
    /\ phase[c] = "ready"
    /\ Emit(c, "disconnect")
    /\ phase' = [phase EXCEPT ![c] = "disconnecting"]
    /\ UNCHANGED <<pending, asked, answered, heard, late, down, connected, session, server>>

After(c, kind, fine) ==
    IF ~fine THEN "failed"
    ELSE CASE kind = "connect" -> "open"
           [] kind = "login" -> "ready"
           [] kind = "disconnect" -> "closed"

\* An acknowledgement, or events.  After disconnect the listeners of the socket
\* are all still there: it removes a function that was never added.
Receive ==
    /\ down # <<>>
    /\ down' = Tail(down)
    /\ LET c == Head(down)[1]
           kind == Head(down)[2]
           fine == Head(down)[3]
       IN  CASE kind = "events" ->
                  /\ heard' = [heard EXCEPT ![c] = @ + 1]
                  /\ late' = (late \/ phase[c] = "closed")
                  /\ UNCHANGED <<phase, pending, answered>>
             [] kind = "call" ->
                  /\ pending' = [pending EXCEPT ![c] = FALSE]
                  /\ answered' = [answered EXCEPT ![c] = @ + IF fine THEN 1 ELSE 0]
                  /\ UNCHANGED <<phase, heard, late>>
             [] OTHER ->
                  /\ phase' = [phase EXCEPT ![c] = After(c, kind, fine)]
                  /\ UNCHANGED <<pending, answered, heard, late>>
    /\ UNCHANGED <<asked, up, connected, session, server>>

-----------------------------------------------------------------------------
\* The server.  An answer to a socket that is gone goes nowhere.
Answer(in, messages) ==
    IF connected /\ in = session THEN down' = down \o messages ELSE UNCHANGED down
Deliver == connected /\ up # <<>> /\ up' = Tail(up)
Sender == Head(up)[1]
Kind == Head(up)[2]

\* Each request looks its connection and its security context up.
Known ==
    \/ Kind = "connect"
    \/ Kind \in {"login", "disconnect"} /\ Sender \in connections
    \/ Kind = "call" /\ Sender \in connections /\ Sender \in contexts

Refuse ==
    /\ Deliver /\ ~Known
    /\ Answer(session, <<<<Sender, Kind, FALSE>>>>)
    /\ UNCHANGED <<client, connected, session, server>>

\* disconnect forgets the connection, and leaves its listener and its context.
Accept ==
    /\ Deliver /\ Known
    /\ running' = running \union {<<session, Head(up)>>}
    /\ connections' = IF Kind = "disconnect" THEN connections \ {Sender} ELSE connections
    /\ UNCHANGED <<client, down, connected, session, contexts, listening, executed>>

\* The connector is done with a request.  The maps belong to the ConnectorServer
\* that has accepted it.
Done(r) == r \in running /\ running' = running \ {r}

Connected(r) ==
    /\ Done(r) /\ r[2][2] = "connect"
    /\ connections' = IF r[1] = session THEN connections \union {r[2][1]} ELSE connections
    /\ Answer(r[1], <<<<r[2][1], "connect", TRUE>>>>)
    /\ UNCHANGED <<client, up, connected, session, contexts, listening, executed>>

LoggedIn(r) ==
    /\ Done(r) /\ r[2][2] = "login"
    /\ contexts' = IF r[1] = session THEN contexts \union {r[2][1]} ELSE contexts
    /\ listening' = [listening EXCEPT ![r[2][1]] = Append(@, r[1])]
    /\ Answer(r[1], <<<<r[2][1], "login", TRUE>>>>)
    /\ UNCHANGED <<client, up, connected, session, connections, executed>>

\* Mutant: the answer goes ahead of the events.
CalledFirst(r) ==
    LET c == r[2][1]
        events == [i \in DOMAIN listening[c] |-> <<c, "events", TRUE>>]
    IN  /\ Done(r) /\ r[2][2] = "call"
        /\ executed' = [executed EXCEPT ![c] = @ + 1]
        /\ Answer(r[1], <<<<c, "call", TRUE>>>> \o events)
        /\ UNCHANGED <<client, up, connected, session, connections, contexts, listening>>

\* A transaction is executed: its events are emitted before it is answered.
Called(r) ==
    LET c == r[2][1]
        events == [i \in DOMAIN listening[c] |-> <<c, "events", TRUE>>]
    IN  /\ Done(r) /\ r[2][2] = "call"
        /\ executed' = [executed EXCEPT ![c] = @ + 1]
        /\ Answer(r[1], events \o <<<<c, "call", TRUE>>>>)
        /\ UNCHANGED <<client, up, connected, session, connections, contexts, listening>>

\* Mutant: an exception goes unanswered.
ErrsUnanswered(r) ==
    /\ Done(r) /\ r[2][2] = "call"
    /\ UNCHANGED <<client, up, down, connected, session, connections, contexts,
                   listening, executed>>

\* The connector has refused it: no events and nothing done.
Errs(r) ==
    /\ Done(r)
    /\ Answer(r[1], <<<<r[2][1], r[2][2], FALSE>>>>)
    /\ UNCHANGED <<client, up, connected, session, connections, contexts,
                   listening, executed>>

Disconnected(r) ==
    /\ Done(r) /\ r[2][2] = "disconnect"
    /\ Answer(r[1], <<<<r[2][1], "disconnect", TRUE>>>>)
    /\ UNCHANGED <<client, up, connected, session, connections, contexts,
                   listening, executed>>

-----------------------------------------------------------------------------
\* The socket connection is lost, and what is on its way.
Drop ==
    /\ connected /\ session <= MaxDrops
    /\ connected' = FALSE
    /\ up' = <<>> /\ down' = <<>>
    /\ UNCHANGED <<client, session, server>>

\* The client connects again, to a new ConnectorServer.
Reconnect ==
    /\ ~connected
    /\ connected' = TRUE
    /\ session' = session + 1
    /\ connections' = {} /\ contexts' = {}
    /\ UNCHANGED <<client, up, down, running, listening, executed>>

Execute(c) ==
    \E r \in running :
       /\ r[2][1] = c
       /\ Connected(r) \/ LoggedIn(r) \/ Called(r) \/ Errs(r) \/ Disconnected(r)

Next ==
    \/ \E c \in Conn : Connect(c) \/ Login(c) \/ Invoke(c) \/ Disconnect(c)
    \/ Receive \/ Refuse \/ Accept
    \/ \E r \in running : Connected(r) \/ LoggedIn(r)
    \/ \E r \in running : Called(r) \/ Errs(r) \/ Disconnected(r)
    \/ Drop \/ Reconnect

\* Messages arrive, the connector comes to an end, the client connects again.
Fairness ==
    /\ WF_vars(Receive) /\ WF_vars(Refuse \/ Accept) /\ WF_vars(Reconnect)
    /\ \A c \in Conn : WF_vars(Execute(c))

Spec == Init /\ [][Next]_vars /\ Fairness

-----------------------------------------------------------------------------
\* The types of the variables.
TypeOK ==
    /\ phase \in [Conn -> {"new", "connecting", "open", "logging in", "ready",
                           "disconnecting", "closed", "failed"}]
    /\ pending \in [Conn -> BOOLEAN]
    /\ \A m \in ToSet(up) : m \in Conn \X RequestKind
    /\ \A m \in ToSet(down) : m \in Conn \X (RequestKind \union {"events"}) \X BOOLEAN
    /\ running \subseteq (1..session) \X (Conn \X RequestKind)
    /\ connections \subseteq Conn /\ contexts \subseteq Conn
    /\ \A c \in Conn : listening[c] \in Seq(1..session)

\* A call that was answered without an error has been executed, and no call twice:
\* nothing is sent again.
AnsweredExecuted ==
    \A c \in Conn : answered[c] <= executed[c] /\ executed[c] <= asked[c]

\* The events of one execution reach the client once, and before the answer.
EventsOnce == \A c \in Conn : heard[c] <= executed[c]
EventsFirst == \A c \in Conn : answered[c] <= heard[c]

\* While the socket connection is not lost, the server knows every connection that
\* the client has, and its security context once it has logged in.
OrderlyServed ==
    session = 1 /\ connected =>
       \A c \in Conn : /\ phase[c] \in {"open", "logging in", "ready"} => c \in connections
                       /\ phase[c] = "ready" => c \in contexts

\* After a reconnect the server knows no identifier of the client: what was opened
\* before is never served again.
StaleRefused ==
    [][\A r \in running' \ running :
         r[2][2] = "call" => r[2][1] \in connections \intersect contexts
                             /\ session \in ToSet(listening[r[2][1]])]_vars

\* "A promise that is resolved once the connection has been terminated": no events
\* come after that.
QuietAfterDisconnect == ~late

\* Every request is answered, if the socket connection is not lost ...
Answered ==
    /\ \A c \in Conn : pending[c] ~> ~pending[c]
    /\ \A c \in Conn : phase[c] = "connecting" ~> phase[c] # "connecting"
    /\ \A c \in Conn : phase[c] = "disconnecting" ~> phase[c] # "disconnecting"
\* ... and if it is.
DisconnectEnds == \A c \in Conn : phase[c] = "disconnecting" ~> phase[c] \in {"closed", "failed"}

\* The server of the proxy connector knows the connections of the client while
\* the socket connection lasts; a call that was answered without an error has
\* been executed, none is executed twice, and its events come once and first.
ProxySound == TypeOK /\ OrderlyServed /\ AnsweredExecuted /\ EventsOnce /\ EventsFirst
=============================================================================
