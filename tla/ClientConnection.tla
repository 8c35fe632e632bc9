--------------------------- MODULE ClientConnection ---------------------------
(***************************************************************************)
(* One BusinessNetworkConnection of an application:                        *)
(* businessnetworkconnection.js.  It has a connection, the security        *)
(* context of its login and the definition of the business network in      *)
(* fields, which its methods read again after every await.                 *)
(*                                                                         *)
(* A connection, and the context that it gives, is known by the call of    *)
(* connect that has made it.                                               *)
(***************************************************************************)
EXTENDS Naturals, FiniteSets

CONSTANTS
    Call,         \* the calls of the application
    Network,      \* the business networks
    Disciplined,  \* whether the application waits for each call, and disconnects
                  \* before it connects again
    MaxEvents,    \* bound: events that are emitted
    None

ClientAssumption == None \notin Call \union Network

VARIABLES
    connection,  \* this.connection, this.securityContext: of which connect
    context,
    network,     \* this.businessNetwork: of which network
    to,          \* the network that a connect call is for
    step,        \* where each call is
    at,          \* the connection or context that the call works with
    alive,       \* connections that are logged in and not terminated
    sent,        \* submissions: where the call was made, where it went, and the
                 \* network whose definition it was serialized by
    events,      \* how many events have been emitted
    thrown       \* whether a listener has thrown, or taken a wrong definition

vars == <<connection, context, network, to, step, at, alive, sent, events, thrown>>
fields == <<connection, context, network>>
observed == <<sent, events, thrown>>

Init ==
    /\ connection = None /\ context = None /\ network = None
    /\ to = [c \in Call |-> None]
    /\ step = [c \in Call |-> "new"]
    /\ at = [c \in Call |-> None]
    /\ alive = {}
    /\ sent = {}
    /\ events = 0
    /\ thrown = FALSE

Ended == {"new", "done", "failed"}
Idle == \A c \in Call : step[c] \in Ended
Goto(c, s) == step' = [step EXCEPT ![c] = s]
Begin(c) == step[c] = "new" /\ (Disciplined => Idle)

-----------------------------------------------------------------------------
\* connect: the card, and the connection of its connector.
Connect(c, n) ==
    /\ Begin(c) /\ (Disciplined => connection = None)
    /\ Goto(c, "connecting")
    /\ to' = [to EXCEPT ![c] = n]
    /\ UNCHANGED <<fields, at, alive, observed>>

\* The listener for events is added and the login begun.
Connected(c) ==
    /\ step[c] = "connecting"
    /\ connection' = c
    /\ Goto(c, "login")
    /\ UNCHANGED <<context, network, to, at, alive, observed>>

\* The ping takes whatever connection and context are there.
LoggedIn(c) ==
    /\ step[c] = "login"
    /\ context' = c
    /\ alive' = alive \union {c}
    /\ Goto(c, IF connection = None THEN "failed" ELSE "ping")
    /\ UNCHANGED <<connection, network, to, at, observed>>

\* So does the query for the definition of the network.
Pinged(c) ==
    /\ step[c] = "ping"
    /\ at' = [at EXCEPT ![c] = context]
    /\ Goto(c, IF context = None THEN "failed" ELSE "fetch")
    /\ UNCHANGED <<fields, to, alive, observed>>

Fetched(c) ==
    /\ step[c] = "fetch"
    /\ network' = to[at[c]]
    /\ Goto(c, "done")
    /\ UNCHANGED <<connection, context, to, at, alive, observed>>

\* The connector refuses: the connection, the login, the ping or the query; or to
\* terminate the connection, or an identifier.  The fields stay as they are.
Fails(c) ==
    /\ step[c] \in {"connecting", "login", "ping", "fetch", "disconnecting", "id"}
    /\ Goto(c, "failed")
    /\ UNCHANGED <<fields, to, at, alive, observed>>

-----------------------------------------------------------------------------
Disconnect(c) ==
    /\ Begin(c)
    /\ at' = [at EXCEPT ![c] = connection]
    /\ Goto(c, IF connection = None THEN "done" ELSE "disconnecting")
    /\ UNCHANGED <<fields, to, alive, observed>>

\* Mutant: the definition is kept.
DisconnectedPartly(c) ==
    /\ step[c] = "disconnecting"
    /\ alive' = alive \ {at[c]}
    /\ connection' = None /\ context' = None
    /\ Goto(c, IF connection = None THEN "failed" ELSE "done")
    /\ UNCHANGED <<network, to, at, observed>>

\* The fields are cleared whatever connection they are of by now.  That the
\* connection is terminated ends its events, whoever listens.
Disconnected(c) ==
    /\ step[c] = "disconnecting"
    /\ alive' = alive \ {at[c]}
    /\ IF connection = None
       THEN Goto(c, "failed") /\ UNCHANGED fields
       ELSE /\ connection' = None /\ context' = None /\ network' = None
            /\ Goto(c, "done")
    /\ UNCHANGED <<to, at, observed>>

-----------------------------------------------------------------------------
\* submitTransaction: the security check, and an identifier from the connector.
Submit(c) ==
    /\ Begin(c)
    /\ at' = [at EXCEPT ![c] = context]
    /\ Goto(c, IF context = None THEN "failed" ELSE "id")
    /\ UNCHANGED <<fields, to, alive, observed>>

\* The transaction is serialized and sent with the fields as they are now.
Send(c) ==
    /\ step[c] = "id"
    /\ IF context = None \/ network = None
       THEN Goto(c, "failed") /\ UNCHANGED sent
       ELSE /\ sent' = sent \union {[made |-> at[c], context |-> context, by |-> network]}
            /\ Goto(c, "done")
    /\ UNCHANGED <<fields, to, at, alive, events, thrown>>

-----------------------------------------------------------------------------
\* Events come over a connection: the listener decodes them with the definition
\* that is there, and does nothing else.
Event(c) ==
    /\ c \in alive /\ events < MaxEvents
    /\ events' = events + 1
    /\ thrown' = (thrown \/ network # to[c])
    /\ UNCHANGED <<fields, to, step, at, alive, sent>>

Next ==
    \/ \E c \in Call :
          \/ \E n \in Network : Connect(c, n)
          \/ Connected(c) \/ LoggedIn(c) \/ Pinged(c) \/ Fetched(c) \/ Fails(c)
          \/ Disconnect(c) \/ Disconnected(c)
          \/ Submit(c) \/ Send(c)
    \/ \E c \in Call : Event(c)

Spec == Init /\ [][Next]_vars

-----------------------------------------------------------------------------
\* The types of the variables.
TypeOK ==
    /\ {connection, context} \subseteq Call \union {None}
    /\ network \in Network \union {None}
    /\ to \in [Call -> Network \union {None}]
    /\ at \in [Call -> Call \union {None}]
    /\ alive \subseteq Call
    /\ sent \subseteq [made : Call, context : Call, by : Network]

\* A transaction goes to the network that the application was connected to when
\* it submitted it, in the terms of that network.
SubmittedWhereMade ==
    \A s \in sent : to[s.context] = to[s.made] /\ s.by = to[s.made]

\* An application that keeps to the order of calls, through all failures of
\* connect: the fields belong together, and nothing is left of a connection
\* that it has terminated.
OneConnection ==
    Idle => /\ context \in {connection, None}
            /\ network # None => context # None /\ network = to[context]
            /\ alive \subseteq {connection}

\* Events are decoded by the definition of the network that they come from.
EventsDecoded == ~thrown

\* For an application that waits for each call: a transaction goes to the network it
\* was submitted for, in its terms, and nothing is left of a connection that the
\* application has terminated.
ClientSound == Disciplined => TypeOK /\ SubmittedWhereMade /\ OneConnection
=============================================================================
