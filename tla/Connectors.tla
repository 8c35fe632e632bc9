----------------------------- MODULE Connectors -----------------------------
(***************************************************************************)
(* What stands between an application and a peer: the loopback connector   *)
(* of the REST server (RestConnector), the proxy connector with the        *)
(* connector server (ProxyConnection) and the identities of the embedded   *)
(* and web connectors (EmbeddedIdentities).  They share no state, so a     *)
(* behaviour is one of the part that is chosen at the start and the others *)
(* stay as they are: the states are those of one part after the other.     *)
(***************************************************************************)
EXTENDS RestConnector

CONSTANTS
    Parts,                      \* the parts that are explored
    Conn, MaxCalls, MaxDrops,   \* ProxyConnection
    Call, Name, Admin           \* EmbeddedIdentities

VARIABLES
    part,  \* the part of this behaviour
    phase, unanswered, up, down, connected, session, connections, contexts,
    running, listening, asked, executed, answered, heard, late,
    byName, byId, rev, idStep, op, seen, answer, overlap

proxyVars == <<phase, unanswered, up, down, connected, session, connections, contexts,
               running, listening, asked, executed, answered, heard, late>>
identityVars == <<byName, byId, rev, idStep, op, seen, answer, overlap>>
everything == <<part, vars, proxyVars, identityVars>>

Proxy == INSTANCE ProxyConnection WITH pending <- unanswered
\* While the socket connection lasts.
Steady == INSTANCE ProxyConnection WITH pending <- unanswered, MaxCalls <- 1, MaxDrops <- 0
Identities == INSTANCE EmbeddedIdentities WITH step <- idStep

ASSUME ConnectorsAssumption == Identities!NameAssumption

-----------------------------------------------------------------------------
PartsInit ==
    /\ part \in Parts
    /\ Init
    /\ part # "rest" => user = [r \in Request |-> CHOOSE u \in User : TRUE]
    /\ Proxy!Init
    /\ Identities!Init
    /\ part # "identities" => ~overlap

PartsNext ==
    \/ /\ part = "rest" /\ Next
       /\ UNCHANGED <<part, proxyVars, identityVars>>
    \/ /\ part = "proxy" /\ Proxy!Next
       /\ UNCHANGED <<part, vars, identityVars>>
    \/ /\ part = "steady proxy" /\ Steady!Next
       /\ UNCHANGED <<part, vars, identityVars>>
    \/ /\ part = "identities" /\ Identities!Next
       /\ UNCHANGED <<part, vars, proxyVars>>

PartsSpec ==
    /\ PartsInit /\ [][PartsNext]_everything
    /\ Fairness /\ Steady!Fairness

-----------------------------------------------------------------------------
\* The server of the proxy connector knows the connections of the client while
\* the socket connection lasts; a call that was answered without an error has
\* been executed, none is executed twice, and its events come once and first.
ProxySound == part = "proxy" => Proxy!ProxySound

\* While the socket connection lasts, every request of the proxy is answered; after it
\* was lost, no connection that was opened before is served.
ProxyServes ==
    /\ part = "steady proxy" => Steady!Answered
    /\ Proxy!StaleRefused

\* One of two overlapping calls at most is told that it has created an identity;
\* without overlap its secret serves, and the administrator logs in.
IdentitiesSound == part = "identities" => Identities!IdentitiesSound
=============================================================================
