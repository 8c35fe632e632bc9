------------------------------- MODULE Clients -------------------------------
(***************************************************************************)
(* What applications and users work with: the resources of the REST server *)
(* (RestResources), the connection of composer-client (ClientConnection),  *)
(* the cards of the command line (Cards), business networks in a browser   *)
(* (WebConnection), and the runtime that administrators install and start  *)
(* on a channel (Deployment).  They share no state, so a behaviour is one  *)
(* of the part that is chosen at the start and the others stay as they     *)
(* are: the states are those of one part after the other.                  *)
(***************************************************************************)
EXTENDS RestResources

CONSTANTS
    Parts,                                       \* the parts that are explored
    ClientCall, Network, Disciplined, MaxEvents, \* ClientConnection
    Call, Name, Card, Uses,                      \* Cards
    MaxReloads,                                  \* WebConnection
    Admin, Peer, Before, AdminCall               \* Deployment

VARIABLES
    part,  \* the part of this behaviour
    connection, context, network, to, progress, at, alive, sent, events, thrown,
    files, keys, cardOp, cardStep, got, acts, bound, use,
    profile, started, businessNetworks, chaincodes, webCall, loaded, session, deployed,
    undeployed, reloads, overlap,
    installed, channel, ordering, outcome, op, step, answers, existed, read

clientVars == <<connection, context, network, to, progress, at, alive, sent, events, thrown>>
cardVars == <<files, keys, cardOp, cardStep, got, acts, bound, use>>
webVars == <<profile, started, businessNetworks, chaincodes, webCall, loaded, session,
             deployed, undeployed, reloads, overlap>>
deploymentVars ==
    <<installed, channel, ordering, outcome, op, step, answers, existed, read>>
everything == <<part, vars, clientVars, cardVars, webVars, deploymentVars>>

-----------------------------------------------------------------------------
\* Requests that overlap, without a PATCH.
Overlapping == INSTANCE RestResources WITH Serial <- FALSE, Ops <- Ops \ {"patch"}

Client == INSTANCE ClientConnection WITH Call <- ClientCall, step <- progress
Store == INSTANCE Cards WITH op <- cardOp, step <- cardStep
Web == INSTANCE WebConnection WITH call <- webCall
Runtime == INSTANCE Deployment WITH Call <- AdminCall

ASSUME ClientsAssumption ==
    /\ Client!ClientAssumption /\ Store!CardAssumption
    /\ Web!NoneAssumption /\ Runtime!DeploymentAssumption

-----------------------------------------------------------------------------
PartsInit ==
    /\ part \in Parts
    /\ Init
    /\ part \notin {"resources", "overlapping resources"} => store = [i \in Id |-> None]
    /\ Client!Init /\ Store!Init /\ Web!Init /\ Runtime!Init
    /\ part # "cards" => use = CHOOSE u \in Uses : TRUE
    /\ part # "web" => ~overlap
    /\ part # "deployment" => op = [x \in Admin |-> CHOOSE a \in AdminCall : TRUE]

PartsNext ==
    \/ /\ part = "resources" /\ Next
       /\ UNCHANGED <<part, clientVars, cardVars, webVars, deploymentVars>>
    \/ /\ part = "overlapping resources" /\ Overlapping!Next
       /\ UNCHANGED <<part, clientVars, cardVars, webVars, deploymentVars>>
    \/ /\ part = "client" /\ Client!Next
       /\ UNCHANGED <<part, vars, cardVars, webVars, deploymentVars>>
    \/ /\ part = "cards" /\ Store!Next
       /\ UNCHANGED <<part, vars, clientVars, webVars, deploymentVars>>
    \/ /\ part = "web" /\ Web!Next
       /\ UNCHANGED <<part, vars, clientVars, cardVars, deploymentVars>>
    \/ /\ part = "deployment" /\ Runtime!Next
       /\ UNCHANGED <<part, vars, clientVars, cardVars, webVars>>

PartsSpec == PartsInit /\ [][PartsNext]_everything

-----------------------------------------------------------------------------
\* A transaction goes to the network it was submitted for, in its terms, and nothing is
\* left of a connection that the application has terminated.
ClientSound == part = "client" => Client!ClientSound

\* One call at a time, a card in the store is whole, a listing and an export work; a
\* connection acts for the holder of the card that was not deleted meanwhile, and, with
\* overlapping calls, for nobody but those whose cards were imported by its name.
CardsSound == part = "cards" => Store!CardsSound

\* In the browser a session is on a network that has been started to the end; without
\* overlap what is deployed is listed, and until a reload every session is served.
WebSound == part = "web" => Web!WebSound

\* What runs on the channel is installed on every peer and was started once; upgrades
\* stay within a minor version, whatever is upgraded meanwhile; a call that is resolved
\* has done, or found done, what it is for, and is refused only for what is there.
DeploymentSound == part = "deployment" => Runtime!DeploymentSound
=============================================================================
