---------------------------- MODULE WebConnection ----------------------------
(***************************************************************************)
(* The life of business networks in a browser: webconnection.js, over one  *)
(* connection profile.  A started network has a chaincode, an engine with  *)
(* a container and a database named by its identifier.  The chaincodes are *)
(* objects in memory, found through two static maps; which network has     *)
(* which chaincode is saved in the connection profile, as a whole, and     *)
(* survives the page, as the databases do.                                 *)
(***************************************************************************)
EXTENDS Naturals, FiniteSets

CONSTANTS
    Call,       \* the calls that clients make, each on a connection of its own
    Network,    \* the names of business networks
    MaxReloads, \* bound: how often the page is reloaded
    None

\* A start makes a chaincode of its own.
Chaincode == Call

NoneAssumption ==
    /\ Network # {} /\ None \notin Call /\ None \notin [Network -> Call \union {None}]
    /\ MaxReloads \in Nat

VARIABLES
    profile,           \* profile.networks as it is saved, None if it never was
    started,           \* the chaincodes whose database holds a started network
    businessNetworks,  \* the static map from networks to chaincodes
    chaincodes,        \* the chaincodes in memory
    call,              \* the operation, network and step of each call
    loaded,            \* the copy of profile.networks that each call has loaded
    session,           \* the chaincode of the security context of each call
    deployed,          \* the networks that are deployed (history)
    undeployed,        \* the chaincodes that an undeploy has dropped (history)
    reloads,           \* how often the page has been reloaded
    overlap            \* whether clients make calls that overlap; it never changes

vars == <<profile, started, businessNetworks, chaincodes, call, loaded,
          session, deployed, undeployed, reloads, overlap>>

NoNetworks == [n \in Network |-> None]

\* "profile.networks || {}"
Networks(networks) == IF networks = None THEN NoNetworks ELSE networks

Init ==
    /\ profile = None
    /\ started = {}
    /\ businessNetworks = NoNetworks
    /\ chaincodes = {}
    /\ call = [c \in Call |-> <<"none", CHOOSE n \in Network : TRUE, "new">>]
    /\ loaded = [c \in Call |-> None]
    /\ session = [c \in Call |-> None]
    /\ deployed = {}
    /\ undeployed = {}
    /\ reloads = 0
    /\ overlap \in BOOLEAN

At(c, op, step) == call[c][1] = op /\ call[c][3] = step
NetworkOf(c) == call[c][2]
Goto(c, step) == call' = [call EXCEPT ![c][3] = step]

Over == {"new", "done", "failed"}
MayBegin(c) ==
    /\ call[c][3] = "new"
    /\ overlap \/ \A d \in Call : call[d][3] \in Over

-----------------------------------------------------------------------------
\* start: the chaincode is put into the maps before it is initialized.
Start(c, n) ==
    /\ MayBegin(c)
    /\ businessNetworks' = [businessNetworks EXCEPT ![n] = c]
    /\ chaincodes' = chaincodes \union {c}
    /\ call' = [call EXCEPT ![c] = <<"start", n, "init">>]
    /\ UNCHANGED <<profile, started, loaded, session, deployed, undeployed, reloads>>

\* engine.init succeeds, or fails and leaves the maps as they are.
Initialized(c) ==
    /\ At(c, "start", "init")
    /\ started' = started \union {c}
    /\ Goto(c, "load")
    /\ UNCHANGED <<profile, businessNetworks, chaincodes, loaded, session,
                   deployed, undeployed, reloads>>

NotInitialized(c) ==
    /\ At(c, "start", "init")
    /\ Goto(c, "failed")
    /\ UNCHANGED <<profile, started, businessNetworks, chaincodes, loaded,
                   session, deployed, undeployed, reloads>>

\* undeploy: deleteBusinessNetwork, and then deleteChaincodeID.
Undeploy(c, n) ==
    /\ MayBegin(c)
    /\ chaincodes' = chaincodes \ {businessNetworks[n]}
    /\ undeployed' = undeployed \union ({businessNetworks[n], Networks(profile)[n]} \ {None})
    /\ businessNetworks' = [businessNetworks EXCEPT ![n] = None]
    /\ deployed' = deployed \ {n}
    /\ call' = [call EXCEPT ![c] = <<"undeploy", n, "load">>]
    /\ UNCHANGED <<profile, started, loaded, session, reloads>>

\* login, once the identity is tested: getChaincodeID.
Login(c, n) ==
    /\ MayBegin(c)
    /\ call' = [call EXCEPT ![c] = <<"login", n, "load">>]
    /\ UNCHANGED <<profile, started, businessNetworks, chaincodes, loaded,
                   session, deployed, undeployed, reloads>>

\* connectionProfileStore.load; the copy is the call's own.
Load(c) ==
    /\ call[c][3] = "load"
    /\ loaded' = [loaded EXCEPT ![c] = profile]
    /\ Goto(c, IF call[c][1] = "login" THEN "loaded" ELSE "save")
    /\ UNCHANGED <<profile, started, businessNetworks, chaincodes, session,
                   deployed, undeployed, reloads>>

\* Mutant: only the network's own entry is saved.
SavedAlone(c) ==
    [NoNetworks EXCEPT ![NetworkOf(c)] = IF call[c][1] = "start" THEN c ELSE None]

\* setChaincodeID and deleteChaincodeID change the copy ...
Saved(c) ==
    [Networks(loaded[c]) EXCEPT ![NetworkOf(c)] = IF call[c][1] = "start" THEN c ELSE None]

\* ... and connectionProfileStore.save replaces what is there.
Save(c) ==
    /\ call[c][3] = "save"
    /\ call[c][1] = "undeploy" => loaded[c] # None
    /\ profile' = Saved(c)
    /\ deployed' = IF call[c][1] = "start" THEN deployed \union {NetworkOf(c)}
                   ELSE deployed \ {NetworkOf(c)}
    /\ Goto(c, "done")
    /\ UNCHANGED <<started, businessNetworks, chaincodes, loaded, session,
                   undeployed, reloads>>

\* deleteChaincodeID does not expect a profile without networks, and throws.
SaveFails(c) ==
    /\ At(c, "undeploy", "save")
    /\ loaded[c] = None
    /\ Goto(c, "failed")
    /\ UNCHANGED <<profile, started, businessNetworks, chaincodes, loaded,
                   session, deployed, undeployed, reloads>>

\* The rest of login: the chaincode is made anew unless the network has one.
LoggedIn(c) ==
    LET n == NetworkOf(c)
        id == Networks(loaded[c])[n]
    IN  /\ At(c, "login", "loaded")
        /\ id # None
        /\ IF businessNetworks[n] = None
           THEN /\ businessNetworks' = [businessNetworks EXCEPT ![n] = id]
                /\ chaincodes' = chaincodes \union {id}
           ELSE UNCHANGED <<businessNetworks, chaincodes>>
        /\ session' = [session EXCEPT ![c] = id]
        /\ Goto(c, "done")
        /\ UNCHANGED <<profile, started, loaded, deployed, undeployed, reloads>>

NoSuchNetwork(c) ==
    /\ At(c, "login", "loaded")
    /\ Networks(loaded[c])[NetworkOf(c)] = None
    /\ Goto(c, "failed")
    /\ UNCHANGED <<profile, started, businessNetworks, chaincodes, loaded,
                   session, deployed, undeployed, reloads>>

\* The page is reloaded: memory, sessions and calls in progress are gone.
Reload ==
    /\ reloads < MaxReloads
    /\ reloads' = reloads + 1
    /\ businessNetworks' = NoNetworks
    /\ chaincodes' = {}
    /\ session' = [c \in Call |-> None]
    /\ call' = [c \in Call |-> IF call[c][3] \in Over THEN call[c]
                               ELSE <<call[c][1], call[c][2], "failed">>]
    /\ UNCHANGED <<profile, started, loaded, deployed, undeployed>>

Next ==
    /\ \/ \E c \in Call, n \in Network : Start(c, n) \/ Undeploy(c, n) \/ Login(c, n)
       \/ \E c \in Call : \/ Initialized(c)
                          \/ NotInitialized(c)
                          \/ Load(c)
                          \/ Save(c)
                          \/ SaveFails(c)
                          \/ LoggedIn(c)
                          \/ NoSuchNetwork(c)
       \/ Reload
    /\ UNCHANGED overlap

Spec == Init /\ [][Next]_vars

-----------------------------------------------------------------------------
\* The types of the variables.
TypeOK ==
    /\ profile \in [Network -> Chaincode \union {None}] \union {None}
    /\ started \subseteq Chaincode
    /\ businessNetworks \in [Network -> Chaincode \union {None}]
    /\ chaincodes \subseteq Chaincode
    /\ loaded \in [Call -> [Network -> Chaincode \union {None}] \union {None}]
    /\ session \in [Call -> Chaincode \union {None}]
    /\ deployed \subseteq Network
    /\ undeployed \subseteq Chaincode
    /\ reloads \in 0 .. MaxReloads

\* A client that logs in gets a network that was started to the end, though
\* start publishes the chaincode in the maps before it is initialized.
SessionStarted == \A c \in Call : session[c] # None => session[c] \in started

\* The chaincode of a security context is there for its requests until the
\* network is undeployed (webconnection.js test: "should create a new runtime
\* and return a new security context", and getChaincode(...).should.exist).
SessionServed ==
    \A c \in Call : session[c] # None => session[c] \in chaincodes \union undeployed

\* "List all of the deployed business networks": a network that was started
\* and not undeployed is in the profile.
DeployedListed == \A n \in deployed : Networks(profile)[n] # None

\* In the browser a session is on a network that has been started to the end; without
\* overlap what is deployed is listed, and until a reload every session is served.
WebSound ==
    /\ TypeOK /\ SessionStarted
    /\ ~overlap => DeployedListed
    /\ reloads = 0 => SessionServed
=============================================================================
