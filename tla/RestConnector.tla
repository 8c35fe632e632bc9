---------------------------- MODULE RestConnector ----------------------------
(***************************************************************************)
(* The connections of the LoopBack connector in multiple user mode         *)
(* (businessnetworkconnector.js, businessnetworkconnectionwrapper.js): one *)
(* wrapper per user in a cache that expires, each with one connection,     *)
(* made by the first request and used by all.                              *)
(*                                                                         *)
(* The settings of the connector are one object: Object.assign writes the  *)
(* credentials of a user into it, and every wrapper keeps that object and  *)
(* reads it when it connects.                                              *)
(***************************************************************************)
EXTENDS Naturals, FiniteSets

CONSTANTS
    User,
    Request,
    Failures,      \* whether connecting may fail
    WrapperBound,  \* how many wrappers are made
    None

Wrapper == 1..WrapperBound

ASSUME ConnectorAssumption ==
    /\ WrapperBound \in Nat \ {0} /\ Failures \in BOOLEAN
    /\ None \notin User \union Wrapper

VARIABLES
    settings,   \* whose credentials the settings hold
    cache,      \* the wrapper of each user
    made,       \* how many wrappers there are
    mode,       \* connected, connecting or neither, as the flags say
    pending,    \* the logins under way, by wrapper
    open,       \* the user a connection is logged in as
    closing,    \* whether it is being disconnected
    step,       \* where each request is
    user,       \* whose it is
    wrapper,    \* the wrapper it got
    servedAs    \* the user it was served as

vars == <<settings, cache, made, mode, pending, open, closing, step, user, wrapper, servedAs>>

Init ==
    /\ settings = None
    /\ cache = [u \in User |-> None]
    /\ made = 0
    /\ mode = [w \in Wrapper |-> "neither"]
    /\ pending = [w \in Wrapper |-> {}]
    /\ open = [w \in Wrapper |-> None]
    /\ closing = [w \in Wrapper |-> FALSE]
    /\ step = [r \in Request |-> "new"]
    /\ user \in [Request -> User]
    /\ wrapper = [r \in Request |-> None]
    /\ servedAs = [r \in Request |-> None]

-----------------------------------------------------------------------------
\* Mutant: a request that finds a wrapper connecting connects again.
EnsureConnectedAgain(r, w) ==
    /\ step' = [step EXCEPT ![r] = IF mode[w] = "connected" THEN "using" ELSE "waiting"]
    /\ IF mode[w] = "connected" THEN UNCHANGED <<mode, pending>>
       ELSE /\ mode' = [mode EXCEPT ![w] = "connecting"]
            /\ pending' = [pending EXCEPT ![w] = @ \union {[by |-> r, as |-> settings']}]

\* Connected: the connection.  Connecting: the promise.  Neither: connect, with what
\* the settings hold by now.
EnsureConnected(r, w) ==
    /\ step' = [step EXCEPT ![r] = IF mode[w] = "connected" THEN "using" ELSE "waiting"]
    /\ IF mode[w] # "neither" THEN UNCHANGED <<mode, pending>>
       ELSE /\ mode' = [mode EXCEPT ![w] = "connecting"]
            /\ pending' = [pending EXCEPT ![w] = @ \union {[by |-> r, as |-> settings']}]

\* getConnectionWrapper and ensureConnected, in one turn.
Arrive(r) ==
    /\ step[r] = "new"
    /\ LET w == IF cache[user[r]] # None THEN cache[user[r]] ELSE made + 1
       IN /\ w \in Wrapper
          /\ IF cache[user[r]] # None THEN UNCHANGED <<settings, cache, made>>
             ELSE /\ made' = w
                  /\ settings' = user[r]
                  /\ cache' = [cache EXCEPT ![user[r]] = w]
          /\ wrapper' = [wrapper EXCEPT ![r] = w]
          /\ EnsureConnected(r, w)
    /\ UNCHANGED <<open, closing, user, servedAs>>

Wake(w, s) == step' = [r \in Request |-> IF wrapper[r] = w /\ step[r] = "waiting" THEN s ELSE step[r]]

\* Mutant: the requests that wait for the promise are forgotten.
ConnectDoneAlone(w, l) ==
    /\ l \in pending[w]
    /\ pending' = [pending EXCEPT ![w] = @ \ {l}]
    /\ open' = [open EXCEPT ![w] = l.as]
    /\ mode' = [mode EXCEPT ![w] = "connected"]
    /\ step' = [step EXCEPT ![l.by] = "using"]
    /\ UNCHANGED <<settings, cache, made, closing, user, wrapper, servedAs>>

\* The flags are set whatever has happened to the wrapper.
ConnectDone(w, l) ==
    /\ l \in pending[w]
    /\ pending' = [pending EXCEPT ![w] = @ \ {l}]
    /\ open' = [open EXCEPT ![w] = l.as]
    /\ mode' = [mode EXCEPT ![w] = "connected"]
    /\ Wake(w, "using")
    /\ UNCHANGED <<settings, cache, made, closing, user, wrapper, servedAs>>

ConnectFails(w, l) ==
    /\ Failures /\ l \in pending[w]
    /\ pending' = [pending EXCEPT ![w] = @ \ {l}]
    /\ mode' = [mode EXCEPT ![w] = "neither"]
    /\ Wake(w, "failed")
    /\ UNCHANGED <<settings, cache, made, open, closing, user, wrapper, servedAs>>

\* The calls of a request reach the connection its wrapper has by then.
Serve(r) ==
    /\ step[r] = "using"
    /\ step' = [step EXCEPT ![r] = IF open[wrapper[r]] # None THEN "served" ELSE "failed"]
    /\ servedAs' = [servedAs EXCEPT ![r] = open[wrapper[r]]]
    /\ UNCHANGED <<settings, cache, made, mode, pending, open, closing, user, wrapper>>

\* The entry of a user expires, and its wrapper disconnects: at once when it has no
\* connection yet.
Expire(u) ==
    /\ cache[u] # None
    /\ cache' = [cache EXCEPT ![u] = None]
    /\ IF open[cache[u]] = None
       THEN mode' = [mode EXCEPT ![cache[u]] = "neither"] /\ UNCHANGED closing
       ELSE closing' = [closing EXCEPT ![cache[u]] = TRUE] /\ UNCHANGED mode
    /\ UNCHANGED <<settings, made, pending, open, step, user, wrapper, servedAs>>

Disconnected(w) ==
    /\ closing[w]
    /\ closing' = [closing EXCEPT ![w] = FALSE]
    /\ open' = [open EXCEPT ![w] = None]
    /\ mode' = [mode EXCEPT ![w] = "neither"]
    /\ UNCHANGED <<settings, cache, made, pending, step, user, wrapper, servedAs>>

Next ==
    \/ \E r \in Request : Arrive(r) \/ Serve(r)
    \/ \E w \in Wrapper : \/ Disconnected(w)
                          \/ \E l \in pending[w] : ConnectDone(w, l) \/ ConnectFails(w, l)
    \/ \E u \in User : Expire(u)

Spec == Init /\ [][Next]_vars

\* Requests that have come are carried on, and the connector answers every connect.
Fairness ==
    /\ \A r \in Request : WF_vars(Serve(r))
    /\ \A w \in Wrapper : WF_vars(\E l \in pending[w] : ConnectDone(w, l) \/ ConnectFails(w, l))

FairSpec == Spec /\ Fairness

-----------------------------------------------------------------------------
\* The types of the variables: the flags of a wrapper agree with its connection.
TypeOK ==
    /\ made \in 0..WrapperBound
    /\ \A w \in Wrapper : mode[w] = "connected" <=> open[w] # None
    /\ \A r \in Request : step[r] = "new" <=> wrapper[r] = None

\* However many requests come at once, a wrapper connects once.
OneLogin == \A w \in Wrapper : Cardinality(pending[w]) + (IF open[w] # None THEN 1 ELSE 0) <= 1

\* "When a client makes a request to the REST server, a Blockchain identity in the
\* clients wallet is used to digitally sign all transactions made by that client."
ActsAsUser == \A r \in Request : step[r] = "served" => servedAs[r] = user[r]

\* "Create the cache, which will automatically close connections after 5 minutes":
\* a connection is closed, or will be when its entry expires.
WillClose == \A w \in Wrapper : open[w] # None => closing[w] \/ \E u \in User : cache[u] = w

\* Every request that came ends, also one that waits for the connect of another.
Ends == \A r \in Request : step[r] \in {"waiting", "using"} ~> step[r] \in {"served", "failed"}

=============================================================================
