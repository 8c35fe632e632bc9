--------------------------- MODULE RequestContext ---------------------------
(***************************************************************************)
(* The context of a request and what it finds there: the business network  *)
(* record of $sysdata, the business network definition and the three       *)
(* bundles that are compiled from it (context.js), while other requests    *)
(* update or undeploy the network (networkmanager.js,                      *)
(* engine.businessnetworks.js).                                            *)
(*                                                                         *)
(* Definitions and bundles are kept in four least-recently-used caches     *)
(* that all contexts of a process share, by the hash of the archive; here  *)
(* a network stands for its archive and for the hash of it.  An            *)
(* invocation is simulated and later committed; Validated says that the    *)
(* commit is refused when what it has read is out of date, as it is on     *)
(* Fabric and is not on PouchDB.                                           *)
(***************************************************************************)
EXTENDS Naturals, Sequences

CONSTANTS
    Request,    \* the requests that clients make
    Network,    \* the versions of the business network
    Broken,     \* those with a script, query or rule that does not compile
    First,      \* the version the network is started with
    CacheSize,  \* the size of each cache
    Validated,  \* whether a commit validates what was read
    None

NetworkAssumption == First \in Network \ Broken /\ None \notin Network
CacheSizeAssumption == CacheSize \in Nat \ {0}

\* The order in which Context.initialize asks for them.
LoadOrder == <<"network", "scripts", "queries", "acls">>
Part == {"network", "scripts", "queries", "acls"}

VARIABLES
    record,   \* the committed business network record
    version,  \* the number of times it has been written
    cache,    \* the caches: hash and version it was made from, latest first
    pc,       \* where each request is
    ctx,      \* the parts that the context of each request has
    read,     \* the record and its version, as the context has loaded them
    pending   \* the record that a request writes when it commits

vars == <<record, version, cache, pc, ctx, read, pending>>

Record == [network : Network, undeployed : BOOLEAN]
NoRecord == [network |-> None, undeployed |-> FALSE]

Init ==
    /\ record = [network |-> First, undeployed |-> FALSE]
    /\ version = 0
    /\ cache = [p \in Part |-> <<>>]
    /\ pc = [r \in Request |-> "new"]
    /\ ctx = [r \in Request |-> [p \in Part |-> None]]
    /\ read = [r \in Request |-> <<NoRecord, 0>>]
    /\ pending = [r \in Request |-> NoRecord]

-----------------------------------------------------------------------------
\* The LRU caches, with one entry for a hash: get and set both make it the latest.
Has(c, hash) == \E i \in 1 .. Len(c) : c[i][1] = hash
Entry(c, hash) == CHOOSE i \in 1 .. Len(c) : c[i][1] = hash
Lookup(c, hash) == c[Entry(c, hash)][2]
Without(c, hash) ==
    IF Has(c, hash)
    THEN SubSeq(c, 1, Entry(c, hash) - 1) \o SubSeq(c, Entry(c, hash) + 1, Len(c))
    ELSE c
Latest(c, hash, made) ==
    LET s == <<<<hash, made>>>> \o Without(c, hash)
    IN  SubSeq(s, 1, IF Len(s) > CacheSize THEN CacheSize ELSE Len(s))

\* Context.loadBusinessNetworkRecord; the context keeps the record.
LoadRecord(r) ==
    /\ pc[r] = "new"
    /\ ~record.undeployed
    /\ read' = [read EXCEPT ![r] = <<record, version>>]
    /\ pc' = [pc EXCEPT ![r] = "network"]
    /\ UNCHANGED <<record, version, cache, ctx, pending>>

Refuse(r) ==
    /\ pc[r] = "new"
    /\ record.undeployed
    /\ pc' = [pc EXCEPT ![r] = "failed"]
    /\ UNCHANGED <<record, version, cache, ctx, read, pending>>

\* The step that comes after a part, or the request itself after the last.
After(p) ==
    LET i == CHOOSE i \in 1 .. 4 : LoadOrder[i] = p
    IN  IF i = 4 THEN "running" ELSE LoadOrder[i + 1]

\* What a part is made from: the definition from the archive of the record, a
\* bundle from the definition that the context has.
Source(r, p) == IF p = "network" THEN read[r][1].network ELSE ctx[r].network

\* loadBusinessNetworkDefinition, loadCompiledScriptBundle and so on: by the
\* hash of the record, from the cache or else made now and put there.
LoadPart(r, p) ==
    LET hash == read[r][1].network
        made == IF Has(cache[p], hash) THEN Lookup(cache[p], hash) ELSE Source(r, p)
    IN  /\ pc[r] = p
        /\ ctx' = [ctx EXCEPT ![r][p] = made]
        /\ cache' = [cache EXCEPT ![p] = Latest(@, hash, made)]
        /\ pc' = [pc EXCEPT ![r] = After(p)]
        /\ UNCHANGED <<record, version, read, pending>>

-----------------------------------------------------------------------------
\* A request that leaves the network as it is.
Run(r) ==
    /\ pc[r] = "running"
    /\ pc' = [pc EXCEPT ![r] = "done"]
    /\ UNCHANGED <<record, version, cache, ctx, read, pending>>

\* Mutant: the access rules are not among the options of the reinitialization,
\* so the context looks for them by the hash of the record it has kept.
ReinitializedWithoutAcls(r, n) ==
    [p \in Part |-> IF p # "acls" THEN n
                    ELSE IF Has(cache[p], read[r][1].network)
                         THEN Lookup(cache[p], read[r][1].network) ELSE n]

\* Context.initialize with all parts given.
Reinitialized(r, n) == [p \in Part |-> n]

\* updateBusinessNetwork: all parts are made anew and cached, the record is
\* replaced by one that is not undeployed, and the context is reinitialized.
Update(r, n) ==
    /\ pc[r] = "running"
    /\ n \notin Broken
    /\ cache' = [p \in Part |-> Latest(cache[p], n, n)]
    /\ pending' = [pending EXCEPT ![r] = [network |-> n, undeployed |-> FALSE]]
    /\ ctx' = [ctx EXCEPT ![r] = Reinitialized(r, n)]
    /\ pc' = [pc EXCEPT ![r] = "updated"]
    /\ UNCHANGED <<record, version, read>>

\* One that does not compile: the definition has been cached before.
UpdateFails(r, n) ==
    /\ pc[r] = "running"
    /\ n \in Broken
    /\ cache' = [cache EXCEPT !["network"] = Latest(@, n, n)]
    /\ pc' = [pc EXCEPT ![r] = "failed"]
    /\ UNCHANGED <<record, version, ctx, read, pending>>

\* undeployBusinessNetwork: the record is read once more and marked.
Undeploy(r) ==
    /\ pc[r] = "running"
    /\ pending' = [pending EXCEPT ![r] = [record EXCEPT !.undeployed = TRUE]]
    /\ pc' = [pc EXCEPT ![r] = "updated"]
    /\ UNCHANGED <<record, version, cache, ctx, read>>

\* Mutant: the commit does not validate what was read.
CommitAnyhow(r) ==
    /\ pc[r] = "updated"
    /\ record' = pending[r]
    /\ version' = version + 1
    /\ pc' = [pc EXCEPT ![r] = "done"]
    /\ UNCHANGED <<cache, ctx, read, pending>>

Commit(r) ==
    /\ Validated => read[r][2] = version
    /\ CommitAnyhow(r)

Reject(r) ==
    /\ pc[r] = "updated"
    /\ Validated /\ read[r][2] # version
    /\ pc' = [pc EXCEPT ![r] = "failed"]
    /\ UNCHANGED <<record, version, cache, ctx, read, pending>>

Next ==
    \E r \in Request :
       \/ LoadRecord(r)
       \/ Refuse(r)
       \/ \E p \in Part : LoadPart(r, p)
       \/ Run(r)
       \/ \E n \in Network : Update(r, n) \/ UpdateFails(r, n)
       \/ Undeploy(r)
       \/ Commit(r)
       \/ Reject(r)

Spec == Init /\ [][Next]_vars

-----------------------------------------------------------------------------
\* The types of the variables; no cache is larger than it may be.
TypeOK ==
    /\ record \in Record
    /\ version \in Nat
    /\ \A p \in Part : /\ Len(cache[p]) <= CacheSize
                       /\ \A i \in 1 .. Len(cache[p]) : cache[p][i] \in Network \X Network
    /\ pc \in [Request -> Part \union {"new", "running", "updated", "done", "failed"}]
    /\ ctx \in [Request -> [Part -> Network \union {None}]]
    /\ read \in [Request -> (Record \union {NoRecord}) \X Nat]
    /\ pending \in [Request -> Record \union {NoRecord}]

\* A request never runs a mixture: its scripts, queries and access rules are
\* those of the business network definition it uses, however the caches are
\* filled, emptied and shared while it looks for them (context.js:33).
OneVersion ==
    \A r \in Request : pc[r] \in {"running", "updated"} =>
       \A p \in Part : ctx[r][p] = ctx[r].network

\* The version a request starts to run is the one that it has read from
\* $sysdata, and it was not undeployed.
RunsWhatItRead ==
    \A r \in Request : pc[r] = "running" =>
       /\ ctx[r].network = read[r][1].network
       /\ ~read[r][1].undeployed

\* A version that does not compile is never run, and never becomes the
\* committed one.
BrokenNeverRuns ==
    /\ record.network \notin Broken
    /\ \A r \in Request : pc[r] \in {"running", "updated"} => ctx[r].network \notin Broken

\* "Once a business network has been undeployed, it cannot be redeployed": no
\* request that was on its way brings it back.
UndeployedFinal == [][record.undeployed => record'.undeployed]_vars

\* A request runs one version of the business network, the one it has read, and
\* never one that does not compile.
OneVersionRuns == TypeOK /\ OneVersion /\ RunsWhatItRead /\ BrokenNeverRuns
=============================================================================
