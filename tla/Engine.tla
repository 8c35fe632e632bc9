------------------------------- MODULE Engine -------------------------------
(***************************************************************************)
(* The engine of a business network and what it is built from: the start   *)
(* with its bootstrap transactions (Bootstrap), the registries             *)
(* (RegistryManager), the contexts of requests and their caches            *)
(* (RequestContext), the access controller, the resolver and the models,   *)
(* and the issue of identities, a call of the client that ends in the      *)
(* engine (IssueIdentity).  They share no state, so a behaviour is one of  *)
(* the part that is chosen at the start and the others stay as they are:   *)
(* the states are those of one part after the other.                       *)
(***************************************************************************)
EXTENDS IssueIdentity

CONSTANTS
    Parts,                                                     \* the parts that are explored
    StartRequest, StartDoc, MaxTx, MaxEvents, MaxWrites,       \* Bootstrap
    Type, Model, Class, Custom, TypeOf, Historian, Doc, Tx,    \* RegistryManager
    Request, Network, Broken, First, CacheSize, Validated,     \* RequestContext
    Asset, Registry, Whatever, Caller, Transaction, Networks,  \* AccessController
    Resource, Root, MaxSent, MaxLinks,                         \* Resolver
    System, Field, AddedNamespace, ChangedNamespace            \* ModelManager

VARIABLES
    part,  \* the part of this behaviour
    documents, stage, current, count, index, buffer, eventBuffer, eventNumber, published,
    keys, model, done, lastRequest,
    record, recordVersion, cache, pc, ctx, read, pending,
    network, stored, flagged, caller, within, stack, result,
    ledger, sent, copied, object, frames,
    files, last

bootVars ==
    <<documents, stage, current, count, index, buffer, eventBuffer, eventNumber, published>>
registryVars == <<keys, model, done, lastRequest>>
contextVars == <<record, recordVersion, cache, pc, ctx, read, pending>>
accessVars == <<network, stored, flagged, caller, within, stack, result>>
resolverVars == <<ledger, sent, copied, object, frames>>
modelVars == <<files, last>>
everything == <<part, vars, bootVars, registryVars, contextVars, accessVars, resolverVars,
                modelVars>>

-----------------------------------------------------------------------------
Boot == INSTANCE Bootstrap WITH
    Request <- StartRequest, Doc <- StartDoc, db <- documents, phase <- stage
Registries == INSTANCE RegistryManager WITH db <- keys, last <- lastRequest
Contexts == INSTANCE RequestContext WITH version <- recordVersion
Access == INSTANCE AccessController WITH Participant <- Caller
Resolution == INSTANCE Resolver WITH stack <- frames

\* Files that are added, and files that are replaced and removed as well.
Adding == INSTANCE ModelManager WITH
    Namespace <- AddedNamespace, Kinds <- {"add", "addAll"}
Changing == INSTANCE ModelManager WITH
    Namespace <- ChangedNamespace, Kinds <- {"add", "addAll", "update", "delete"}

ASSUME EngineAssumption ==
    /\ Boot!NoneAssumption /\ Registries!RegistryAssumption
    /\ Contexts!NetworkAssumption /\ Contexts!CacheSizeAssumption
    /\ Access!AccessAssumption /\ Resolution!ResolverAssumption
    /\ Adding!ManagerAssumption /\ Changing!ManagerAssumption

-----------------------------------------------------------------------------
PartsInit ==
    /\ part \in Parts
    /\ Init
    /\ part # "issue" => /\ participants = {}
                         /\ op = [c \in Call |-> CHOOSE o \in [name : Name, participant : Participant] : TRUE]
    /\ Boot!Init /\ Registries!Init /\ Contexts!Init
    /\ IF part = "access" THEN Access!Init
       ELSE /\ network = None /\ stored = {} /\ flagged = {} /\ caller = None
            /\ within = None /\ stack = <<>> /\ result = None
    /\ IF part = "resolver" THEN Resolution!Init
       ELSE /\ ledger = None /\ sent = <<>> /\ copied = <<>> /\ object = None
            /\ frames = <<>>
    /\ IF part = "changed models" THEN Changing!Init ELSE Adding!Init

PartsNext ==
    \/ /\ part = "issue" /\ Next
       /\ UNCHANGED <<part, bootVars, registryVars, contextVars, accessVars,
                       resolverVars, modelVars>>
    \/ /\ part = "bootstrap" /\ Boot!Next
       /\ UNCHANGED <<part, vars, registryVars, contextVars, accessVars,
                       resolverVars, modelVars>>
    \/ /\ part = "registries" /\ Registries!Next
       /\ UNCHANGED <<part, vars, bootVars, contextVars, accessVars, resolverVars,
                       modelVars>>
    \/ /\ part = "contexts" /\ Contexts!Next
       /\ UNCHANGED <<part, vars, bootVars, registryVars, accessVars,
                       resolverVars, modelVars>>
    \/ /\ part = "access" /\ Access!Next
       /\ UNCHANGED <<part, vars, bootVars, registryVars, contextVars,
                       resolverVars, modelVars>>
    \/ /\ part = "resolver" /\ Resolution!Next
       /\ UNCHANGED <<part, vars, bootVars, registryVars, contextVars, accessVars,
                       modelVars>>
    \/ /\ part = "models" /\ Adding!Next
       /\ UNCHANGED <<part, vars, bootVars, registryVars, contextVars, accessVars,
                       resolverVars>>
    \/ /\ part = "changed models" /\ Changing!Next
       /\ UNCHANGED <<part, vars, bootVars, registryVars, contextVars, accessVars,
                       resolverVars>>

PartsSpec == PartsInit /\ [][PartsNext]_everything

-----------------------------------------------------------------------------
\* A business network is there with all transactions of the request that has
\* started it, or with nothing; the historian has them in order, and clients can
\* tell their events apart.
StartedWhole == part = "bootstrap" => Boot!StartedWhole

\* Entry, collection and resource of every registry agree, no document is outside
\* of one, the default registries are there, and the historian has every transaction,
\* through starts, updates and resets.
RegistriesConsistent ==
    part = "registries" => /\ Registries!TypeOK /\ Registries!RegistriesAgree
                           /\ Registries!NoOrphans /\ Registries!DefaultsThere
                           /\ Registries!HistorianComplete

\* A request runs one version of the business network, the one it has read, and
\* never one that does not compile.
OneVersionRuns == part = "contexts" => Contexts!OneVersionRuns

\* The access controller allows what the rules allow, and denies what they deny or
\* what leads to a resource that cannot be read; no check waits for itself.
RulesDecide == part = "access" => Access!RulesDecide

\* A resource that the engine has resolved is whole, with all that it is related to, and
\* circles of relationships end.
ResolvedWhole == part = "resolver" => Resolution!ResolvedWhole

\* All that was added resolves, and can be added at once in any order.
ModelsSound ==
    part = "models" => Adding!TypeOK /\ Adding!Available /\ Adding!OrderFree

\* What a step never does: change a network that has been started by starting it again,
\* lose data in an update, empty a registry in a reset that the participant cannot read
\* or keep one that it can, bring back an undeployed network; add files of which some do
\* not resolve, or change anything in a call that throws.
EngineSteps ==
    /\ Boot!StartedOnce
    /\ Registries!UpdateKeepsData /\ Registries!ResetEmptiesReadable
    /\ Contexts!UndeployedFinal
    /\ [][part = "changed models" /\ last'.call = "addAll" /\ last'.result = "done"
             => Changing!AllValid(files')]_<<part, modelVars>>
    /\ Changing!AllOrNothing
=============================================================================
