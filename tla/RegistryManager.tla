--------------------------- MODULE RegistryManager ---------------------------
(***************************************************************************)
(* The registries of a business network: registrymanager.js, the start,    *)
(* update and reset of networkmanager.js and engine.js, and the            *)
(* collections of the data services.                                       *)
(*                                                                         *)
(* A registry is kept in three places: its entry in $sysregistries, the    *)
(* collection of its documents and, unless it is a system registry, a      *)
(* resource among the documents of the system registry of its type.        *)
(*                                                                         *)
(* A request is one action: one transaction of the data service, in which  *)
(* reads go to the committed documents and writes take effect at the end,  *)
(* the last one of a key winning.  An error leaves nothing behind.         *)
(***************************************************************************)
EXTENDS Naturals, FiniteSets, FiniteSetsExt

CONSTANTS
    Type,        \* the types of registries: assets, participants, transactions
    Model,       \* the versions of the business network definition
    Class,       \* Class[m]: the registries of the classes that m declares
    Custom,      \* the registries that clients add themselves
    TypeOf,      \* TypeOf[r]: the type of a registry that is not a system one
    Historian,   \* the system registry of the historian
    Doc,         \* the documents of registries that are not system ones
    Tx,          \* the transactions that clients submit
    None

NetworkRegistry == Custom \union UNION {Class[m] : m \in Model}

\* The system registry that holds the registry resources of a type.
RegistryOf(type) == <<"Asset", type>>
SystemRegistry == {RegistryOf(type) : type \in Type} \union {Historian}
Registered == NetworkRegistry \union SystemRegistry

RegistryAssumption ==
    /\ \A r \in NetworkRegistry : TypeOf[r] \in Type
    /\ NetworkRegistry \intersect SystemRegistry = {}
    /\ \A type \in Type : Historian # RegistryOf(type)
    /\ IsFiniteSet(Type) /\ IsFiniteSet(NetworkRegistry) /\ IsFiniteSet(Doc)
    /\ None \notin Model

Entry(r) == <<"entry", r>>
Collection(r) == <<"collection", r>>
Document(r, d) == <<"document", r, d>>

DocumentsOf(r) ==
    IF r = Historian THEN Tx
    ELSE IF r \in SystemRegistry
         THEN {q \in NetworkRegistry : RegistryOf(TypeOf[q]) = r}
         ELSE Doc

Key == {Entry(r) : r \in Registered} \union {Collection(r) : r \in Registered}
       \union UNION {{Document(r, d) : d \in DocumentsOf(r)} : r \in Registered}

VARIABLES
    db,      \* the keys that the committed state has
    model,   \* the business network in $sysdata, or None
    done,    \* the transactions that have been executed
    last     \* the last request: its kind and what it could not read (history)

vars == <<db, model, done, last>>

Init == db = {} /\ model = None /\ done = {} /\ last = <<"none", {}>>

-----------------------------------------------------------------------------
\* A request in progress: ok until an error is thrown; writes, what it puts
\* (TRUE) or removes (FALSE); cache, sysregistryCache; hidden, the registries
\* that the access rules do not let the participant read.
RequestOf(hidden) ==
    [ok |-> TRUE, writes |-> <<>>, cache |-> {}, hidden |-> hidden]

Require(st, condition) == [st EXCEPT !.ok = @ /\ condition]
Written(st, key, value) ==
    [st EXCEPT !.writes = [k \in DOMAIN @ \union {key} |-> IF k = key THEN value ELSE @[k]]]
Put(st, key) == Written(st, key, TRUE)
Delete(st, key) == Written(st, key, FALSE)
Cached(st, r) == [st EXCEPT !.cache = @ \union {r}]

\* What the committed state becomes.
Applied(st) ==
    LET put == {k \in DOMAIN st.writes : st.writes[k]}
    IN  (db \ DOMAIN st.writes) \union put

ForEach(Op(_, _), st, S) == FoldSet(LAMBDA r, acc : Op(acc, r), st, S)

CanGet(st, r) ==
    r \in st.cache \/ (Entry(r) \in db /\ Collection(r) \in db /\ r \notin st.hidden)

\* RegistryManager.get
GetRegistry(st, r) == Require(st, CanGet(st, r))

\* DataCollection.add and DataService.createCollection
AddKey(st, key, force) == Put(Require(st, force \/ key \notin db), key)

\* The resource of a registry goes to the registry of its type; one that is
\* not in the cache is looked up, and never forced to take it.
AddResource(st, r, force) ==
    LET srid == RegistryOf(TypeOf[r])
        key == Document(srid, r)
    IN  IF srid \in st.cache THEN AddKey(st, key, force)
        ELSE AddKey(GetRegistry(st, srid), key, FALSE)

\* RegistryManager.add
AddRegistry(st, r, force) ==
    LET listed == AddKey(st, Entry(r), force)
        held == IF r \in SystemRegistry THEN listed
                ELSE AddResource(listed, r, force)
    IN  AddKey(held, Collection(r), force)

\* RegistryManager.ensure
EnsureRegistry(st, r) ==
    IF CanGet(st, r) THEN st ELSE AddRegistry(st, r, FALSE)

DefaultRegistry(st, r, force) ==
    Cached(IF force THEN AddRegistry(st, r, TRUE) ELSE EnsureRegistry(st, r), r)

\* RegistryManager.createDefaults: createSystemDefaults, createNetworkDefaults
CreateDefaults(st, m, force) ==
    ForEach(LAMBDA s, r : DefaultRegistry(s, r, force),
            ForEach(LAMBDA s, r : DefaultRegistry(s, r, force), st, SystemRegistry),
            Class[m])

\* RegistryManager.clear, DataService.deleteCollection
ClearRegistry(st, r) ==
    ForEach(LAMBDA s, d : Delete(s, Document(r, d)),
            Delete(Require(st, Collection(r) \in db), Collection(r)),
            {d \in DocumentsOf(r) : Document(r, d) \in db})

\* RegistryManager.remove
RemoveRegistry(st, r) ==
    LET srid == RegistryOf(TypeOf[r])
        key == Document(srid, r)
        held == Delete(Require(GetRegistry(ClearRegistry(st, r), srid), key \in db), key)
    IN  Delete(Require(held, Entry(r) \in db), Entry(r))

\* Mutant: system registries are emptied as well.
ResetSystemToo(st, type) ==
    ForEach(ClearRegistry, st, {Historian} \union
            {r \in NetworkRegistry : TypeOf[r] = type /\ Entry(r) \in db})

\* NetworkManager._resetRegistries: registryManager.getAll(type) leaves out the
\* registries that cannot be got.
ResetRegistries(st, type) ==
    ForEach(RemoveRegistry, st,
            {r \in NetworkRegistry : /\ TypeOf[r] = type
                                     /\ Entry(r) \in db
                                     /\ CanGet(st, r)})

\* The end of submitTransaction: the historian takes a record of t.
RecordTransaction(st, t) ==
    AddKey(GetRegistry(st, Historian), Document(Historian, t), FALSE)

-----------------------------------------------------------------------------
Commit(st) == st.ok /\ db' = Applied(st)

\* Engine.init: nothing restricts the request, and the registries are cached
\* when the start transaction is recorded.
Start(m, t) ==
    /\ model = None
    /\ t \notin done
    /\ Commit(RecordTransaction(CreateDefaults(RequestOf({}), m, FALSE), t))
    /\ model' = m
    /\ done' = done \union {t}
    /\ last' = <<"start", {}>>

\* updateBusinessNetwork: the context is reinitialized, so createDefaults works
\* on a new registry manager and the record is made with the old one's cache.
Update(m, t, hidden) ==
    /\ model # None
    /\ t \notin done
    /\ LET st == CreateDefaults(RequestOf(hidden), m, FALSE)
       IN  Commit(RecordTransaction([st EXCEPT !.cache = {}], t))
    /\ model' = m
    /\ done' = done \union {t}
    /\ last' = <<"update", hidden>>

\* resetBusinessNetwork
Reset(t, hidden) ==
    /\ model # None
    /\ t \notin done
    /\ Commit(RecordTransaction(CreateDefaults(
                ForEach(ResetRegistries, RequestOf(hidden), Type), model, TRUE), t))
    /\ done' = done \union {t}
    /\ UNCHANGED model
    /\ last' = <<"reset", hidden>>

\* EngineRegistries.addRegistry: a request that the historian does not record.
AddCustom(r, hidden) ==
    /\ model # None
    /\ Commit(AddRegistry(RequestOf(hidden), r, FALSE))
    /\ UNCHANGED <<model, done>>
    /\ last' = <<"add registry", hidden>>

\* A client adds a document to a registry, or removes one.
AddDocument(r, d, hidden) ==
    /\ model # None
    /\ Commit(AddKey(GetRegistry(RequestOf(hidden), r), Document(r, d), FALSE))
    /\ UNCHANGED <<model, done>>
    /\ last' = <<"add", hidden>>

RemoveDocument(r, d, hidden) ==
    /\ model # None
    /\ Document(r, d) \in db
    /\ Commit(Delete(GetRegistry(RequestOf(hidden), r), Document(r, d)))
    /\ UNCHANGED <<model, done>>
    /\ last' = <<"remove", hidden>>

\* A participant that may read everything, or all but one registry.
Hidden == {{}} \union {{r} : r \in NetworkRegistry}

Next ==
    \/ \E m \in Model, t \in Tx : Start(m, t)
    \/ \E m \in Model, t \in Tx, h \in Hidden : Update(m, t, h)
    \/ \E t \in Tx, h \in Hidden : Reset(t, h)
    \/ \E r \in Custom, h \in Hidden : AddCustom(r, h)
    \/ \E r \in NetworkRegistry, d \in Doc, h \in Hidden : AddDocument(r, d, h)
    \/ \E r \in NetworkRegistry, d \in Doc, h \in Hidden : RemoveDocument(r, d, h)

Spec == Init /\ [][Next]_vars

-----------------------------------------------------------------------------
DataOf(r) == {d \in DocumentsOf(r) : Document(r, d) \in db}

\* The types of the variables.
TypeOK ==
    /\ db \subseteq Key
    /\ model \in Model \union {None}
    /\ done \subseteq Tx
    /\ last[2] \in Hidden

\* The three places agree on which registries there are, after any sequence of
\* starts, updates and resets: no registry that clients see but cannot open, no
\* collection that no registry leads to.
RegistriesAgree ==
    \A r \in Registered :
       /\ Entry(r) \in db <=> Collection(r) \in db
       /\ r \in NetworkRegistry =>
            (Entry(r) \in db <=> Document(RegistryOf(TypeOf[r]), r) \in db)

\* No document is outside of a registry, where no reset would find it.
NoOrphans ==
    \A r \in Registered : DataOf(r) # {} => Collection(r) \in db

\* A running network has a registry for every class of the model it runs, and
\* for every system type.
DefaultsThere ==
    model # None => \A r \in SystemRegistry \union Class[model] : Entry(r) \in db

\* The historian has a record of every executed transaction, the resets and the
\* updates among them; nothing takes one away.
HistorianComplete == DataOf(Historian) = done

\* An update of the business network keeps all data, of the classes that the
\* new model has dropped too.
UpdateKeepsData ==
    [][done' # done /\ last'[1] = "update" => db \subseteq db']_vars

\* A reset empties the registries of the participant's choice: exactly those it
\* can read; what it cannot read it does not touch.
ResetEmptiesReadable ==
    [][done' # done /\ last'[1] = "reset" =>
         \A r \in NetworkRegistry :
            DataOf(r)' = IF r \in last'[2] THEN DataOf(r) ELSE {}]_vars

\* The claim of AdminConnection.reset, that it "will remove ALL the contents of
\* the network registries, but not any system registries".
ResetEmptiesAll ==
    [][done' # done /\ last'[1] = "reset"
         => \A r \in NetworkRegistry : DataOf(r)' = {}]_vars

=============================================================================
