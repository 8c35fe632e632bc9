SPECIFICATION PartsSpec
CONSTANTS
    Parts = {"issue", "bootstrap", "registries", "contexts", "access", "resolver",
             "models", "changed models"}
    c1 = c1
    c2 = c2
    c3 = c3
    r1 = r1
    r2 = r2
    alice = alice
    bob = bob
    p = p
    q = q
    d1 = d1
    d2 = d2
    m1 = m1
    m2 = m2
    a = a
    b = b
    x = x
    v1 = v1
    v2 = v2
    bad = bad
    all = all
    any = any
    ann = ann
    buy = buy
    sell = sell
    sys = sys
    None = None
    Call <- Calls
    Name <- Names
    Participant <- Participants
    Reuse = FALSE
    StartRequest <- StartRequests
    StartDoc <- StartDocs
    MaxTx = 2
    MaxEvents = 2
    MaxWrites = 6
    Type <- Types
    Model <- Models
    Class <- Classes
    Custom <- Added
    TypeOf <- TypesOf
    Historian <- HistorianRegistry
    Doc <- Docs
    Tx <- Txs
    Request <- Calls
    Network <- Versions
    Broken <- BrokenVersions
    First = v1
    CacheSize = 1
    Validated = TRUE
    Asset <- Assets
    Registry = all
    Whatever = any
    Caller <- Callers
    Transaction <- Transactions
    Networks <- BothNetworks
    Resource <- Assets
    Root = buy
    MaxSent = 3
    MaxLinks = 2
    System = sys
    Field <- Fields
    AddedNamespace <- AddedNamespaces
    ChangedNamespace <- ChangedNamespaces
SYMMETRY Symmetric
INVARIANTS
    IssuedActs
    StartedWhole
    RegistriesConsistent
    OneVersionRuns
    RulesDecide
    ResolvedWhole
    ModelsSound
PROPERTIES
    EngineSteps
CHECK_DEADLOCK FALSE
