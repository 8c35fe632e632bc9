SPECIFICATION PartsSpec
CONSTANTS
    Parts = {"resources", "overlapping resources", "client", "cards", "web", "deployment"}
    c1 = c1
    c2 = c2
    c3 = c3
    c4 = c4
    n1 = n1
    n2 = n2
    r1 = r1
    r2 = r2
    r3 = r3
    i1 = i1
    p = p
    q = q
    v = v
    w = w
    a = a
    b = b
    c = c
    d = d
    e1 = e1
    e2 = e2
    None = None
    Request <- Requests
    Id <- Ids
    Attr <- Attrs
    Value <- Values
    Ops <- AllOps
    Serial = TRUE
    ClientCall <- ClientCalls
    Network <- Names
    Disciplined = TRUE
    MaxEvents = 1
    Call <- Calls
    Name <- Names
    Card <- CardSet
    Uses <- CardUses
    MaxReloads = 1
    Admin <- Calls
    Peer <- Peers
    Before = {}
    AdminCall <- AdminCalls
SYMMETRY Symmetric
INVARIANTS
    ClientSound
    CardsSound
    WebSound
    
PROPERTIES
    Atomic
    
CHECK_DEADLOCK FALSE
