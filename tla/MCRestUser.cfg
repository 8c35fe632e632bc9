SPECIFICATION PartsSpec
CONSTANTS
    Parts = {"rest"}
    alice = alice
    bob = bob
    admin = admin
    r1 = r1
    r2 = r2
    r3 = r3
    c1 = c1
    c2 = c2
    c3 = c3
    None = None
    User <- Users
    Request <- Requests
    Failures = TRUE
    WrapperBound = 3
    Conn <- Conns
    MaxCalls = 2
    MaxDrops = 1
    Call <- Calls
    Name <- Names
    Admin = admin
INVARIANT
    ActsAsUser
CHECK_DEADLOCK FALSE
