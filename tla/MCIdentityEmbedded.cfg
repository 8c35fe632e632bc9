SPECIFICATION Spec
CONSTANTS
    c1 = c1
    c2 = c2
    root = root
    dan = dan
    rootCert = rootCert
    danCert1 = danCert1
    danCert2 = danCert2
    p1 = p1
    p2 = p2
    Client = {c1, c2}
    Name = {root, dan}
    Cert = {rootCert, danCert1, danCert2}
    NameOf <- MCNameOf
    Participant = {p1, p2}
    Founder = rootCert
    Present = Present
    Nothing = Nothing
    Validated = FALSE
SYMMETRY Alike
PROPERTIES
    RevokedIsFinal
CHECK_DEADLOCK FALSE
