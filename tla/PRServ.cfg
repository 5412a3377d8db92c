CONSTANTS
    Package = {p}
    Checksum = {a, b}
    MaxValue = 2
    p = p
    a = a
    b = b
    s1 = s1
    s2 = s2
    k1 = k1
    k2 = k2
    Server = {s1, s2}
    Client = {k1, k2}
    NoServer = NoServer
    NoClient = NoClient
    NoRequest = NoRequest
    Imported <- OneImport
    MayCrash = TRUE
SYMMETRY Alike
SPECIFICATION Spec
INVARIANTS
    GivenAreStored
    
    ExportSuffices
PROPERTIES
    NeverDecremented
