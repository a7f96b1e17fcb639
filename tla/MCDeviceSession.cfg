CONSTANTS
    Conns = {c1, c2}
    DeviceIds = {d1, d2}
    Virtual = {d2}
    PortIds = {1, 2}
    PortsOf <- MCPortsOf
    Values = {0, 1}
    StateObjs = {s1, s2, s3}
    HttpThreads = {w1}
    Setters = {w1}
    NULL = NULL
SPECIFICATION Spec
SYMMETRY MCSymmetry
CHECK_DEADLOCK FALSE
INVARIANTS
    TypeOK
    RegistryCoherent
    NoDangling
    SessionOwnsState
    ConnectedIsRegistered
    OneFarewell
PROPERTIES
    OrphansStayOrphans
    SessionsAreContained
