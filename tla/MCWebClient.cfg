CONSTANTS
    Sockets = {a, b}
    NoSocket = none
    Devices = {d1}
    MaxEvents = 2
    MaxPuts = 1
SPECIFICATION Spec
INVARIANTS
    NeverStranded
    StaleIsAccountedFor
PROPERTIES
    ClosedIsFinal
    OpenSurvivesTimers
    Persistence
