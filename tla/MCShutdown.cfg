CONSTANTS
    Listeners = {js}
    MaxPosts = 2
    HttpThreads = {h1, h2}
    NoRequest = none
    Labels = {"", "l1", "l2"}
    Empty = ""
    PortBodies <- MCPortBodies
    DeviceBodies <- MCDeviceBodies
    FirstRow <- MCFirstRow
    MaxRows = 2
    MaxRequests = 2
SPECIFICATION ServerSpec
CHECK_DEADLOCK FALSE
PROPERTIES
    SavesKeepTheirWord
    
