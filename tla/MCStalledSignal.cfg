CONSTANTS
    Net = net
    Others = {http}
    MaxSends = 2
SPECIFICATION FairWriteSpec
CHECK_DEADLOCK FALSE
PROPERTIES
    EveryMessageWritten
