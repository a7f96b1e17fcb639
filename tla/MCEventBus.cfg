CONSTANTS
    Listeners = {js, ws}
    MaxPosts = 2
    Js = js
    MaxCallbacks = 2
    MaxCopies = 2
    MaxThrows = 1
    Net = net
    Others = {}
    MaxSends = 5
SPECIFICATION MCSpec
CHECK_DEADLOCK FALSE
INVARIANTS
    CallbacksHearEvents
    NoLostWakeup
    NoGap
    OneWriteAtATime
    WireInOrder
PROPERTIES
    ImplementsStream
    EveryEventHandled
    StopReturns
    EveryMessageWritten
