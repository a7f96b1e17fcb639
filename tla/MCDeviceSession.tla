--------------------------- MODULE MCDeviceSession ---------------------------
\* A small instance of DeviceSession.
EXTENDS DeviceSession, TLC
\* Port 2 is in no specification.
MCPortsOf == [d \in DeviceIds |-> {1}]
MCSymmetry == Permutations(Conns) \cup Permutations(StateObjs) \cup Permutations(Setters)
=============================================================================
