----------------------------- MODULE MCShutdown -----------------------------
\* A small instance of Shutdown: two HTTP threads and the JavaScript engine.
EXTENDS Shutdown

MCPortBodies == {[id |-> 1, name |-> "d"]}
MCDeviceBodies == {[label |-> "l2", ports |-> <<[id |-> 0, name |-> "b"]>>]}
MCFirstRow == [label |-> "l1",
               ports |-> <<[id |-> 0, name |-> "a"], [id |-> 1, name |-> "c"]>>]
=============================================================================
