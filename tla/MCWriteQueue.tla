---------------------------- MODULE MCWriteQueue ----------------------------
\* Small instances of WriteQueue.
EXTENDS WriteQueue
=============================================================================
