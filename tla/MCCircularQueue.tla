--------------------------- MODULE MCCircularQueue --------------------------
EXTENDS CircularQueueProps, TLC
MCVals == {"a", "b"}
=============================================================================
