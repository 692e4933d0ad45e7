SPECIFICATION FairSpec
CONSTANTS
  Topics = {b, a1, a2}
  Sockets = {1, 2, 3, 4}
  Capacity = 1
  MaxFaults = 2
  None = None
INVARIANTS TypeOK OneAsks Remembered
PROPERTIES Settled Restored
CHECK_DEADLOCK FALSE
