SPECIFICATION FairSpec
CONSTANTS
  Checks = {c1, c2}
  Wakes = {w1}
  Feeds = {1, 2, 3, 4, 5, 6}
  MaxFaults = 2
  MaxLogouts = 1
  None = None
INVARIANT TypeOK
PROPERTIES Heard CallsEnd
CHECK_DEADLOCK FALSE
