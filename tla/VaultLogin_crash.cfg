SPECIFICATION CalmSpec
CONSTANTS
  None = None
  Frames = {f1, f2}
  Keys = {k1, k2}
  Phrases = {p1, p2}
  Params = {a1}
  Twins = TRUE
  MaxNonce = 3
  MaxDraws = 4
INVARIANTS TypeOK Unlockable SessionReadsAll
PROPERTY EventuallyUnlocks
CHECK_DEADLOCK FALSE
