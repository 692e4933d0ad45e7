SPECIFICATION Spec
CONSTANTS
  None = None
  Frames = {f1}
  Keys = {k1}
  Phrases = {p1}
  Params = {a1, a2}
  Twins = FALSE
  MaxNonce = 3
  MaxDraws = 2
INVARIANT Unlockable
