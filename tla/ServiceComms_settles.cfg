SPECIFICATION FairSpec
CONSTANTS
  None = None
  Msgs = {m1, m2}
  Requests = {m2}
  MaxRefreshes = 2
  MaxFaults = 1
INVARIANTS TypeOK InOrder TrueAnswers
PROPERTY Settles
CHECK_DEADLOCK FALSE
