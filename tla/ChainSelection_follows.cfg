SPECIFICATION FairSpec
CONSTANTS
  Picks = {t1, t2, t3}
  Chains = {secret, cosmos, osmosis}
  MaxFaults = 2
  None = None
INVARIANTS TypeOK OneTells Follows NetworkInStep
PROPERTY Told
CHECK_DEADLOCK FALSE
