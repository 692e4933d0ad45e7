SPECIFICATION Spec
CONSTANTS
  Txs <- MCTxs2
  Feeds = {"f", "g"}
  Of <- MCOf2
  Foreign = {}
  Past <- MCPast2
  FirstPage = 1
  PageLimit = 1
  MaxHeight = 2
  MaxFaults = 0
  None = None
INVARIANT NoneMissed
CHECK_DEADLOCK FALSE
