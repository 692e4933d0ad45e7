SPECIFICATION FairSpec
CONSTANTS
  Txs <- MCTxs
  Feeds = {"f"}
  Of <- MCOf
  Foreign = {"x", "o"}
  Past <- MCPast
  FirstPage = 1
  PageLimit = 1
  MaxHeight = 2
  MaxFaults = 1
  None = None
INVARIANTS TypeOK NoneMissed HistoryComplete
PROPERTY Recorded
CHECK_DEADLOCK FALSE
