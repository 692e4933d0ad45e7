SPECIFICATION PoolSpec
CONSTANTS
  Tasks = {t1, t2, t3}
  SlotCapacity = 2
  Resolution = 2
  Concurrency = 1
  MaxCalls = 2
INVARIANTS PoolTypeOK RateLimited
PROPERTY LetThrough
