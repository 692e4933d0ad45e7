SPECIFICATION FairSpec
CONSTANTS
  None = None
  Tasks = {t1, t2}
  Keys = {k1}
  Items = {i1}
  Vals = {1, 2}
  Roots = {r1}
  LeaseMidWrite = FALSE
  Bump <- MCBump
INVARIANTS TypeOK FreshSnapshot
PROPERTIES StoreIsAtomic LockReturned
