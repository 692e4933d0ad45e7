SPECIFICATION FairWindowsSpec
CONSTANTS
  None = None
  Requests <- MCRequests
  Intent <- MCIntent
  Conditional = {"advertise"}
PROPERTY OnlyRepeatsIgnored
CHECK_DEADLOCK FALSE
