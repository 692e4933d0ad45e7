SPECIFICATION FairWindowsSpec
CONSTANTS
  None = None
  Requests <- MCRequests
  Intent <- MCIntent
  Conditional = {"advertise"}
INVARIANTS WindowsTypeOK OneFlowPerTab ListenersGone
PROPERTIES Resolves QueueServed
CHECK_DEADLOCK FALSE
