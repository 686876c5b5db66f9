SPECIFICATION FairSpec
CONSTANTS
  NumJobs = 1
  ControlJobs = {}
  PinnedJobs = {1}
  MaxOutstanding = 1
  MaxPendingRequests = 1
  ReservedControlRequests = 1
  MaxRequests = 1
  MaxControlRequests = 1
  MaxReceipts = 2
  MaxReservations = 1
  HostRecovery = {TRUE, FALSE}
  MaxGeneration = 3
  MaxVersion = 2
  MaxFaults = 2
INVARIANTS
  NoOrphan
  ResponsesMatch
PROPERTIES
  ImplementsLifecycle
  EventuallyTerminal
  ReceiptEventuallyReleased
CHECK_DEADLOCK FALSE
