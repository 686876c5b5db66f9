SPECIFICATION Spec
CONSTANTS
  NumJobs = 2
  ControlJobs = {2}
  PinnedJobs = {1}
  MaxOutstanding = 2
  MaxPendingRequests = 1
  ReservedControlRequests = 1
  MaxRequests = 1
  MaxControlRequests = 1
  MaxReceipts = 2
  MaxReservations = 1
  HostRecovery = {TRUE}
  MaxGeneration = 1
  MaxVersion = 1
  MaxFaults = 0
PROPERTIES
  CancellationCapacity
CHECK_DEADLOCK FALSE
