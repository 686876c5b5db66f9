SPECIFICATION Spec
CONSTANTS
  NumJobs = 3
  ControlJobs = {3}
  PinnedJobs = {}
  MaxOutstanding = 2
  MaxPendingRequests = 1
  ReservedControlRequests = 1
  MaxRequests = 1
  MaxControlRequests = 1
  MaxReceipts = 2
  MaxReservations = 1
  HostRecovery = {TRUE}
  MaxGeneration = 1
  MaxVersion = 1
  MaxFaults = 1
INVARIANTS
  ControlSlotsReserved
CHECK_DEADLOCK FALSE
