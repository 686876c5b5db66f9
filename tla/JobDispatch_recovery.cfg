SPECIFICATION Spec
CONSTANTS
  NumJobs = 2
  ControlJobs = {2}
  PinnedJobs = {1}
  MaxOutstanding = 2
  MaxPendingRequests = 1
  ReservedControlRequests = 1
  MaxRequests = 1
  MaxControlRequests = 1
  MaxReceipts = 2
  MaxReservations = 1
  HostRecovery = {TRUE}
  MaxGeneration = 2
  MaxVersion = 1
  MaxFaults = 1
INVARIANTS
  TypeOK
  AtMostOnce
  RequestsAreFresh
  DeadlineOnlyInflight
  GatewayFailureNeverRan
  SucceededDidRun
  ReceiptHeldUntilDurable
PROPERTIES
  TerminalImmutable
CHECK_DEADLOCK FALSE
