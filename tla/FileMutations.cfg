SPECIFICATION Spec
CONSTANTS
  Paths = {"p", "q", "l"}
  InitialDisk <- MCDisk
  OutsideWrites <- MCOutside
  Requests <- MCRequests
  MaxReceipts = 1
  MaxOutside = 1
  MaxFailures = 1
  MaxLeaves = 1
  MaxRestarts = 1
  MaxFaults = 2
INVARIANTS OneAnswerPerMutation PatchReportsTruth AppliedAsPlanned CodexAgrees ReplacementsAgree
PROPERTIES NoLostUpdate
CHECK_DEADLOCK FALSE
