SPECIFICATION Spec
CONSTANTS
  shell1 = shell1
  shell2 = shell2
  shell3 = shell3
  Calls = {shell1, shell2, shell3}
  Ops = {"register", "configure", "run", "status", "connect", "disconnect", "update"}
  MaxFaults = 1
SYMMETRY CallSymmetry
INVARIANTS EnrollmentCurrent RestartedRunsNew
