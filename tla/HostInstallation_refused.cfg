SPECIFICATION Spec
CONSTANTS
  shell1 = shell1
  shell2 = shell2
  shell3 = shell3
  Calls = {shell1}
  Ops = {"connect"}
  MaxFaults = 0
SYMMETRY CallSymmetry
INVARIANT RefusedByAnOwner
