SPECIFICATION Spec
CONSTANTS
  RunIds = {r}
  StartIds = {}
  Args = {a}
  Callers = {c}
  Terminators = {t}
  MaxSequence = 1
  MaxActive = 1
  MaxRetained = 1
  CallsWork = {TRUE}
INVARIANTS
  RacingRunIsStopped
