SPECIFICATION FairSpec
CONSTANTS
  RunIds = {r}
  StartIds = {x}
  Args = {a}
  Callers = {c}
  Terminators = {t}
  MaxSequence = 2
  MaxActive = 1
  MaxRetained = 1
  CallsWork = {TRUE, FALSE}
INVARIANTS
  TypeOK
  RegistrySound
  CancelledNeverSpawns
  GroupLeftEmpty
  ShutdownIsFinal
PROPERTIES
  FirstStopWins
  StopsComplete
