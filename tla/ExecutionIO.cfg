SPECIFICATION MCSpec
CONSTANTS
  o1 = o1
  i1 = i1
  i2 = i2
  i3 = i3
  stdout = stdout
  stderr = stderr
  Streams = {stdout, stderr}
  Observers = {o1}
  Inputs = {i1, i2, i3}
  Size <- MCSize
  Capacity = 2
  TailCapacity = 2
  QueueCapacity = 2
  MaxReceipts = 3
  Limits = {1, 2}
  MaxOutput = 3
  PipeCapacity = 2
  MaxObservations = 2
  MaxControls = 1
  MaxFaults = 1
SYMMETRY StreamSymmetry
INVARIANTS NothingSilentlySkipped NoLostWakeup InputOnceInOrder CompleteFileIsWhole
CHECK_DEADLOCK FALSE
