SPECIFICATION MCSpec
CONSTANTS
  u1 = u1
  u2 = u2
  j1 = j1
  j2 = j2
  wait1 = wait1
  wait2 = wait2
  wait3 = wait3
  Users = {u1, u2}
  Jobs = {j1, j2}
  Waits = {wait1, wait2, wait3}
  Owner <- MCOwner
  JobOf <- MCJobOf
  Workers = {w1, w2}
  MaxWaiters = 2
  MaxWaitersPerUser = 1
  MaxDisconnects = 1
  MaxAttempts = 2
  MaxRedeliveries = 1
  MaxDeaths = 1
  MaxEdits = 1
INVARIANTS NoMissedWakeup WaiterAccounts AttemptsTellDelivery CycleBounded
PROPERTIES DeliveryEnds
CHECK_DEADLOCK FALSE
