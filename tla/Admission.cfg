SPECIFICATION Spec
CONSTANTS
  u1 = u1
  m1 = m1
  m2 = m2
  c1 = c1
  c2 = c2
  c3 = c3
  c4 = c4
  Users = {u1}
  Machines = {m1, m2}
  Owner <- MCOwner
  Calls = {c1, c2, c3, c4}
  Ops = {"create", "issue_registration", "register", "remove", "submit"}
  Keys = {"k1", "k2"}
  MaxOutstanding = 1
  MaxEdits = 1
  MaxAborts = 1
SYMMETRY CallSymmetry
INVARIANT OneOfEach
PROPERTY GrantedWhileAllowed
