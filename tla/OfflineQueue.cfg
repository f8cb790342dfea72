CONSTANTS
  f1 = f1
  f2 = f2
  c1 = c1
  none = none
  a1 = a1
  a2 = a2
  a3 = a3
  a4 = a4
  Flushes = {f1,f2}
  Callers = {c1}
  Arrays = {a1,a2,a3,a4}
  NoArray = none
  MaxRetries = 2
  MaxMutations = 2
  MaxFaults = 2
  MaxRestarts = 1
SPECIFICATION Spec
INVARIANTS Kept SentOnce GivenUpInTime
SYMMETRY Twins
CHECK_DEADLOCK FALSE
