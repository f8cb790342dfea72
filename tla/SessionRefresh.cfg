CONSTANTS
  alice = alice
  nobody = nobody
  c1 = c1
  c2 = c2
  exit1 = exit1
  r1 = r1
  r2 = r2
  Users = {alice}
  NoUser = nobody
  Calls = {c1}
  Exit = exit1
  Requests = {r1,r2}
  FaultKinds = {"network","timeout","storage","server","password"}
  MaxFaults = 1
  MaxLogins = 1
  MaxTokens = 2
SPECIFICATION FairSpec
INVARIANTS RefusedForCause ExchangedOnce
PROPERTIES LockHolds QueuedCallSettles
CHECK_DEADLOCK FALSE
