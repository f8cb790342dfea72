\* Two AI requests of one user, a failing database, one reset of the counter.
SPECIFICATION Spec
CONSTANTS
  j1 = j1
  j2 = j2
  alice = alice
  NoJob = NoJob
  s1 = s1
  Jobs = {j1, j2}
  AsyncJobs = {}
  AiJobs = {j1, j2}
  Users = {alice}
  Owner <- OneOwner
  Admins = {}
  FreeLimit = 1
  PremiumLimit = 2
  DbMayFail = TRUE
  MaxResets = 1
  Savers = {s1}
  WholeSavers = {s1}
  MaxLoads = 1
  MaxCrashes = 0
INVARIANTS
  CounterMatchesLedger
PROPERTIES
  QuotaNeverOverrun
  ImplementsOrder
SYMMETRY SameRequests
