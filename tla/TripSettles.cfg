\* An AI and a manual request, a database that answers, one restart.
SPECIFICATION FairSpec
CONSTANTS
  j1 = j1
  j2 = j2
  alice = alice
  NoJob = NoJob
  s1 = s1
  Jobs = {j1, j2}
  AsyncJobs = {j1, j2}
  AiJobs = {j1}
  Users = {alice}
  Owner <- OneOwner
  Admins = {}
  FreeLimit = 1
  PremiumLimit = 2
  DbMayFail = FALSE
  MaxResets = 0
  Savers = {s1}
  WholeSavers = {}
  MaxLoads = 1
  MaxCrashes = 1
INVARIANTS
  NoChargeForFailure
  SuccessIsPaid
  UncancelledTripSettles
PROPERTIES
  JobSettles
  CancelRefunds
