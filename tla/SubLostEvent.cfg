\* An event is claimed, its update fails, and the retry is skipped.
SPECIFICATION Spec
CONSTANTS
  alice = alice
  bob = bob
  anon = anon
  d1 = d1
  d2 = d2
  h1 = h1
  h2 = h2
  Users = {alice}
  Clients = {d1}
  Owner <- AllAlice
  Handlers = {h1}
  Anon = {}
  PhantomUsers = {}
  StoreMoves = {}
  Overlap = TRUE
  InOrder = FALSE
  FaultKinds = {"database"}
  Dates = {"given"}
  Year = 2
  MaxFaults = 1
  MaxEvents = 1
  MaxTime = 0
INVARIANTS
  AnsweredMeansApplied
CHECK_DEADLOCK FALSE
