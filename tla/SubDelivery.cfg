\* Two webhook requests at once, events in any order, failures and a crash.
SPECIFICATION Spec
CONSTANTS
  alice = alice
  bob = bob
  anon = anon
  d1 = d1
  d2 = d2
  h1 = h1
  h2 = h2
  Users = {alice}
  Clients = {d1}
  Owner <- AllAlice
  Handlers = {h1, h2}
  Anon = {}
  PhantomUsers = {}
  StoreMoves = {"renew", "autorenew"}
  Overlap = TRUE
  InOrder = FALSE
  FaultKinds = {"database", "reply", "crash"}
  Dates = {"given", "missing", "invalid"}
  Year = 2
  MaxFaults = 1
  MaxEvents = 3
  MaxTime = 1
INVARIANTS
  PremiumWasPaid
PROPERTIES
  NoDoubleCharge
  ImplementsLedger
SYMMETRY SameHandlers
CHECK_DEADLOCK FALSE
