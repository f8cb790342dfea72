\* Events one after the other: the rows and the store agree in the end.
SPECIFICATION FairSpec
CONSTANTS
  alice = alice
  bob = bob
  anon = anon
  d1 = d1
  d2 = d2
  h1 = h1
  h2 = h2
  Users = {alice, bob}
  Clients = {d1}
  Owner <- AllAlice
  Handlers = {h1}
  Anon = {anon}
  PhantomUsers = {alice}
  StoreMoves = {"renew", "autorenew", "refund", "transfer"}
  Overlap = FALSE
  InOrder = TRUE
  FaultKinds = {"reply", "revenuecat", "network", "alias", "app"}
  Dates = {"given", "missing"}
  Year = 2
  MaxFaults = 1
  MaxEvents = 3
  MaxTime = 2
INVARIANTS
  UnpaidIsFree
PROPERTIES
  EventsAnswered
  PaidBecomesPremium
CHECK_DEADLOCK FALSE
