SPECIFICATION Spec
CONSTANTS
  r1 = r1
  r2 = r2
  Users = {1, 2, 3}
  Requests = {r1, r2}
  Forms <- SmallForms
  Patches <- SmallPatches
  MaxExpenses = 2
  MaxBatches = 3
SYMMETRY Twins
INVARIANTS SharesAddUp OwedOnce TransfersSettle
CHECK_DEADLOCK FALSE
