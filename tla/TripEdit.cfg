CONSTANTS
  owner = owner
  ed = ed
  guest = guest
  none = none
  r1 = r1
  r2 = r2
  Owner = owner
  Others = {ed}
  Editors = {ed}
  None = none
  Requests = {r1,r2}
  Start = 1
  Ends = {2}
  Orders <- SomeOrders
  Edits <- SomeEdits
  MaxNow = 4
  MaxOps = 2
SPECIFICATION FairSpec
PROPERTIES RightfulChange ActsOnDocument StatusSettles
CHECK_DEADLOCK FALSE
