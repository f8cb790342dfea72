SPECIFICATION Spec
CONSTANTS
  None = None
  Requests = {r1, r2}
  Passwords = {p1, p2}
  Identities = {d1, d2}
  MaxTries = 2
  MaxRows = 2
  MaxTokens = 2
SYMMETRY Twins
INVARIANTS GuessesBounded OwnAccount
PROPERTIES VerifiedByCode VerifiedKept PasswordKept
CHECK_DEADLOCK FALSE
