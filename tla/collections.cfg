SPECIFICATION Spec
CONSTANTS
  User = {ann, bob}
  Setup = {ann}
  Slug = {"work"}
  Handler = {w1, w2}
  None = None
  MaxGen = 2
  MaxTokens = 1
  MaxRequests = 4
SYMMETRY Symmetry
INVARIANT TypeOK
INVARIANT HasPersonal
INVARIANT NothingOutlivesCalendar
INVARIANT GrantsHold
INVARIANT AclExact
CHECK_DEADLOCK FALSE
