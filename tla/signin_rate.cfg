SPECIFICATION Spec
CONSTANTS
  Max = 2
  Window = 2
  Lockout = 2
  Key = {"reset", "recover"}
  App = {}
  MaxApps = 1
  Handler = {w1, w2}
  NoCode = NoCode
  Settings = FALSE
  MaxRequests = 6
  MaxTime = 5
SYMMETRY Symmetry
INVARIANT GuessesBounded
INVARIANT LockedAtMax
CHECK_DEADLOCK FALSE
