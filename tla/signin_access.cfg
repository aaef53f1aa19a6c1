SPECIFICATION Spec
CONSTANTS
  Max = 2
  Window = 2
  Lockout = 2
  Key = {"login", "dav", "reset-totp"}
  App = {p1, p2, p3}
  MaxApps = 1
  Handler = {w1, w2}
  NoCode = NoCode
  Settings = TRUE
  MaxRequests = 4
  MaxTime = 1
SYMMETRY Symmetry
INVARIANT TypeOK
INVARIANT AccessProven
INVARIANT FactorConsistent
INVARIANT AppsBounded
CHECK_DEADLOCK FALSE
