SPECIFICATION Spec
CONSTANTS
  User = {root, ann}
  Root = root
  Session = {s1, s2}
  Token = {t1, t2}
  Handler = {w1, w2}
  None = None
  MaxRequests = 6
SYMMETRY Symmetry
INVARIANT TypeOK
INVARIANT NoStaleSessions
INVARIANT OnlyNewestOpen
CHECK_DEADLOCK FALSE
INVARIANT AdminRemains
