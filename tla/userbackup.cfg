SPECIFICATION Spec
CONSTANTS
  h1 = h1
  h2 = h2
  u1 = u1
  u2 = u2
  u3 = u3
  small = small
  large = large
  s1 = s1
  s2 = s2
  Href = {h1, h2}
  Uid = {u1, u2, u3}
  Long = {u3}
  HrefOf <- MCHrefOf
  File = {small, large}
  Size <- MCSize
  Link = {l}
  Handler = {w1}
  None = None
  MaxFiles = 2
  MaxFile = 2
  MaxTotal = 2
  MaxId = 2
  MaxRequests = 4
  MaxAttach = 1
  Segment = {s1, s2}
  SegmentOf <- MCSegmentOf
  Email = {e1, e2}
  Grantee = {g}
  MaxState = 1
  MaxEntries = 4
  MaxUnpacked = 3
INVARIANT TypeOK
 
INVARIANT WithinLimits
INVARIANT RestoreFaithful
CHECK_DEADLOCK FALSE
CONSTRAINT Bound
