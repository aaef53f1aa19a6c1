SPECIFICATION Spec
CONSTANTS
  Kind = "calendar"
  Href = {h1, h2}
  Body = {b1, b2}
  u1 = u1
  Uid = {u1}
  UidOf <- MCUidOf
  Handler = {w1, w2}
  SyncClient = {c1}
  CtagClient = {k1}
  NoRow = NoRow
  NoHref = NoHref
  NoEtag = NoEtag
  NoToken = NoToken
  Unset = Unset
  Star = Star
  IfMatch = {Unset}
  IfNoneMatch = {Unset}
  MaxRequests = 2
SYMMETRY MCSymmetry
INVARIANT TypeOK
INVARIANT NothingMissed
INVARIANT CtagCovers
