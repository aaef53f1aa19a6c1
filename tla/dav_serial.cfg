SPECIFICATION Spec
CONSTANTS
  Kind = "calendar"
  Href = {h1, h2}
  Body = {b1, b2}
  u1 = u1
  Uid = {u1}
  UidOf <- MCUidOf
  Handler = {w1}
  SyncClient = {}
  CtagClient = {}
  NoRow = NoRow
  NoHref = NoHref
  NoEtag = NoEtag
  NoToken = NoToken
  Unset = Unset
  Star = Star
  IfMatch = {Unset, Star, b1, b2}
  IfNoneMatch = {Unset, Star, b1, b2}
  MaxRequests = 5
INVARIANT RecordsTruthful
PROPERTY ImplementsObjectStore
CHECK_DEADLOCK FALSE
