SPECIFICATION FairSpec
CONSTANTS
  Kind = "addressbook"
  Href = {h1}
  Body = {b1}
  u1 = u1
  Uid = {u1}
  UidOf <- MCUidOf
  Handler = {w1, w2}
  SyncClient = {c1}
  CtagClient = {}
  NoRow = NoRow
  NoHref = NoHref
  NoEtag = NoEtag
  NoToken = NoToken
  Unset = Unset
  Star = Star
  IfMatch = {Unset}
  IfNoneMatch = {Unset}
  MaxRequests = 3
PROPERTY CatchesUp
