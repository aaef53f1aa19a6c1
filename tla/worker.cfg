SPECIFICATION Spec
CONSTANTS
  c1 = c1
  c2 = c2
  u1 = u1
  u2 = u2
  n1 = n1
  full = full
  Contact = {c1, c2}
  Uid = {u1, u2}
  UidOf <- MCUidOf
  Name = {n1}
  NameOf <- MCNameOf
  Kind = {"bday"}
  Date = {full}
  MonthDay <- MCMonthDay
  None = None
  MaxYear = 1
  MaxChanges = 3
  Keep = 1
  MaxBackups = 1
  MaxStarts = 2
  MaxRestores = 1
INVARIANT TypeOK
INVARIANT ServesDest
INVARIANT RestoreReplaces
PROPERTY Converges
CHECK_DEADLOCK FALSE
