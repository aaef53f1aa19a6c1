SPECIFICATION Spec
CONSTANTS
  Attendee = {a1, a2}
  Handler = {w1, w2}
  None = None
  MaxRequests = 3
  OutboxPosts = TRUE
SYMMETRY Symmetry
INVARIANT TypeOK
INVARIANT PendingMatchesInbox
PROPERTY NeverReopened
CHECK_DEADLOCK FALSE
