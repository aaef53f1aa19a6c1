SPECIFICATION Spec
CONSTANTS
  Attendee = {a1, a2}
  Handler = {w1}
  None = None
  MaxRequests = 5
  OutboxPosts = FALSE
SYMMETRY Symmetry
INVARIANT AcceptedCopyCurrent
INVARIANT NoOrphans
INVARIANT NoFalseAnswers
CHECK_DEADLOCK FALSE
