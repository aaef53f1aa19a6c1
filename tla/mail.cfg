SPECIFICATION Spec
CONSTANTS
  me = me
  bob = bob
  dan = dan
  eve = eve
  ghost = ghost
  junk = junk
  mebox = mebox
  bobbox = bobbox
  danbox = danbox
  memail = memail
  bobmail = bobmail
  danmail = danmail
  bobNamed = bobNamed
  bobboxNamed = bobboxNamed
  Ident = {me, bob, dan, eve, ghost, junk, mebox, bobbox, danbox, memail, bobmail, danmail, bobNamed, bobboxNamed}
  User <- MCUser
  Self <- Me
  UserOf <- MCUserOf
  LocalBox = {mebox, bobbox, danbox, ghost}
  AddrOf <- MCAddrOf
  Invitees <- MCInvitees
  Failures = {{}, {1}, {3}}
  Mailbox <- MCMailbox
  Rotates = {"microsoft"}
  OwnEmail = memail
  Flow = {f1}
  Handler = {w1, w2}
  None = None
  MaxGrants = 3
  MaxRequests = 4
INVARIANT TypeOK
INVARIANT TokensLive
INVARIANT FlowOnce
INVARIANT Accounted
INVARIANT InvitedAreListed
SYMMETRY Symmetry
CHECK_DEADLOCK FALSE
