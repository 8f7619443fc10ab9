SPECIFICATION MCSpec
CONSTANTS
  None = None
  Admins = {e1, e2}
  Tabs = {r1, r2}
  Emails = {mail}
  MaxUsers = 2
  MaxRoles = 2
  MaxPermissions = 1
  MaxPeriods = 2
  Forms = {r1, r2}
  BatchSize = 2
  MaxChats = 3
  Authors = {e1, e2}
  t1 = t1
  t2 = t2
  AutoTriggers <- MCTriggers
  Texts = {v1}
  MaxResponses = 2
  MaxShelves = 1
  Sockets = {r1, r2, k3}
  Operators = {o1}
  MaxTalks = 2
  MaxRestarts = 1
SYMMETRY Symmetry
CONSTRAINT Bound
CHECK_DEADLOCK FALSE
INVARIANTS SessionsKeepUpWithRights SignedInStaysSignedIn ExportLosesBySlipOnly MailShownAsItWent AutoMessagesCatchUp ResponsesFollowCategory ChatsFollowPages PresenceFollowsTabs
PROPERTIES RoleLostByCrossingOnly
