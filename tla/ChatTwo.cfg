SPECIFICATION XSpec
CONSTANTS
  Operators = {o1}
  Supervisors = {}
  o1 = o1
  Nobody = Nobody
  NumSessions = 3
  Tasks = {t1, t2}
  t1 = t1
  t2 = t2
  Limits = {1}
  FirstLimit = 1
  Enabled = {"greeting", "inactivity_close", "queue_abandon_close"}
  Handlers = {"start", "message", "rejoin", "visitorClose", "join", "reply", "restart"}
  MaxRequests = 4
SYMMETRY Symmetry
CHECK_DEADLOCK FALSE
INVARIANT QueuedHasCountdown
INVARIANT ActiveHasCountdown
INVARIANT OvershootBounded
INVARIANT GreetedTwiceByMeetingOnly
PROPERTY OverLimitUnawaresOnly
