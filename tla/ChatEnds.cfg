SPECIFICATION CFairSpec
CONSTANTS
  Operators = {o1}
  Supervisors = {}
  o1 = o1
  Nobody = Nobody
  NumSessions = 2
  Tasks = {t1, t2}
  t1 = t1
  t2 = t2
  Limits = {1}
  FirstLimit = 1
  Enabled = {"inactivity_close", "queue_abandon_close"}
  Handlers = {"start", "message", "join", "closeAny", "reopen"}
  MaxRequests = 3
CHECK_DEADLOCK FALSE
PROPERTY EveryChatEnds
