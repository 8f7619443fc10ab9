SPECIFICATION Spec
CONSTANTS
  Operators = {o1, o2, boss}
  Supervisors = {boss}
  o1 = o1
  o2 = o2
  boss = boss
  Nobody = Nobody
  NumSessions = 3
  Tasks = {t1}
  t1 = t1
  Limits = {1}
  FirstLimit = 1
  Enabled = {"greeting", "inactivity_close", "queue_abandon_close"}
  Handlers = {"start", "message", "visitorClose", "leave", "join", "status", "offline", "closeOwn"}
  MaxRequests = 7
SYMMETRY Symmetry
CHECK_DEADLOCK FALSE
INVARIANT NoIdleCapacity
PROPERTY ServedInOrder
