SPECIFICATION Spec
CONSTANTS
  Operators = {o1, boss}
  Supervisors = {boss}
  o1 = o1
  boss = boss
  Nobody = Nobody
  NumSessions = 1
  Tasks = {t1, t2}
  t1 = t1
  t2 = t2
  Limits = {1, 2}
  FirstLimit = 1
  Enabled = {"greeting", "inactivity_warning", "inactivity_close", "queue_wait", "queue_abandon_warning", "queue_abandon_close"}
  Handlers = {"start", "message", "form", "rejoin", "visitorClose", "leave", "disconnect", "join", "status", "offline", "claim", "reply", "closeAny", "reopen", "restClose", "restReopen", "restAssign", "config", "restart", "fail"}
  MaxRequests = 4
SYMMETRY Symmetry
CHECK_DEADLOCK FALSE
INVARIANT AssignedIsStamped
PROPERTY SupervisorsByRestOnly
