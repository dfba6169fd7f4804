SPECIFICATION ConsoleSpec
CONSTANTS
  p1 = p1
  p2 = p2
  c1 = c1
  Pipelines = {p1, p2}
  Clients = {c1}
  Script <- MCScript
  QueueSize = 1
  LogSize = 2
CHECK_DEADLOCK FALSE
INVARIANT ConsoleConsistent
PROPERTY StreamFaithful
PROPERTY DashboardsSettle
