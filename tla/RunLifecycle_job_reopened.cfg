SPECIFICATION Spec
CONSTANTS
  N = 2
  Threads = {t1, t2}
  NoThread = NoThread
  Clients = {c1}
  NodeAttempts = 1
  ReuseAttempts = 2
  MarkAttempts = 2
  MaxFaults = 1
\* A run that has ended stays as it is.
CHECK_DEADLOCK FALSE
PROPERTY
  EndedJobFollowsTable
