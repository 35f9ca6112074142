SPECIFICATION FairSpec
CONSTANTS
  N = 2
  Threads = {t1}
  NoThread = NoThread
  Clients = {c1}
  NodeAttempts = 1
  ReuseAttempts = 2
  MarkAttempts = 2
  MaxFaults = 0
\* A run that has ended stays as it is.
CHECK_DEADLOCK FALSE
PROPERTY
  CancellationCompletes
