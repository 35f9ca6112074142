SPECIFICATION Spec
CONSTANTS
  N = 2
  Threads = {t1, t2}
  NoThread = NoThread
  Clients = {c1}
  NodeAttempts = 2
  ReuseAttempts = 2
  MarkAttempts = 2
  MaxFaults = 1
SYMMETRY Symmetry
\* A run that has ended stays as it is.
CHECK_DEADLOCK FALSE
INVARIANTS
  TypeOK
  SucceededIsComplete
  SignalFollowsFence
  CancelledRunCancelsJob
  ClosedRunIsSettled
  IInv
PROPERTY
  ImplementsContract
