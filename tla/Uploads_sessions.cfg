SPECIFICATION FairSpec
CONSTANTS
  Threads = {t1, t2}
  NoThread = NoThread
  MaxWorkers = 1
  MaxRetries = 2
  MaxFaults = 2
INVARIANTS TypeOK ReadyIsServed RejectedForCause RemovedIsClean
PROPERTIES FollowsTable CompletionSettles ThumbnailFollows
CHECK_DEADLOCK FALSE
