SPECIFICATION FairSpec
CONSTANTS
  R = 2
  MaxInflight = 1
  Attempts = {a1, a2}
  Nobody = Nobody
  MaxTries = 2
  MaxFaults = 1
\* A case whose runs have all ended stays as it is.
CHECK_DEADLOCK FALSE
PROPERTIES
  QueueDrains
  ControllerEnds
