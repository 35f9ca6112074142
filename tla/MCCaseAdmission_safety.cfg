SPECIFICATION Spec
CONSTANTS
  R = 3
  MaxInflight = 2
  Attempts = {a1, a2}
  Nobody = Nobody
  MaxTries = 2
  MaxFaults = 1
SYMMETRY Symmetry
\* A case whose runs have all ended stays as it is.
CHECK_DEADLOCK FALSE
INVARIANTS
  TypeOK
  RunningHasWorkflow
  CapWithoutFaults
  IInv
PROPERTY
  FifoWithoutFaults
