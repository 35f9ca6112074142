SPECIFICATION Spec
CONSTANTS
  N = 2
  Callers = {c1, c2}
  MaxCalls = 4
  MaxEdits = 2
  MaxFaults = 1
SYMMETRY Symmetry
INVARIANTS TypeOK RecordsMatchVendor RepublishedForCause
PROPERTIES StatusesMoveForward
CHECK_DEADLOCK FALSE
