SPECIFICATION Spec
CONSTANTS
  Runs = {r1, r2}
  Threads = {t1, t2}
  Assets = {a1, a2}
  MaxClock = 2
  MaxFaults = 1
SYMMETRY Symmetry
INVARIANTS TypeOK PacksAreDisjoint EndedRunHoldsNothing
PROPERTIES CommitsStand
CHECK_DEADLOCK FALSE
