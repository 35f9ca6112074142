SPECIFICATION FairSpec
CONSTANTS
  Callers = {c1, c2}
  MaxInflight = 1
  MaxFaults = 1
  MaxRun = 2
  MaxRows = 3
INVARIANTS TypeOK PollingKeepsTask BillsMatchPurchases ReplayableWithoutOverlap InflightBounded
PROPERTIES ImplementsPurchases ForwardOnly CallReturns
CHECK_DEADLOCK FALSE
