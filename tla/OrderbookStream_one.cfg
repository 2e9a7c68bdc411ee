SPECIFICATION FairSpec
CONSTANTS
  Tickers = {t1}
  Prices = {p1}
  MaxQuantity = 1
  PersistEvery = 2
  MaxUpdates = 4
  MaxFaults = 2
INVARIANTS TypeOK DriftConfined CheckpointBound
PROPERTIES DriftEndsWithRun
