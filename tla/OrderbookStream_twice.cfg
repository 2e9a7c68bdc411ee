SPECIFICATION Spec
CONSTANTS
  Tickers = {t1}
  Prices = {p1}
  MaxQuantity = 1
  PersistEvery = 1
  MaxUpdates = 3
  MaxFaults = 0
PROPERTIES NoDeltaAppliedTwice
