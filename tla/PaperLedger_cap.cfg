SPECIFICATION Spec
CONSTANTS
  t1 = t1
  f1 = f1
  f2 = f2
  f3 = f3
  m1 = m1
  m2 = m2
  TickerOf <- OneTicker
  ModelOf <- OneModel
  Tickers = {t1}
  Models = {m1}
  Forecasts = {f1, f2}
  Runners = {r1}
  Desks = {d1}
  Accountants = {}
  Backend = "sqlite"
  LearningMode = TRUE
  Sizing <- DefaultSizing
  Prices = {3}
  Fee = 1
  Dollar = 10
  Payouts = {0, 4, 10}
  MaxPosition = 1
  MaxOrders = 2
  MaxSettlements = 0
  MaxResets = 0
INVARIANTS WithinCap
CHECK_DEADLOCK FALSE
