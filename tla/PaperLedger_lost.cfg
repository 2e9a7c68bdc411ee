SPECIFICATION Spec
CONSTANTS
  t1 = t1
  f1 = f1
  f2 = f2
  f3 = f3
  m1 = m1
  m2 = m2
  TickerOf <- OneTicker
  ModelOf <- OneModel
  Tickers = {t1}
  Models = {m1}
  Forecasts = {f1, f2}
  Runners = {r1, r2}
  Desks = {}
  Accountants = {}
  Backend = "postgres"
  LearningMode = TRUE
  Sizing <- DefaultSizing
  Prices = {3}
  Fee = 1
  Dollar = 10
  Payouts = {0, 4, 10}
  MaxPosition = 3
  MaxOrders = 3
  MaxSettlements = 0
  MaxResets = 0
INVARIANTS PositionMatchesFills
CHECK_DEADLOCK FALSE
