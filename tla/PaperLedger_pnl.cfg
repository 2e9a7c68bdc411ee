SPECIFICATION FairSpec
CONSTANTS
  t1 = t1
  f1 = f1
  f2 = f2
  f3 = f3
  m1 = m1
  m2 = m2
  TickerOf <- OneTicker
  ModelOf <- OneModel
  Tickers = {t1}
  Models = {m1}
  Forecasts = {f1, f2}
  Runners = {r1}
  Desks = {d1}
  Accountants = {a1, a2}
  Backend = "sqlite"
  LearningMode = FALSE
  Sizing <- RolloutSizing
  Prices = {3}
  Fee = 1
  Dollar = 10
  Payouts = {4, 10}
  MaxPosition = 1
  MaxOrders = 2
  MaxSettlements = 2
  MaxResets = 0
INVARIANTS DesksOverdrawOnce SettledPnlExact ForecastOrderedOnce
PROPERTIES PnlConverges
