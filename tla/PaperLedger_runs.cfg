SPECIFICATION Spec
CONSTANTS
  t1 = t1
  f1 = f1
  f2 = f2
  f3 = f3
  m1 = m1
  m2 = m2
  TickerOf <- SameTicker
  ModelOf <- TwoModels
  Tickers = {t1}
  Models = {m1, m2}
  Forecasts = {f1, f2, f3}
  Runners = {r1, r2}
  Desks = {}
  Accountants = {a1}
  Backend = "sqlite"
  LearningMode = TRUE
  Sizing <- RolloutSizing
  Prices = {3}
  Fee = 1
  Dollar = 10
  Payouts = {0, 4, 10}
  MaxPosition = 4
  MaxOrders = 3
  MaxSettlements = 1
  MaxResets = 1
INVARIANTS TypeOK PositionMatchesFills WithinCap OnceInCooldown SettledPnlExact
PROPERTIES MarketsTradeWhole
CHECK_DEADLOCK FALSE
