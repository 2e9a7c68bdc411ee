SPECIFICATION Spec
CONSTANTS
  f1 = f1
  f2 = f2
  f3 = f3
  run = run
  learner = learner
  Forecasts = {f1, f2, f3}
  Runs = {run, learner}
  Learners = {learner}
  Sqlite = TRUE
  Limit = 4
  Quantities = {1, 3}
  MaxSessions = 3
  MaxResets = 1
INVARIANTS TypeOK WithinLimit CountedOnce
PROPERTY SpentOnlyByOrders
CHECK_DEADLOCK FALSE
