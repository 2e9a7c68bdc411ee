SPECIFICATION Spec
CONSTANTS
  svc = svc
  op = op
  Service = svc
  Operators = {op}
  Required = 2
  MaxAge = 0
  MaxFetches = 2
  MaxCycles = 3
  MaxTime = 1
INVARIANTS TypeOK GateEarned QuotesLostOnlyByHand QuotesRepeatOnlyAfterMishaps ServiceReadsWhole OutputsAgree
CHECK_DEADLOCK FALSE
