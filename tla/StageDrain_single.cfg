SPECIFICATION Spec
CONSTANTS
  gh1 = gh1
  gh2 = gh2
  op1 = op1
  Workers = {gh1, op1}
  Scheduled = {gh1}
  Refreshers = {}
  MaxFiles = 1
  MaxNumber = 0
  MaxTears = 0
  MaxKills = 0
INVARIANT SingleWriter
