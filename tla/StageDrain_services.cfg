SPECIFICATION Spec
CONSTANTS
  gh1 = gh1
  gh2 = gh2
  op1 = op1
  Workers = {gh1, gh2}
  Scheduled = {gh1, gh2}
  Refreshers = {gh2}
  MaxFiles = 4
  MaxNumber = 2
  MaxTears = 1
  MaxKills = 2
INVARIANTS TypeOK DuplicatesOnlyFromKills BehindByNumberOnly
PROPERTIES KeepsLog
