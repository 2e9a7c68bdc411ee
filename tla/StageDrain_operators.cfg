SPECIFICATION FairSpec
CONSTANTS
  gh1 = gh1
  gh2 = gh2
  op1 = op1
  Workers = {gh1, gh2, op1}
  Scheduled = {gh1, gh2}
  Refreshers = {gh2}
  MaxFiles = 2
  MaxNumber = 1
  MaxTears = 1
  MaxKills = 1
INVARIANTS NothingLost
PROPERTIES DrainedUnlessTorn
