SPECIFICATION Spec
CONSTANTS
  Count = 2
  Parts = 4
  Checkers = {timer, operator}
  Unlocked = {}
  None = None
  MaxRuns = 5
  MaxDamages = 2
INVARIANT DamageIsFound
INVARIANT IInv
CHECK_DEADLOCK FALSE
