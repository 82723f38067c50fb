SPECIFICATION Spec
CONSTANTS
  Backups = {b1}
  Restores = {r1, r2}
  GiteaRestores = {}
  Converges = {c1}
  b1 = b1
  r1 = r1
  r2 = r2
  c1 = c1
  TimerStarted = {c1}
  OperatorModes = {"restore", "normal", "locked"}
  OrphansPossible = FALSE
  MaxSets = 3
  MaxCrashes = 2
  None = None
PROPERTY NormalMeansWhole
PROPERTY ContractSpec
CHECK_DEADLOCK FALSE
