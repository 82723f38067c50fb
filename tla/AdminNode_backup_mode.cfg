SPECIFICATION Spec
CONSTANTS
  Backups = {b1}
  Restores = {r1}
  GiteaRestores = {g1}
  Converges = {c1}
  b1 = b1
  r1 = r1
  g1 = g1
  c1 = c1
  TimerStarted = {b1, c1}
  OperatorModes = {}
  OrphansPossible = FALSE
  MaxSets = 0
  MaxCrashes = 0
  None = None
PROPERTY BackupNeedsNormal
CHECK_DEADLOCK FALSE
