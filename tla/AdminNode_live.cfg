SPECIFICATION FairSpec
CONSTANTS
  Backups = {b1}
  Restores = {r1}
  GiteaRestores = {g1}
  Converges = {c1}
  b1 = b1
  r1 = r1
  g1 = g1
  c1 = c1
  TimerStarted = {}
  OperatorModes = {"restore"}
  OrphansPossible = FALSE
  MaxSets = 2
  MaxCrashes = 2
  None = None
PROPERTY LockReleased
PROPERTY BackupWaitEnds
