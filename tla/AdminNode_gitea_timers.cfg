SPECIFICATION Spec
CONSTANTS
  Backups = {}
  Restores = {}
  GiteaRestores = {g1}
  Converges = {c1}
  g1 = g1
  c1 = c1
  TimerStarted = {c1}
  OperatorModes = {}
  OrphansPossible = FALSE
  MaxSets = 0
  MaxCrashes = 0
  None = None
PROPERTY GiteaFailureKeepsTimersStopped
CHECK_DEADLOCK FALSE
