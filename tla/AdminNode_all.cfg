SPECIFICATION Spec
CONSTANTS
  Backups = {b1}
  Restores = {r1, r2}
  GiteaRestores = {g1}
  Converges = {c1, c2}
  b1 = b1
  r1 = r1
  r2 = r2
  g1 = g1
  c1 = c1
  c2 = c2
  TimerStarted = {b1}
  OperatorModes = {"restore"}
  OrphansPossible = FALSE
  MaxSets = 2
  MaxCrashes = 2
  None = None
SYMMETRY Interchangeable
INVARIANT MutualExclusion
INVARIANT ConvergeNeverSkipped
INVARIANT SuspensionHolds
INVARIANT NoTimerForgotten
