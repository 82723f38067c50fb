SPECIFICATION KeysSpec
CONSTANTS
  MaxRuns = 3
  MaxCrashes = 2
  MaxKeySets = 3
INVARIANT NoServiceOnHalfData
INVARIANT KeysKept
INVARIANT NormalIsOpenable
PROPERTY NormalMeansRestored
PROPERTY ContractSpec
CHECK_DEADLOCK FALSE
