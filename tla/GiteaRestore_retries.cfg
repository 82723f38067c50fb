SPECIFICATION Spec
CONSTANTS
  MaxRuns = 3
  MaxWrites = 2
  MaxCrashes = 2
INVARIANT ServedDataBelongTogether
INVARIANT LostOnlyToFullRestore
PROPERTY NormalMeansOneArchive
PROPERTY ContractSpec
CHECK_DEADLOCK FALSE
