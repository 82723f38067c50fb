SPECIFICATION FairSpec
CONSTANTS
  Repositories <- AdminThenInventory
  AdminRepo = "admin"
  Commits = {c1, c2}
  OperatorModes = {"normal", "locked", "restore"}
  MaxReboots = 1
INVARIANT PlaybookIsCurrent
PROPERTY OwnCommitsStay
PROPERTY ChangesArrive
PROPERTY VaultIsUnsealed
