SPECIFICATION Spec
CONSTANTS
  a = a  b = b  nested = nested  quoting = quoting  long = long
  notStarted = notStarted  done = done
  Texts <- MCTexts
  Parts <- MCParts
  Refused <- MCRefused
  Kept <- MCKept
  Statuses <- MCStatuses
  NotStarted = notStarted
  Done = done
  MaxRows = 2
  MaxKey = 3
  MaxBlocks = 2
  MaxActs = 3
INVARIANTS KeysUnique ArchivedWasRemoved CleanAgrees SecondSyncIdle
PROPERTY StoreOwnsStatus
