SPECIFICATION RestoreSpec
CONSTANTS
  None = None
  Contents <- MCContents
  MaxRows = 3
  MaxMade = 1
  MaxMoved = 1
  MaxCrashes = 1
  MaxUndrawn = 1
CONSTRAINT RestoreBound
CHECK_DEADLOCK FALSE
INVARIANTS RestoredAsExported FreshIds
