SPECIFICATION RefreshSpec
CHECK_DEADLOCK FALSE
CONSTANTS
  Readers = {d1, d2}
  MaxExports = 2
  MaxRestarts = 1
INVARIANTS OneExport LiveIsChecked NewestIsKept StatusTellsLive StaleCacheIsARace
PROPERTY RefreshEnds
