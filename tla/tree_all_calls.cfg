SPECIFICATION Spec
CONSTANTS
  Filters <- SharedFilters
  MaxInserts = 4
  MaxActions = 2
  Calls <- CallNames
CHECK_DEADLOCK FALSE
INVARIANTS StringsAreUsable TreeIsTight NothingFails CleanedOnce NothingIsLost
PROPERTIES MapImplemented
