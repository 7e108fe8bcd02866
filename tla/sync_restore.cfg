CONSTANTS
  Path = {f, g}
  Code = {c1}
  NoCode = nocode
  MaxAttempts = 1
  MaxTroubles = 1
SPECIFICATION SyncSpec
INVARIANT RestoredOnAnyFailure
CHECK_DEADLOCK FALSE
