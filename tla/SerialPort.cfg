SPECIFICATION MCSpec
CONSTANTS
  Formats <- MCFormats
  DefaultFormat <- MCDefault
  EventChars = {10, 13}
  DefaultChar = 0
  Masks <- MCMasks
  ReadSizes = {1, 2}
  QueueSize = 1
  MaxBytes = 3
INVARIANTS
  HandlesOwned
  SettingsHold
  NothingLost
PROPERTIES
  ReadsReturn
CHECK_DEADLOCK FALSE
