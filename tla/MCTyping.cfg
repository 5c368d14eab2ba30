SPECIFICATION Spec
CONSTANTS
  None = None
  MaxWord = 6
  Char <- MCChar
  Alpha = {"o", "n", "f"}
  Boundary = {"_"}
  Wide = {"O"}
  EngineStates <- MCEngineStates
  Fresh <- TelexFresh
  VnKey <- TelexKey
  VnBackspace <- TelexBackspace
  KeysOf <- TelexKeysOf
  Typed = {"o", "n", "f", "_"}
  StartTexts <- MCStart
  ClientKinds = {"healthy", "silent"}
  UserActions = {}
  LevelShift = TRUE
  MaxKeys = 4
  MaxDuplicates = 1
  MaxEvents = 0
INVARIANT TypedTextAppears
CHECK_DEADLOCK FALSE
