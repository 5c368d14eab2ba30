SPECIFICATION Spec
CONSTANTS
  None = None
  MaxWord = 6
  Char <- MCChar
  Alpha = {"o", "n", "f"}
  Boundary = {"_"}
  Wide = {"O"}
  EngineStates <- MCEngineStates
  Fresh <- TelexFresh
  VnKey <- TelexKey
  VnBackspace <- TelexBackspace
  KeysOf <- TelexKeysOf
  Typed = {"o", "f"}
  StartTexts <- MCEmpty
  ClientKinds = {"dead"}
  UserActions = {}
  LevelShift = FALSE
  MaxKeys = 3
  MaxDuplicates = 1
  MaxEvents = 0
PROPERTY DowngradeSticks
CHECK_DEADLOCK FALSE
