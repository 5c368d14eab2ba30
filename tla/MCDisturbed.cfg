SPECIFICATION FairSpec
CONSTANTS
  None = None
  MaxWord = 6
  Char <- MCChar
  Alpha = {"o", "n", "f"}
  Boundary = {"_"}
  Wide = {"O"}
  EngineStates <- MCEngineStates
  Fresh <- TelexFresh
  VnKey <- TelexKey
  VnBackspace <- TelexBackspace
  KeysOf <- TelexKeysOf
  Typed = {"o", "f"}
  StartTexts <- MCTwoWords
  ClientKinds = {"healthy"}
  UserActions = {"hasty", "nav", "other", "backspace", "click", "complete", "erase"}
  LevelShift = FALSE
  MaxKeys = 2
  MaxDuplicates = 1
  MaxEvents = 1
INVARIANT TypeOK
PROPERTIES RepairStaysInWord EchoProof RawKeyResolves
CHECK_DEADLOCK FALSE
