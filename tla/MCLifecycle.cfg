SPECIFICATION Spec
CONSTANTS
  None = None
  MaxWord = 6
  Char <- MCChar
  Alpha = {"o", "n", "f"}
  Boundary = {"_"}
  Wide = {"O"}
  EngineStates <- MCEngineStates
  Fresh <- TelexFresh
  VnKey <- TelexKey
  VnBackspace <- TelexBackspace
  KeysOf <- TelexKeysOf
  Typed = {"f"}
  StartTexts <- MCOneWord
  ClientKinds = {"healthy", "dead", "silent"}
  UserActions = {"hasty", "focus", "toplevel", "toggle", "method"}
  LevelShift = FALSE
  MaxKeys = 2
  MaxDuplicates = 1
  MaxEvents = 2
INVARIANTS SessionHasComposer PendingOnlyOnSurrounding CharCountForwarded
PROPERTY CommitRatchet
CHECK_DEADLOCK FALSE
