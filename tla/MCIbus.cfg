SPECIFICATION Spec
CONSTANTS
  None = None
  MaxWord = 6
  Char <- MCChar
  Alpha = {"o", "n", "f"}
  Boundary = {"_"}
  Wide = {"O"}
  EngineStates <- MCEngineStates
  Fresh <- TelexFresh
  VnKey <- TelexKey
  VnBackspace <- TelexBackspace
  KeysOf <- TelexKeysOf
  Typed = {"o", "f", "_"}
  StartTexts <- MCStart
  ClientKinds = {"functional", "mute", "docs", "dead"}
  UserActions = {"backspace", "nav", "esc", "enter", "modifier", "reset", "click", "capabilities", "focus", "toggle", "suspend", "method"}
  MaxKeys = 3
  MaxEvents = 2
INVARIANTS TypeOK ClientShowsText OneLostDelete DeletesOnlyIfCapable
PROPERTY EditStaysInWord
CHECK_DEADLOCK FALSE
