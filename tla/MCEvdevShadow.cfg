SPECIFICATION Spec
CONSTANTS
  None = None
  MaxWord = 4
  Char <- MCChar
  Alpha = {"o", "u", "f", "F"}
  Boundary = {"_"}
  Wide = {"O", "U"}
  EngineStates <- MCEngineStates
  Fresh <- TelexFresh
  VnKey <- TelexKey
  VnBackspace <- TelexBackspace
  KeysOf <- TelexKeysOf
  Layout <- MCLayout
  Slots <- MCSlots
  UsKeys = {"KeyO", "KeyF", "Space", "Esc"}
  Controls = {"esc"}
  Boards <- MCBoards
  Attached = {{"words"}}
  Overlapped = {}
  UserActions = {}
  MaxPresses = 8
  MaxEvents = 0
PROPERTY SeparatorSurvives
CHECK_DEADLOCK FALSE
