SPECIFICATION Spec
CONSTANTS
  None = None
  MaxWord = 4
  Char <- MCChar
  Alpha = {"o", "u", "f", "F"}
  Boundary = {"_"}
  Wide = {"O", "U"}
  EngineStates <- MCEngineStates
  Fresh <- TelexFresh
  VnKey <- TelexKey
  VnBackspace <- TelexBackspace
  KeysOf <- TelexKeysOf
  Layout <- MCLayout
  Slots <- MCSlots
  UsKeys = {"KeyO", "KeyF", "Space", "Esc"}
  Controls = {"esc"}
  Boards <- MCBoards
  Attached = {{"full"}, {"left", "right"}}
  Overlapped = {"KeyO", "KeyF", "LeftShift", "LeftCtrl"}
  UserActions = {"idle", "toggle", "method", "stop"}
  MaxPresses = 4
  MaxEvents = 2
INVARIANTS TypeOK EmittedModsVisible TextArrives NoStuckKey
CHECK_DEADLOCK FALSE
