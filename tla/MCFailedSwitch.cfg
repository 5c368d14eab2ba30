SPECIFICATION Spec
CONSTANTS
  None = None
  Configs <- MCWaylandOnly
  Hooks <- MCHooks
  Requests = {"evdev"}
  Faults = {"grab_fails"}
  MaxCommands = 1
  MaxFaults = 2
  MaxStarts = 1
PROPERTY KeptUntilReplaced
CHECK_DEADLOCK FALSE
